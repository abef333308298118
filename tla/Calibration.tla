---------------------------- MODULE Calibration ----------------------------
(***************************************************************************)
(* The calibration of the two motors (app.c: APP_Tasks, lines 242-254, and *)
(* Stepper_RunCalibration): in every pass of the main loop the four end    *)
(* switches are read, then each motor is stopped at the switch it looks    *)
(* for or sent one search move towards it, until both have met their       *)
(* bottom and then their top switch.  The timer-2 interrupt may fall       *)
(* between any two accesses.                                               *)
(***************************************************************************)
EXTENDS Stepper

CONSTANTS
  Travel,         \* the height of each rod's top switch; the bottom one is at 0
  StartPosition,  \* Position_X before calibration
  DefaultCourse,  \* Position_FC2 before calibration
  InitialHeights  \* where the two rods may stand at power-on, between their switches

ASSUME CalibrationAssumption ==
  /\ Travel \in [Motor -> Nat \ {0}]
  /\ StartPosition \in Int
  /\ DefaultCourse \in Int
  /\ \A h \in InitialHeights : h \in [Motor -> Int]
                                /\ \A i \in Motor : h[i] \in 0..Travel[i]

VARIABLES
  calib_state,                \* FIND_BTM, FIND_TOP, DONE
  pressed,                    \* the switch each motor looks for, as last read
  calibration_Moteur_status,  \* both motors are DONE
  at                          \* where APP_Tasks is in its pass

calibVars == <<calib_state, pressed, calibration_Moteur_status, at>>
vars == <<stepperVars, calibVars>>

Init ==
  /\ state = [i \in Motor |-> "STBY"]
  /\ Stepper_Direction = [i \in Motor |-> "UP"]
  /\ Position_X = [i \in Motor |-> StartPosition]
  /\ Position_FC1 = [i \in Motor |-> 0]
  /\ Position_FC2 = [i \in Motor |-> DefaultCourse]
  /\ Stepper_nb_step = [i \in Motor |-> 0]
  /\ nb_step_left = [i \in Motor |-> 0]
  /\ Request_to_move = [i \in Motor |-> FALSE]
  /\ tiltLimitBlocked = [i \in Motor |-> FALSE]
  /\ pin = [i \in Motor |-> "UP"]
  /\ height \in InitialHeights
  /\ pc = "idle" /\ cur = 1 /\ target = 0
  /\ calib_state = [i \in Motor |-> "FIND_BTM"]
  /\ pressed = [i \in Motor |-> FALSE]
  /\ calibration_Moteur_status = FALSE
  /\ at = "read_2"
-----------------------------------------------------------------------------
\* The switches.  Only the one calib_state looks for is ever used.

\* Mutants: the two switches are swapped; the bottom one is read for both.
SwitchSwapped(i) ==
  \/ calib_state[i] = "FIND_BTM" /\ height[i] >= Travel[i]
  \/ calib_state[i] = "FIND_TOP" /\ height[i] <= 0
BottomSwitchOnly(i) == calib_state[i] # "DONE" /\ height[i] <= 0

SwitchPressed(i) ==
  \/ calib_state[i] = "FIND_BTM" /\ height[i] <= 0
  \/ calib_state[i] = "FIND_TOP" /\ height[i] >= Travel[i]

Wanted(i) == IF calib_state[i] = "FIND_BTM" THEN "DOWN" ELSE "UP"

ReadOf(i) == IF i = 1 THEN "read_1" ELSE "read_2"
RunOf(i) == IF i = 1 THEN "run_1" ELSE "run_2"
AfterRun(i) == IF i = 1 THEN "run_2" ELSE "status"

ReadSwitches(i) ==
  /\ at = ReadOf(i)
  /\ ~calibration_Moteur_status
  /\ pressed' = [pressed EXCEPT ![i] = SwitchPressed(i)]
  /\ at' = IF i = 2 THEN "read_1" ELSE "run_1"
  /\ UNCHANGED <<stepperVars, calib_state, calibration_Moteur_status>>
-----------------------------------------------------------------------------
\* Stepper_RunCalibration.

RunStop(i) ==
  /\ at = RunOf(i) /\ pc = "idle"
  /\ pressed[i]
  /\ APP_Stepper_Stop(i)
  /\ UNCHANGED calibVars

RunSearch(i) ==
  /\ at = RunOf(i) /\ pc = "idle"
  /\ ~pressed[i] /\ calib_state[i] # "DONE"
  /\ APP_Move_Calibration(i)
  /\ UNCHANGED calibVars

RunSkip(i) ==
  /\ at = RunOf(i) /\ pc = "idle"
  /\ ~pressed[i]
  /\ calib_state[i] = "DONE" \/ state[i] = "MOVING"
  /\ at' = AfterRun(i)
  /\ UNCHANGED <<stepperVars, calib_state, pressed, calibration_Moteur_status>>

FinishStop == (StopRequest \/ StopState) /\ UNCHANGED calibVars

SearchStores == MoveCalibration(Wanted(cur)) /\ UNCHANGED calibVars

SearchRequest ==
  /\ MoveRequest
  /\ at' = AfterRun(cur)
  /\ UNCHANGED <<calib_state, pressed, calibration_Moteur_status>>

BottomReached ==
  /\ calib_state[cur] = "FIND_BTM"
  /\ BottomFound
  /\ calib_state' = [calib_state EXCEPT ![cur] = "FIND_TOP"]
  /\ at' = AfterRun(cur)
  /\ UNCHANGED <<pressed, calibration_Moteur_status>>

TopReached ==
  /\ calib_state[cur] = "FIND_TOP"
  /\ TopFound
  /\ calib_state' = [calib_state EXCEPT ![cur] = "DONE"]
  /\ at' = AfterRun(cur)
  /\ UNCHANGED <<pressed, calibration_Moteur_status>>

EndOfPass ==
  /\ at = "status"
  /\ calibration_Moteur_status' = (\A i \in Motor : calib_state[i] = "DONE")
  /\ at' = "read_2"
  /\ UNCHANGED <<stepperVars, calib_state, pressed>>
-----------------------------------------------------------------------------
Interrupt == APP_Ges_stepper /\ UNCHANGED calibVars

MainLoop ==
  \/ \E i \in Motor : ReadSwitches(i) \/ RunStop(i) \/ RunSearch(i) \/ RunSkip(i)
  \/ FinishStop
  \/ SearchStores
  \/ SearchRequest
  \/ BottomReached
  \/ TopReached
  \/ EndOfPass

Next == Interrupt \/ MainLoop

\* The super-loop never stops and the timer never stops.
Spec == Init /\ [][Next]_vars /\ WF_vars(Interrupt) /\ WF_vars(MainLoop)

\* The same program when no interrupt happens to fall inside a pass.
BetweenPasses == at = "read_2" /\ Interrupt

LockstepSpec ==
  Init /\ [][BetweenPasses \/ MainLoop]_vars
       /\ SF_vars(BetweenPasses) /\ WF_vars(MainLoop)
-----------------------------------------------------------------------------
TypeOK ==
  /\ StepperTypeOK
  /\ calib_state \in [Motor -> {"FIND_BTM", "FIND_TOP", "DONE"}]
  /\ pressed \in [Motor -> BOOLEAN]
  /\ calibration_Moteur_status \in BOOLEAN
  /\ at \in {"read_1", "read_2", "run_1", "run_2", "status"}

\* The switch of motor i has been read in this pass and not acted on yet.
Fresh(i) == at = RunOf(i) \/ at = "run_1" \/ (i = 2 /\ at = "read_1")

(***************************************************************************)
(* The inductive invariant: a motor that moves or is about to looks for a  *)
(* switch and has the direction and the pin that lead to it, and the       *)
(* function the main loop is in works on a motor that is not DONE.         *)
(***************************************************************************)
CalibInv ==
  /\ \A i \in Motor :
       /\ ~AtRest(i) => /\ calib_state[i] # "DONE"
                        /\ Stepper_Direction[i] = Wanted(i)
       /\ state[i] = "MOVING" => pin[i] = Stepper_Direction[i]
       /\ pressed[i] /\ Fresh(i) => calib_state[i] # "DONE"
  /\ pc # "idle" => at = RunOf(cur) /\ calib_state[cur] # "DONE"
  /\ pc = "move_request" => Stepper_Direction[cur] = Wanted(cur)
  /\ pc = "stop_state" => ~Request_to_move[cur]
  /\ pc = "stopped" => AtRest(cur)
  /\ pc \notin {"move_plan", "move_tilt"}

\* Once a motor is DONE it is at rest and nothing is pending: no request issued
\* before its top switch was seen survives to move it later
\* (app.c: Stepper_RunCalibration, STEPPER_CALIB_FIND_TOP).
DoneIsAtRest == \A i \in Motor : calib_state[i] = "DONE" => AtRest(i)

\* A rod is never driven further past a switch than what is left of three search
\* moves: the one under way when the switch was read, one that was asked for
\* again before the interrupt had started it, and one that can still be asked for
\* in the pass that read the switch too early
\* (app.c: the switches are watched in every pass, lines 239-240).
Overshoot == 3 * SearchSteps - 1
NoRunaway ==
  \A i \in Motor : height[i] \in (-Overshoot)..(Travel[i] + Overshoot)

\* From its zero on, a motor counts the height of its rod up to the overshoot at
\* the bottom switch, so that the course it ends with is the true one up to the
\* two overshoots (app.c: Position_X = 0 and Position_FC2 = Position_X).
CourseIsMeasured ==
  \A i \in Motor :
    /\ calib_state[i] # "FIND_BTM" =>
         Position_X[i] - height[i] \in 0..Overshoot
    /\ calib_state[i] = "DONE" =>
         Position_FC2[i] - Position_FC1[i] \in Travel[i]..(Travel[i] + 2 * Overshoot)

\* While a motor is calibrated its count and its rod move together, except at the
\* moment the bottom switch restarts the count
\* (Ges_Stepper.c: the count follows Stepper_Direction, the rod follows the pin).
CountFollowsRod ==
  [][\A i \in Motor :
       calib_state'[i] = calib_state[i] =>
         Position_X'[i] - Position_X[i] = height'[i] - height[i]]_vars

\* The tilt limit holds both rods back for good: every motor that still looks for
\* a switch would have to exceed it, one counting from its bottom switch and the
\* other still from where it stood at power-on.
Jammed ==
  /\ \E i, j \in Motor : calib_state[i] = "FIND_BTM" /\ calib_state[j] # "FIND_BTM"
  /\ \A i \in Motor : calib_state[i] # "DONE" =>
       /\ Stepper_Direction[i] = Wanted(i)
       /\ Stepper_WouldExceedTiltLimit(i, Stepper_GetDeltaSteps)

\* Calibration ends, or the rods are jammed at the tilt limit: no interleaving of
\* the interrupt with the search stops it in any other way.
CalibrationEnds == <>(calibration_Moteur_status \/ Jammed)

\* What app.c:147-150 says of Stepper_RunCalibration: it calibrates a motor by
\* finding its two end switches one after the other.
CalibrationCompletes == <>calibration_Moteur_status
=============================================================================
