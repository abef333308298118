----------------------------- MODULE Scheduler -----------------------------
(***************************************************************************)
(* Who runs what (app.c: APP_Tasks, system_interrupt.c: timers 1 and 2).   *)
(* The main loop serves the request in appData.state and goes back to      *)
(* waiting; both timer interrupts place requests.  Timer 1 has the higher  *)
(* priority and may fall inside timer 2's interrupt, between its test of   *)
(* the state and its store; both may fall between any two accesses of the  *)
(* main loop.                                                              *)
(*                                                                         *)
(* The rods are in Calibration and Play, the menu in Menu: here a pass of  *)
(* the calibration may or may not have been its last, and the menu may     *)
(* start or end a game once a gesture has been seen.                       *)
(***************************************************************************)
EXTENDS Naturals

CONSTANTS
  TasksPeriod,   \* timer-1 ticks between two runs of the menu, 210
  TasksRestart,  \* where ctr_tasks starts again, 10
  AdcPeriod,     \* timer-1 ticks between two readings of the joysticks, 20
  JoyPeriod,     \* timer-2 ticks between two joystick actions, 5
  Samples,       \* readings averaged for the centre of the joysticks, 20
  HoldReadings   \* readings a gesture takes, 50

ASSUME SchedulerAssumption ==
  /\ TasksPeriod \in Nat /\ AdcPeriod \in Nat /\ JoyPeriod \in Nat
  /\ TasksRestart \in 0..TasksPeriod
  /\ Samples \in Nat
  /\ HoldReadings \in Nat \ {0}

VARIABLES
  state,                      \* appData.state, the request to serve
  ctr_tasks,
  ctr_read_adc,
  cpt_joystick_action,
  timer2,                     \* where timer 2's interrupt is: idle, store
  at,                         \* where APP_Tasks is: top, status, switch, or
                              \* the handler it is in
  calibration_ADC_status,
  calibration_Moteur_status,
  calibration_status_test,
  do_this_once,               \* the rods have been sent to their origin
  compteur_moyenne_adc,       \* joystick readings taken for the centre
  centre,                     \* how many of them the centre is the sum of
  held,                       \* readings both joysticks have been held aside,
                              \* the lower counter of Scan_X_AXIS
  gesture,                    \* one of the flags it raises is up
  in_game

timers == <<ctr_tasks, ctr_read_adc, cpt_joystick_action, timer2>>
calibration == <<calibration_ADC_status, calibration_Moteur_status,
                 calibration_status_test, do_this_once>>
joysticks == <<compteur_moyenne_adc, centre, held, gesture>>
vars == <<state, timers, at, calibration, joysticks, in_game>>

Handler == {"INIT", "TASKS", "CALIBRATION", "READ_ADC", "JOYSTICK"}

Init ==
  /\ state = "INIT"
  /\ ctr_tasks = 0 /\ ctr_read_adc = 0 /\ cpt_joystick_action = 0
  /\ timer2 = "idle"
  /\ at = "top"
  /\ calibration_ADC_status = FALSE
  /\ calibration_Moteur_status = FALSE
  /\ calibration_status_test = FALSE
  /\ do_this_once = FALSE
  /\ compteur_moyenne_adc = 0 /\ centre = 0
  /\ held = 0 /\ gesture = FALSE
  /\ in_game = FALSE
-----------------------------------------------------------------------------
\* Timer 1: the menu, or the calibration of the joysticks, and then, if nothing is
\* requested yet, a reading of the joysticks.

\* Mutants: a request replaces another; the calibrations are not waited for.
RequestedAlways(due) ==
  IF due THEN IF calibration_status_test THEN "TASKS" ELSE "CALIBRATION"
  ELSE state
RequestedTasks(due) == IF state = "WAIT" /\ due THEN "TASKS" ELSE state

Requested(due) ==
  IF state = "WAIT" /\ due
  THEN IF calibration_status_test THEN "TASKS" ELSE "CALIBRATION"
  ELSE state

IntHandlerDrvTmrInstance0 ==
  LET tasksDue == ctr_tasks >= TasksPeriod
      adcDue == ctr_read_adc >= AdcPeriod
      requested == Requested(tasksDue)
  IN  /\ ctr_tasks' = IF tasksDue THEN TasksRestart ELSE ctr_tasks + 1
      /\ ctr_read_adc' = IF adcDue THEN 0 ELSE ctr_read_adc + 1
      /\ state' = IF adcDue /\ calibration_status_test /\ requested = "WAIT"
                  THEN "READ_ADC" ELSE requested
      /\ UNCHANGED <<cpt_joystick_action, timer2, at, calibration, joysticks,
                     in_game>>

\* Timer 2, after it has moved the rods, up to its test of the state.
IntHandlerDrvTmrInstance1 ==
  LET due == cpt_joystick_action >= JoyPeriod
  IN  /\ timer2 = "idle"
      /\ cpt_joystick_action' = IF due THEN 0 ELSE cpt_joystick_action + 1
      /\ timer2' = IF due /\ state = "WAIT" THEN "store" ELSE "idle"
      /\ UNCHANGED <<state, ctr_tasks, ctr_read_adc, at, calibration, joysticks,
                     in_game>>

JoystickStore ==
  /\ timer2 = "store"
  /\ state' = "JOYSTICK"
  /\ timer2' = "idle"
  /\ UNCHANGED <<ctr_tasks, ctr_read_adc, cpt_joystick_action, at, calibration,
                 joysticks, in_game>>
-----------------------------------------------------------------------------
\* APP_Tasks.  The main loop stands still during an interrupt.

MainAt(place) == timer2 = "idle" /\ at = place

MotorPass ==
  /\ MainAt("top")
  /\ calibration_Moteur_status' = TRUE \/ UNCHANGED calibration_Moteur_status
  /\ do_this_once' = (do_this_once \/ calibration_status_test)
  /\ at' = "status"
  /\ UNCHANGED <<state, timers, calibration_ADC_status, calibration_status_test,
                 joysticks, in_game>>

GlobalStatus ==
  /\ MainAt("status")
  /\ calibration_status_test' =
       (calibration_ADC_status /\ calibration_Moteur_status)
  /\ at' = "switch"
  /\ UNCHANGED <<state, timers, calibration_ADC_status,
                 calibration_Moteur_status, do_this_once, joysticks, in_game>>

Switch ==
  /\ MainAt("switch")
  /\ at' = IF state = "WAIT" THEN "top" ELSE state
  /\ UNCHANGED <<state, timers, calibration, joysticks, in_game>>

\* Mutant: a handler ends without its store.
ServeOnly(handler) == MainAt(handler) /\ at' = "top" /\ UNCHANGED <<state, timers>>

\* Every handler ends with its store of WAIT.
Serve(handler) ==
  /\ MainAt(handler)
  /\ state' = "WAIT"
  /\ at' = "top"
  /\ UNCHANGED timers

Initialise ==
  /\ Serve("INIT")
  /\ in_game' = FALSE
  /\ UNCHANGED <<calibration, joysticks>>

\* The menus answer gestures or leave them; a game starts on one.
Tasks ==
  /\ Serve("TASKS")
  /\ in_game' \in {in_game, FALSE, gesture}
  /\ gesture' \in {gesture, FALSE}
  /\ UNCHANGED <<calibration, compteur_moyenne_adc, centre, held>>

CentreDue == compteur_moyenne_adc >= Samples /\ ~calibration_ADC_status

Calibrate ==
  /\ Serve("CALIBRATION")
  /\ IF CentreDue
     THEN /\ calibration_ADC_status' = TRUE
          /\ centre' = compteur_moyenne_adc
          /\ UNCHANGED compteur_moyenne_adc
     ELSE /\ compteur_moyenne_adc' = (compteur_moyenne_adc + 1) % 256
          /\ UNCHANGED <<calibration_ADC_status, centre>>
  /\ UNCHANGED <<calibration_Moteur_status, calibration_status_test,
                 do_this_once, held, gesture, in_game>>

\* Mutant: a gesture leaves the counters where they are.
GestureKept ==
  /\ Serve("READ_ADC")
  /\ held + 1 >= HoldReadings /\ held' = held
  /\ gesture' = TRUE
  /\ UNCHANGED <<calibration, compteur_moyenne_adc, centre, in_game>>

\* The last reading of a hold: either stick has its counter, and both start again.
Gesture ==
  /\ Serve("READ_ADC")
  /\ held + 1 >= HoldReadings /\ held' = 0
  /\ gesture' = TRUE
  /\ UNCHANGED <<calibration, compteur_moyenne_adc, centre, in_game>>

\* Both sticks are still aside; or one is in the middle, or its counter wraps around.
NoGesture ==
  /\ Serve("READ_ADC")
  /\ \/ held + 1 < HoldReadings /\ held' = held + 1
     \/ held' = 0
  /\ UNCHANGED <<calibration, compteur_moyenne_adc, centre, gesture, in_game>>

ReadAdc == Gesture \/ NoGesture

\* What the joysticks do to the rods is in Play.
JoystickAction ==
  /\ Serve("JOYSTICK")
  /\ UNCHANGED <<calibration, joysticks, in_game>>

APP_Tasks ==
  \/ MotorPass
  \/ GlobalStatus
  \/ Switch
  \/ Initialise
  \/ Tasks
  \/ Calibrate
  \/ ReadAdc
  \/ JoystickAction

Interrupts ==
  \/ IntHandlerDrvTmrInstance0
  \/ IntHandlerDrvTmrInstance1
  \/ JoystickStore

Next == APP_Tasks \/ Interrupts

\* The main loop and the interrupt of timer 2, once begun, go on.
LoopFairness == WF_vars(JoystickStore) /\ SF_vars(APP_Tasks)

Spec == Init /\ [][Next]_vars /\ LoopFairness
-----------------------------------------------------------------------------
TypeOK ==
  /\ state \in Handler \union {"WAIT"}
  /\ ctr_tasks \in 0..TasksPeriod
  /\ ctr_read_adc \in 0..AdcPeriod
  /\ cpt_joystick_action \in 0..JoyPeriod
  /\ timer2 \in {"idle", "store"}
  /\ at \in Handler \union {"top", "status", "switch"}
  /\ calibration_ADC_status \in BOOLEAN /\ calibration_Moteur_status \in BOOLEAN
  /\ calibration_status_test \in BOOLEAN
  /\ do_this_once \in BOOLEAN /\ in_game \in BOOLEAN
  /\ compteur_moyenne_adc \in 0..255
  /\ centre \in 0..255
  /\ held \in 0..(HoldReadings - 1)
  /\ gesture \in BOOLEAN

\* While a handler runs the request is its own: neither timer, wherever it falls,
\* has placed another one that the handler's final store of WAIT would wipe out.
HandlerOwnsState == at \in Handler => state = at

\* The centre of the joysticks is the mean of exactly Samples readings, however often
\* the calibration handler still runs while the motors are not done.
CentreIsMean == calibration_ADC_status => centre = Samples

\* Nothing moves the rods by joystick or runs a menu before both calibrations are
\* over, that of the joysticks with a true mean, and no game begins before the rods
\* were sent to their origin, although the timers go by calibration_status_test and
\* the main loop by do_this_once, one pass later.
CalibratedFirst ==
  /\ at \in {"TASKS", "READ_ADC"} =>
       calibration_ADC_status /\ calibration_Moteur_status
  /\ CentreIsMean
  /\ in_game => do_this_once

\* The scheduler always comes back to waiting.
BackToWait == []<>(state = "WAIT")

\* What system_interrupt.c:147 says of timer 2: the joystick action is requested if
\* the state is WAIT, so that no request placed before it is lost.
RequestsKept ==
  [][state # "WAIT" /\ state' # state => at = state]_vars
=============================================================================
