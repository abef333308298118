-------------------------------- MODULE Pace --------------------------------
(***************************************************************************)
(* How many ticks of the menu there are from one gesture of the joysticks  *)
(* to the next.  Both are requests of timer 1 (system_interrupt.c), counted *)
(* by two counters that know nothing of each other, and one may be lost:   *)
(* when it is due while another request waits or is served, or when timer  *)
(* 2's interrupt, which timer 1's has cut, stores over it.                 *)
(*                                                                         *)
(* Module Settings builds on the answer (TicksPerGesture).                 *)
(***************************************************************************)
EXTENDS Scheduler

CONSTANT MenuTicks    \* requests for the menu between two gestures, 5

\* Timer-1 ticks between two readings, 21, and between two runs of the menu, 201.
ReadingPeriod == AdcPeriod + 1
MenuPeriod == TasksPeriod + 1 - TasksRestart

\* A hold is longer than all but one of MenuTicks periods of the menu, whatever the
\* phase of the two counters.
ASSUME PaceAssumption ==
  /\ MenuTicks \in Nat
  /\ MenuPeriod * (MenuTicks - 1) + TasksPeriod + AdcPeriod
       < ReadingPeriod * HoldReadings

VARIABLES
  ticks,    \* history: ticks of the menu since the last gesture, and
  dropped   \* requests for one that were lost, each at most MenuTicks

paceVars == <<vars, ticks, dropped>>

PaceInit == Init /\ ticks = 0 /\ dropped = 0

Upped(n) == IF n < MenuTicks THEN n + 1 ELSE n
-----------------------------------------------------------------------------
\* Timer 1 finds the state taken when the menu is due.
Timer1 ==
  /\ IntHandlerDrvTmrInstance0
  /\ dropped' = IF ctr_tasks >= TasksPeriod /\ state # "WAIT"
                THEN Upped(dropped) ELSE dropped
  /\ UNCHANGED ticks

\* Timer 2 stores over a request for the menu.
Timer2Store ==
  /\ JoystickStore
  /\ dropped' = IF state = "TASKS" THEN Upped(dropped) ELSE dropped
  /\ UNCHANGED ticks

MenuTick ==
  /\ Tasks
  /\ ticks' = Upped(ticks)
  /\ UNCHANGED dropped

\* The count starts again with each gesture.
GestureMade ==
  /\ Gesture
  /\ ticks' = 0 /\ dropped' = 0

ReadingOnly == NoGesture /\ UNCHANGED <<ticks, dropped>>

Others ==
  /\ \/ IntHandlerDrvTmrInstance1
     \/ MotorPass \/ GlobalStatus \/ Switch
     \/ Initialise \/ Calibrate \/ JoystickAction
  /\ UNCHANGED <<ticks, dropped>>

PaceNext ==
  Timer1 \/ Timer2Store \/ MenuTick \/ GestureMade \/ ReadingOnly \/ Others

PaceSpec == PaceInit /\ [][PaceNext]_paceVars /\ LoopFairness
-----------------------------------------------------------------------------
\* Two gestures are at least MenuTicks requests for the menu apart: as many ticks,
\* but for those the state of the main loop or the other timer has cost (Ges_Adc.c:
\* Scan_X_AXIS, whose counters go by readings; system_interrupt.c:90-131, whose
\* readings and menus go by timer 1).  The settings rely on it: the gesture that
\* leaves them and one that enters a change never meet in one tick.
GesturesApart == [][GestureMade => ticks + dropped >= MenuTicks]_paceVars
=============================================================================
