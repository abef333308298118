------------------------------- MODULE Panel -------------------------------
(***************************************************************************)
(* The panel the player has: the joysticks and the loudspeaker, with what  *)
(* the scheduler of app.c makes of them after the calibrations.  Timer 1's *)
(* interrupt asks for a reading of the sticks or, with a tick of the tune, *)
(* for the menu; the menu takes the gestures it answers, may ask for a     *)
(* tune, and moves the rods, which leaves them a direction.                *)
(***************************************************************************)
EXTENDS Joystick, Sound

VARIABLE appState    \* appData.state: WAIT, TASKS or READ_ADC

vars == <<appState, stickVars, soundVars>>

TypeOK ==
  /\ JoystickTypeOK /\ SoundTypeOK
  /\ appState \in {"WAIT", "TASKS", "READ_ADC"}

Init == JoystickInit /\ SoundInit /\ appState = "WAIT"

\* IntHandlerDrvTmrInstance0.
AskTasks ==
  /\ appState = "WAIT"
  /\ appState' = "TASKS"
  /\ Play_Sound_1_Tick
  /\ UNCHANGED stickVars

AskReadAdc ==
  /\ appState = "WAIT"
  /\ appState' = "READ_ADC"
  /\ UNCHANGED <<stickVars, soundVars>>

\* Both handlers follow do_this_once in APP_Tasks, or precede all of it.
InHandler(s) ==
  /\ appState = s
  /\ written = 0 \/ FirstTuneWritten
  /\ appState' = "WAIT"

SERVICE_READ_ADC ==
  /\ InHandler("READ_ADC")
  /\ adcRes_X' \in PositionsX
  /\ ADC_TO_SPEED(adcRes_X')
  /\ \E adc1, adc2 \in PositionsY : Scan_X_AXIS(adc1, adc2)
  /\ UNCHANGED <<mid, soundVars>>

SERVICE_TASKS ==
  /\ InHandler("TASKS")
  /\ raised' \in SUBSET raised
  /\ direction' \in {direction, "UP", "DOWN"}
  /\ UNCHANGED soundVars \/ \E t \in Tunes : AskTune(t)
  /\ UNCHANGED <<mid, adcRes_X, speed, ctr_joystick1, ctr_joystick2, out>>

MainLoop == SERVICE_READ_ADC \/ SERVICE_TASKS

FirstTuneStep == WriteFirstTune /\ UNCHANGED <<appState, stickVars>>
Swing == dac_ad5620_generate_pulse /\ UNCHANGED <<appState, stickVars>>

Next == AskTasks \/ AskReadAdc \/ MainLoop \/ FirstTuneStep \/ Swing

\* The main loop runs, and a handler is over before the interrupt asks for the
\* next one, so that no request is missed for ever.
Fairness == WF_vars(MainLoop) /\ WF_vars(FirstTuneStep) /\ SF_vars(AskTasks)

Spec == Init /\ [][Next]_vars /\ Fairness
-----------------------------------------------------------------------------
\* A rod has a speed, 1 to 5, only while its stick is held out of the dead zone
\* on the side the rod goes to: one reading in the dead zone, or on the other
\* side, takes it away whatever direction a move had left (Ges_Adc.c: the two
\* returns of ADC_TO_SPEED).  Of centres no lower than the dead zone: below it
\* lower_stop wraps around, and a rod going up would never be stopped.
SpeedFollowsStick ==
  [][SERVICE_READ_ADC /\ mid >= DEAD_ZONE_JOYSTICK /\ speed' > 0 =>
       \/ direction' = "DOWN" /\ adcRes_X' > mid + DEAD_ZONE_JOYSTICK
       \/ direction' = "UP" /\ adcRes_X' < mid - DEAD_ZONE_JOYSTICK]_vars

\* A gesture is made only by sticks that have both been out for the whole hold
\* since the last one, although each counts alone and in eight bits.
GestureMeant ==
  [][raised' \ raised # {} => \A a \in {"Y1", "Y2"} : out[a] + 1 >= Hold]_vars

\* Both sticks held make one within two holds, even if the counter of one of
\* them has just wrapped around (Ges_Adc.c: Scan_X_AXIS).
GesturePrompt == out.Y1 < 2 * Hold \/ out.Y2 < 2 * Hold
=============================================================================
