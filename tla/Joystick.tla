------------------------------ MODULE Joystick ------------------------------
(***************************************************************************)
(* The joysticks (Ges_Adc.c): the X axis of a stick gives its rod a        *)
(* direction and a speed, the Y axes of both, held together, make the      *)
(* gestures the menus answer.  The rods are alike and share nothing here:  *)
(* the module has the X axis of one.                                       *)
(***************************************************************************)
EXTENDS Integers

CONSTANTS
  MaxADC,               \* of the converter, 1023
  DEAD_ZONE_JOYSTICK, HYSTERESIS_JOYSTICK,
  Word,                 \* modulus of uint16_t
  CounterWord,          \* modulus of uint8_t
  Hold,                 \* reads both sticks are held for a gesture, 50
  Centres,              \* mid values of the X axis
  CentreY,              \* mid value of the Y axes
  PositionsX, PositionsY   \* values the converter gives

ASSUME JoystickAssumption ==
  /\ MaxADC \in Nat /\ DEAD_ZONE_JOYSTICK \in Nat /\ HYSTERESIS_JOYSTICK \in Nat
  /\ Word \in Nat
  /\ MaxADC + DEAD_ZONE_JOYSTICK + HYSTERESIS_JOYSTICK < Word
  /\ Hold \in Nat \ {0} /\ CounterWord \in Nat /\ 2 * Hold < CounterWord
  /\ Centres \subseteq 0..MaxADC /\ CentreY \in 0..MaxADC
  /\ PositionsX \subseteq 0..MaxADC /\ PositionsY \subseteq 0..MaxADC

VARIABLES
  mid,        \* Joystick_x_X_Mid_Value, set once by the calibration
  adcRes_X,   \* the last reading of the X axis
  direction, speed,   \* Stepper_Direction and speed of the rod
  ctr_joystick1, ctr_joystick2,
  raised,     \* the Joystick_are_ flags that are up
  out         \* history: reads each Y axis has been out of the dead zone,
              \* since it was in it or a gesture was made, at most 2 * Hold

rod == <<direction, speed>>
scan == <<ctr_joystick1, ctr_joystick2, raised, out>>
stickVars == <<mid, adcRes_X, rod, scan>>

Direction == {"UP", "DOWN", "CENTRED"}
Gesture == {"L", "R"} \X {"L", "R"}

JoystickTypeOK ==
  /\ mid \in Centres
  /\ adcRes_X \in 0..MaxADC
  /\ direction \in Direction /\ speed \in 0..5
  /\ ctr_joystick1 \in 0..(CounterWord - 1)
  /\ ctr_joystick2 \in 0..(CounterWord - 1)
  /\ raised \subseteq Gesture
  /\ out \in [{"Y1", "Y2"} -> 0..(2 * Hold)]

\* After the calibrations, whose moves leave a direction behind.
JoystickInit ==
  /\ mid \in Centres
  /\ adcRes_X = mid
  /\ direction \in {"UP", "DOWN"} /\ speed = 0
  /\ ctr_joystick1 = 0 /\ ctr_joystick2 = 0 /\ raised = {}
  /\ out = [a \in {"Y1", "Y2"} |-> 0]
-----------------------------------------------------------------------------
\* ADC_TO_SPEED.  The thresholds are uint16_t: below a small centre they wrap.
upper_stop == (mid + DEAD_ZONE_JOYSTICK) % Word
upper_start == (mid + DEAD_ZONE_JOYSTICK + HYSTERESIS_JOYSTICK) % Word
lower_stop == (mid - DEAD_ZONE_JOYSTICK) % Word
lower_start == (mid - DEAD_ZONE_JOYSTICK - HYSTERESIS_JOYSTICK) % Word

\* 1 to 5.
Limited(n) == IF n < 1 THEN 1 ELSE IF n > 5 THEN 5 ELSE n

\* The way of growing values, called up in Ges_Adc.c and STEPPER_DIR_DOWN.
KeepGoingDown(adc) ==
  /\ direction = "DOWN" /\ adc > upper_stop
  /\ speed' = Limited(1 + ((adc - upper_stop) * 4) \div (MaxADC - upper_stop))
  /\ direction' = direction

KeepGoingUp(adc) ==
  /\ direction = "UP" /\ adc < lower_stop
  /\ speed' = Limited(1 + ((lower_stop - adc) * 4) \div lower_stop)
  /\ direction' = direction

\* Mutant: the direction is dropped and the speed is not.
ComeToRestAtSpeed(adc) ==
  /\ \/ direction = "DOWN" /\ adc <= upper_stop
     \/ direction = "UP" /\ adc >= lower_stop
     \/ direction = "CENTRED" /\ adc \in lower_start..upper_start
  /\ direction' = "CENTRED" /\ speed' = speed

\* Back in the dead zone, or still there.
ComeToRest(adc) ==
  /\ \/ direction = "DOWN" /\ adc <= upper_stop
     \/ direction = "UP" /\ adc >= lower_stop
     \/ direction = "CENTRED" /\ adc \in lower_start..upper_start
  /\ direction' = "CENTRED" /\ speed' = 0

\* The speed waits for the next read.
SetOut(adc) ==
  /\ direction = "CENTRED" /\ adc \notin lower_start..upper_start
  /\ direction' = IF adc > upper_start THEN "DOWN" ELSE "UP"
  /\ speed' = speed

ADC_TO_SPEED(adc) ==
  KeepGoingDown(adc) \/ KeepGoingUp(adc) \/ ComeToRest(adc) \/ SetOut(adc)
-----------------------------------------------------------------------------
\* 2, 1 or 0, in int this time.
ADC_TO_DIG(adc, mid_point) ==
  IF adc > mid_point + DEAD_ZONE_JOYSTICK THEN "R"
  ELSE IF adc < mid_point - DEAD_ZONE_JOYSTICK THEN "L"
  ELSE "middle"

\* A counter of reads out of the dead zone.
\* Mutant: it keeps the reads of an earlier time out.
CountKept(ctr, dig) == IF dig = "middle" THEN ctr ELSE (ctr + 1) % CounterWord
Count(ctr, dig) == IF dig = "middle" THEN 0 ELSE (ctr + 1) % CounterWord

CountOut(n, dig) ==
  IF dig = "middle" THEN 0 ELSE IF n = 2 * Hold THEN n ELSE n + 1

\* Mutant: the counts must be equal to the hold.
HeldExactly(n1, n2) == n1 = Hold /\ n2 = Hold
Held(n1, n2) == n1 >= Hold /\ n2 >= Hold

Scan_X_AXIS(adc1, adc2) ==
  LET d1 == ADC_TO_DIG(adc1, CentreY)
      d2 == ADC_TO_DIG(adc2, CentreY)
      n1 == Count(ctr_joystick1, d1)
      n2 == Count(ctr_joystick2, d2)
  IN IF Held(n1, n2)
     THEN /\ ctr_joystick1' = 0 /\ ctr_joystick2' = 0
          /\ raised' = raised \union {<<d1, d2>>}
          /\ out' = [a \in {"Y1", "Y2"} |-> 0]
     ELSE /\ ctr_joystick1' = n1 /\ ctr_joystick2' = n2
          /\ out' = [Y1 |-> CountOut(out.Y1, d1), Y2 |-> CountOut(out.Y2, d2)]
          /\ UNCHANGED raised
=============================================================================
