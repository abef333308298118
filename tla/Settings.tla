------------------------------ MODULE Settings ------------------------------
(***************************************************************************)
(* The settings menu (Ges_Menu.c: Gestion_Menu_Setting) and the joystick   *)
(* gestures that drive it (Ges_Adc.c: Scan_X_AXIS).  A gesture is a flag   *)
(* that stays up until some menu takes it down, so a flag raised in one    *)
(* menu may be answered in another.                                        *)
(*                                                                         *)
(* Everything here runs in the main loop and touches nothing an interrupt  *)
(* does: one tick of the menu is one step.  Module Menu has the others.    *)
(***************************************************************************)
EXTENDS Integers

CONSTANTS
  LastSetting,      \* SYS_RECALIBRATION, the last of the settings, 9
  MaxBrightness,    \* MAX_BRIGHTNESS, 15
  TicksPerGesture   \* menu ticks from one gesture to the next, at least

\* A gesture takes 50 readings of the joysticks, one every 21 ms; the menu ticks
\* every 201 ms: five ticks, or four when one is dropped (module Pace).
ASSUME SettingsAssumption ==
  /\ LastSetting \in Nat \ {0}
  /\ MaxBrightness \in Nat
  /\ TicksPerGesture \in Nat /\ TicksPerGesture >= 4

Gesture == {"LL", "RR", "LR", "RL"}
SET_BRIGHTNESS == 1

VARIABLES
  menu_state,          \* SETTING, or one of the menus of module Menu
  gestures,            \* the flags that are up: Joystick_are_LL and so on
  quiet,               \* menu ticks since the last gesture
  setting_state,       \* the setting shown
  modification_state,  \* DEFAULT, or ENTERING when it is being changed
  menu_plus,           \* asked for more while ENTERING
  menu_minus,
  sys_brightness,
  saved_brightness     \* the brightness in the EEPROM

chosen == <<setting_state, modification_state, menu_plus, menu_minus>>
brightness == <<sys_brightness, saved_brightness>>
settingsVars == <<menu_state, gestures, quiet, chosen, brightness>>

SettingsInit ==
  /\ menu_state = "DEFAULT"
  /\ gestures = {}
  /\ quiet = TicksPerGesture
  /\ setting_state = 0
  /\ modification_state = "DEFAULT"
  /\ menu_plus = FALSE /\ menu_minus = FALSE
  /\ sys_brightness \in 0..MaxBrightness
  /\ saved_brightness = sys_brightness
-----------------------------------------------------------------------------
\* Mutant: the time the joysticks are held is not measured.
ScanAtOnce(g) ==
  /\ gestures' = gestures \union {g}
  /\ UNCHANGED <<menu_state, quiet, chosen, brightness>>

\* Both joysticks have been held aside for long enough.
Scan_X_AXIS(g) ==
  /\ quiet = TicksPerGesture
  /\ gestures' = gestures \union {g}
  /\ quiet' = 0
  /\ UNCHANGED <<menu_state, chosen, brightness>>

Tick == quiet' = IF quiet < TicksPerGesture THEN quiet + 1 ELSE quiet

Turned(g) == g \in gestures /\ modification_state = "DEFAULT"
Adjusted(g) == g \in gestures /\ modification_state = "ENTERING"

NextSetting(s) == IF s = LastSetting THEN 0 ELSE s + 1
PrevSetting(s) == IF s = 0 THEN LastSetting ELSE s - 1

\* RR is answered before LL.
SettingAfter ==
  LET right == IF Turned("RR") THEN NextSetting(setting_state) ELSE setting_state
  IN  IF Turned("LL") THEN PrevSetting(right) ELSE right

Leaves == "LR" \in gestures /\ modification_state = "DEFAULT"

\* RL is answered after LR.
ModificationAfter ==
  IF "RL" \in gestures THEN "ENTERING"
  ELSE IF "LR" \in gestures THEN "DEFAULT"
  ELSE modification_state

PlusAfter == menu_plus \/ Adjusted("RR")
MinusAfter == menu_minus \/ Adjusted("LL")

Less(b) == IF b <= 0 THEN 0 ELSE b - 1
More(b) == IF b >= MaxBrightness THEN MaxBrightness ELSE b + 1

BrightnessAfter ==
  LET darker == IF MinusAfter THEN Less(sys_brightness) ELSE sys_brightness
  IN  IF PlusAfter THEN More(darker) ELSE darker

\* The brightness is saved on the way out, before the setting shown is treated.
Gestion_Menu_Setting ==
  /\ menu_state = "SETTING"
  /\ Tick
  /\ gestures' = {}
  /\ setting_state' = SettingAfter
  /\ modification_state' = ModificationAfter
  /\ menu_state' = IF Leaves THEN "DEFAULT" ELSE "SETTING"
  /\ saved_brightness' = IF Leaves THEN sys_brightness ELSE saved_brightness
  /\ IF setting_state' = SET_BRIGHTNESS /\ modification_state' = "ENTERING"
     THEN /\ sys_brightness' = BrightnessAfter
          /\ menu_plus' = FALSE /\ menu_minus' = FALSE
     ELSE /\ menu_plus' = PlusAfter /\ menu_minus' = MinusAfter
          /\ UNCHANGED sys_brightness
-----------------------------------------------------------------------------
SettingsTypeOK ==
  /\ gestures \subseteq Gesture
  /\ quiet \in 0..TicksPerGesture
  /\ setting_state \in 0..LastSetting
  /\ modification_state \in {"DEFAULT", "ENTERING"}
  /\ menu_plus \in BOOLEAN /\ menu_minus \in BOOLEAN
  /\ sys_brightness \in 0..MaxBrightness
  /\ saved_brightness \in 0..MaxBrightness

\* Out of the settings, no setting is still being changed: the gesture that leaves
\* and the one that enters a change never meet in one tick, not even when one of
\* them was made in another menu (Ges_Menu.c:239-253).
ModificationClosed == menu_state # "SETTING" => modification_state = "DEFAULT"

\* Out of the settings, the brightness in use is the one in the EEPROM: none is
\* adjusted after it was saved, although the save comes first in the tick that
\* leaves and a + or a - asked for elsewhere stays latched (Ges_Menu.c:243, 282-300).
BrightnessSaved == menu_state # "SETTING" => saved_brightness = sys_brightness
=============================================================================
