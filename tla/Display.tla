------------------------------ MODULE Display ------------------------------
(***************************************************************************)
(* The six digits of the cabinet: the driver of the MAX7219                *)
(* (Mc32Max7219.c) and what each tick of the menu writes on them           *)
(* (Ges_Menu.c).  Some settings rewrite a digit or two and leave the       *)
(* others to whatever was there, so what the player reads depends on the   *)
(* way that led to the screen.  A digit is its segments, DP A B C D E F G; *)
(* the character of a value, numeral or hexadecimal letter, is one         *)
(* character, NUMERAL, whichever it is.                                    *)
(***************************************************************************)
EXTENDS Menu, Sequences

VARIABLES
  register,  \* registers 1 to 6 of the MAX7219, the digits, and the intensity
  blinking   \* the time of the game that is over is on the digits

display == <<register, blinking>>
displayVars == <<vars, display>>

SET_DEFAULT == 0
SET_TIME == 2
SEE_TIME == 3
SEE_NBR_PLAYED_GAME_SESSION == 4
SEE_NBR_PLAYED_GAME_ALL_TIME == 5
SEE_SYS_TEMP == 6
SEE_ALL_TIME_BEST_SCORE == 7
SEE_LAST_SCORE == 8
SYS_RECALIBRATION == 9

\* The brightness is one the chip has.
ASSUME DisplayAssumption == LastSetting = SYS_RECALIBRATION /\ MaxBrightness <= 15

MAX7219_NB_DIGITS == 6
MAX7219_REG_INTENSITY == 10
Position == 0..MAX7219_NB_DIGITS - 1
DigitRegister == 1..MAX7219_NB_DIGITS

NUMERAL == "#"
DP == 128
-----------------------------------------------------------------------------
\* The driver: what it leaves in the registers it is given.

\* Position 0 is the leftmost digit, driven by the last register.
MAX7219_PosToReg(position) == MAX7219_NB_DIGITS - position

\* The characters of the menu that the table has; it has no s.
MAX7219_Font ==
  [c \in {"S", "t", "A", "r", "d", "b", "G", "o", "c", "C", "L", "i", "B", "=",
          " ", NUMERAL} |->
     CASE c = "S" -> 91 [] c = "t" -> 15 [] c = "A" -> 119 [] c = "r" -> 5
       [] c = "d" -> 61 [] c \in {"b", "B"} -> 31 [] c = "G" -> 94
       [] c = "o" -> 29 [] c = "c" -> 13 [] c = "C" -> 78 [] c = "L" -> 14
       [] c = "i" -> 16 [] c = "=" -> 9 [] c = " " -> 0
       [] c = NUMERAL -> 127]

MAX7219_CharToSeg(c) == IF c \in DOMAIN MAX7219_Font THEN MAX7219_Font[c] ELSE 0

MAX7219_WriteReg(regs, reg, data) == [regs EXCEPT ![reg] = data]

MAX7219_SetIntensity(regs, intensity) ==
  MAX7219_WriteReg(regs, MAX7219_REG_INTENSITY,
                   IF intensity > 15 THEN 15 ELSE intensity)

\* Every digit off.
MAX7219_Clear(regs) ==
  [r \in DOMAIN regs |-> IF r \in DigitRegister THEN 0 ELSE regs[r]]

\* Of the registers written once and never again, nothing is kept.
MAX7219_Init(intensity) ==
  MAX7219_Clear([r \in DigitRegister \union {MAX7219_REG_INTENSITY} |-> intensity])

MAX7219_DisplayDigitChar(regs, position, c, dp) ==
  IF position >= MAX7219_NB_DIGITS THEN regs
  ELSE MAX7219_WriteReg(regs, MAX7219_PosToReg(position),
                        MAX7219_CharToSeg(c) + (IF dp THEN DP ELSE 0))

\* The character of each position: a point after a character is drawn with it
\* and takes no position of its own.
HasPoint(str, i) == i < Len(str) /\ str[i + 1] = "."
Following(str) == [i \in Nat |-> i + (IF HasPoint(str, i) THEN 2 ELSE 1)]
CharacterOf(str) ==
  LET p[position \in Position] ==
        IF position = 0 THEN 1 ELSE Following(str)[p[position - 1]]
  IN p

\* A short text is filled up with blanks.
Segments(str) ==
  [i \in Nat |-> IF i > Len(str) THEN MAX7219_CharToSeg(" ")
                 ELSE MAX7219_CharToSeg(str[i])
                      + (IF HasPoint(str, i) THEN DP ELSE 0)]
MAX7219_DisplayString(regs, str) ==
  [r \in DOMAIN regs |->
     IF r \notin DigitRegister THEN regs[r]
     ELSE Segments(str)[CharacterOf(str)[MAX7219_NB_DIGITS - r]]]
-----------------------------------------------------------------------------
\* The texts.
TextStart == <<"S", "t", "A", "r", "t">>
TextSettings == <<"S", " ", " ", " ", " ", " ">>
TextNone == <<" ", " ", " ", " ", " ", " ">>
TextCalibration == <<"c", "A", "L", "i", "B", "r">>
TextTime == <<"t", NUMERAL, NUMERAL, "=", NUMERAL, NUMERAL>>
TextCount == <<NUMERAL, NUMERAL, NUMERAL, NUMERAL, NUMERAL, NUMERAL>>
TextScore == <<NUMERAL, NUMERAL, NUMERAL, "=", NUMERAL, NUMERAL>>
TextTemperature == <<" ", " ", NUMERAL, NUMERAL, ".", NUMERAL, NUMERAL>>

\* Six characters one by one, as the settings write them.
SixChars(regs, chars) ==
  [r \in DOMAIN regs |->
     IF r \in DigitRegister
     THEN MAX7219_CharToSeg(chars[MAX7219_NB_DIGITS - r + 1]) ELSE regs[r]]

\* The name of a setting, where it takes the six digits.
Title(setting) ==
  CASE setting = SET_BRIGHTNESS -> <<" ", "b", "r", " ", " ", " ">>
    [] setting = SEE_NBR_PLAYED_GAME_SESSION -> <<" ", "S", "G", "S", " ", " ">>
    [] setting = SEE_NBR_PLAYED_GAME_ALL_TIME -> <<" ", "S", "G", "A", " ", " ">>
    [] setting = SEE_SYS_TEMP -> <<" ", " ", "t", "o", " ", " ">>
    [] setting = SEE_ALL_TIME_BEST_SCORE -> <<" ", "S", "b", "s", "c", " ">>
    [] setting = SEE_LAST_SCORE -> <<" ", "S", "L", "s", "c", " ">>
    [] setting = SYS_RECALIBRATION -> <<" ", " ", "C", " ", " ", " ">>

Counted == {SEE_NBR_PLAYED_GAME_SESSION, SEE_NBR_PLAYED_GAME_ALL_TIME}
Scored == {SEE_ALL_TIME_BEST_SCORE, SEE_LAST_SCORE}

\* The setting shown, or its value while it is being changed.  The brightness
\* is shown before the + and - of the tick and set after them.
SettingScreen(regs, setting, entering) ==
  CASE setting = SET_DEFAULT ->
         MAX7219_DisplayDigitChar(regs, 2, "d", FALSE)
    [] setting = SET_BRIGHTNESS /\ entering ->
         MAX7219_DisplayDigitChar(
           MAX7219_DisplayDigitChar(regs, 5, NUMERAL, TRUE), 2, "b", TRUE)
    [] setting = SET_TIME ->
         MAX7219_DisplayDigitChar(
           MAX7219_DisplayDigitChar(regs, 2, "t", TRUE), 3, " ", FALSE)
    [] setting = SEE_TIME ->
         MAX7219_DisplayDigitChar(
           MAX7219_DisplayDigitChar(regs, 2, "t", FALSE), 3, " ", FALSE)
    [] setting \in Counted /\ entering -> MAX7219_DisplayString(regs, TextCount)
    [] setting = SEE_SYS_TEMP /\ entering ->
         MAX7219_DisplayString(regs, TextTemperature)
    [] setting \in Scored /\ entering -> MAX7219_DisplayString(regs, TextScore)
    [] setting = SYS_RECALIBRATION -> SixChars(regs, Title(setting))
    [] setting \in {SET_BRIGHTNESS, SEE_SYS_TEMP} \union Counted \union Scored
         /\ ~entering ->
         SixChars(regs, Title(setting))
-----------------------------------------------------------------------------
\* Start-up shows its text once the record has been read.
DisplayInit ==
  /\ Init
  /\ register = MAX7219_DisplayString(MAX7219_Init(sys_brightness), TextCalibration)
  /\ blinking = FALSE

Show(text) == register' = MAX7219_DisplayString(register, text)

\* The settings announce themselves over the name of the game.
DefaultScreen ==
  /\ DefaultTick \/ StartGame
  /\ Show(IF "LR" \in gestures THEN TextSettings ELSE TextStart)
  /\ UNCHANGED blinking

ProgressScreen == ProgressTick /\ Show(TextTime) /\ UNCHANGED blinking

EndGameScreen ==
  /\ EndGameTick
  /\ blinking' = ~blinking
  /\ Show(IF blinking THEN TextNone ELSE TextTime)

\* Mutant: the setting is shown as it was before the gestures of the tick.
SettingScreenBefore ==
  /\ SettingTick
  /\ register' =
       LET shown == SettingScreen(register, setting_state,
                                  modification_state = "ENTERING")
       IN IF setting_state' = SET_BRIGHTNESS /\ modification_state' = "ENTERING"
          THEN MAX7219_SetIntensity(shown, sys_brightness') ELSE shown
  /\ UNCHANGED blinking

SettingScreenTick ==
  /\ SettingTick
  /\ register' =
       LET shown == SettingScreen(register, setting_state',
                                  modification_state' = "ENTERING")
       IN IF setting_state' = SET_BRIGHTNESS /\ modification_state' = "ENTERING"
          THEN MAX7219_SetIntensity(shown, sys_brightness') ELSE shown
  /\ UNCHANGED blinking

NothingShown ==
  /\ GameStarted \/ StopGame \/ GoOn \/ GameWon \/ GameLostOrStopped
  /\ UNCHANGED display

DisplayTick ==
  \/ DefaultScreen \/ ProgressScreen \/ EndGameScreen \/ SettingScreenTick
  \/ NothingShown

DisplayNext ==
  \/ Gesturing /\ UNCHANGED display
  \/ \E outcome \in {"WON", "LOST"} : BallSensor(outcome) /\ UNCHANGED display
  \/ DisplayTick

\* The scheduler keeps the menu ticking.
DisplaySpec ==
  DisplayInit /\ [][DisplayNext]_displayVars /\ WF_displayVars(DisplayTick)
-----------------------------------------------------------------------------
Digit(position) == register[MAX7219_PosToReg(position)]
Shows(position, c) == Digit(position) = MAX7219_CharToSeg(c)
ShowsPoint(position, c) == Digit(position) = MAX7219_CharToSeg(c) + DP
NumberShown == \E p \in Position : Shows(p, NUMERAL) \/ ShowsPoint(p, NUMERAL)

\* The settings have been entered and none has been shown yet.
Announced == \A p \in Position : Shows(p, TextSettings[p + 1])

\* The settings that have a value to show.
Valued == SET_BRIGHTNESS..SEE_LAST_SCORE \ {SET_TIME, SEE_TIME}

\* What tells a setting from the nine others: the third digit, its point, and
\* the fourth digit where two settings share the third.
Titled ==
  CASE setting_state = SET_DEFAULT -> Shows(2, "d")
    [] setting_state = SET_BRIGHTNESS -> Shows(2, "r")
    [] setting_state = SET_TIME -> ShowsPoint(2, "t")
    [] setting_state = SEE_TIME -> Shows(2, "t") /\ Shows(3, " ")
    [] setting_state = SEE_NBR_PLAYED_GAME_SESSION -> Shows(2, "G") /\ Shows(3, "S")
    [] setting_state = SEE_NBR_PLAYED_GAME_ALL_TIME -> Shows(2, "G") /\ Shows(3, "A")
    [] setting_state = SEE_SYS_TEMP -> Shows(2, "t") /\ Shows(3, "o")
    [] setting_state = SEE_ALL_TIME_BEST_SCORE -> Shows(2, "b")
    [] setting_state = SEE_LAST_SCORE -> Shows(2, "L")
    [] setting_state = SYS_RECALIBRATION -> Shows(2, "C")

\* Whatever was on the digits before and whichever of them are rewritten, in the
\* settings the player reads either their name, before the first tick, or the
\* setting he is on; a number is on the digits exactly while the setting is open
\* and has a value, so no rest of a count, a time or a score is taken for one
\* (Ges_Menu.c:255-437 after the gestures of :206-253).
ScreenTellsSetting ==
  menu_state = "SETTING" /\ ~Announced =>
    /\ modification_state = "DEFAULT" => Titled
    /\ NumberShown <=> modification_state = "ENTERING" /\ setting_state \in Valued

\* Out of the settings nothing is left half done: no setting is still being
\* changed, and the brightness in use is the one in the EEPROM and on the digits,
\* although the save comes before the + and - of the tick that leaves and a
\* gesture made in another menu stays up until the settings (Ges_Menu.c:239-300).
SettingsClosed ==
  /\ ModificationClosed
  /\ BrightnessSaved
  /\ menu_state # "SETTING" => register[MAX7219_REG_INTENSITY] = sys_brightness
=============================================================================
