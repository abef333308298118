----------------------------- MODULE MenuProofs -----------------------------
(***************************************************************************)
(* What holds of the menu however many games are played, wherever the ball *)
(* sensors fall, for every number of settings and every rate of gestures.  *)
(***************************************************************************)
EXTENDS Display, TLAPS

USE DEF Games

\* The settings keep their types.
LEMMA SettingTypeStep ==
  ASSUME SettingsTypeOK, Gestion_Menu_Setting
  PROVE  SettingsTypeOK' /\ menu_state' \in {"DEFAULT", "SETTING"}
<1> USE SettingsAssumption DEF SettingsTypeOK
<1>1. quiet' \in 0..TicksPerGesture
  BY DEF Gestion_Menu_Setting, Tick
<1>2. setting_state' \in 0..LastSetting
  BY DEF Gestion_Menu_Setting, SettingAfter, NextSetting, PrevSetting
<1>3. modification_state' \in {"DEFAULT", "ENTERING"}
  BY DEF Gestion_Menu_Setting, ModificationAfter
<1>4. PlusAfter \in BOOLEAN /\ MinusAfter \in BOOLEAN
  BY Zenon DEF PlusAfter, MinusAfter, Adjusted
<1>5. menu_plus' \in BOOLEAN /\ menu_minus' \in BOOLEAN
  BY <1>4, Zenon DEF Gestion_Menu_Setting
<1>6. BrightnessAfter \in 0..MaxBrightness
  BY DEF BrightnessAfter, Less, More
<1>7. sys_brightness' \in 0..MaxBrightness /\ saved_brightness' \in 0..MaxBrightness
  BY <1>6 DEF Gestion_Menu_Setting
<1>8. gestures' \subseteq Gesture /\ menu_state' \in {"DEFAULT", "SETTING"}
  BY DEF Gestion_Menu_Setting
<1> QED
  BY <1>1, <1>2, <1>3, <1>5, <1>7, <1>8

\* The clock of the gestures stays within its range.
LEMMA TickType ==
  ASSUME quiet \in 0..TicksPerGesture, Tick
  PROVE  quiet' \in 0..TicksPerGesture
BY SettingsAssumption DEF Tick

\* The menu keeps its types, whatever is fair.
LEMMA TypeKept == Init /\ [][Next]_vars => []TypeOK
<1>1. Init => TypeOK
  <2> SUFFICES ASSUME Init PROVE TypeOK
    OBVIOUS
  <2>1. saved \in Scores
    <3> DEFINE Found == [nbr_game_session : {0, 1}, best_time_score : {0, MaxTime},
                         last_time_score : {0, MaxTime}]
    <3>1. Found \subseteq Scores
      BY MenuAssumption DEF Scores
    <3> QED
      BY <3>1 DEF Init
  <2>2. info \in Scores
    BY <2>1 DEF Init, Scores
  <2>3. SettingsTypeOK
    <3>1. /\ gestures \subseteq Gesture
          /\ quiet \in 0..TicksPerGesture /\ setting_state \in 0..LastSetting
          /\ sys_brightness \in 0..MaxBrightness
          /\ saved_brightness \in 0..MaxBrightness
      BY SettingsAssumption DEF Init, SettingsInit
    <3>2. menu_plus \in BOOLEAN /\ menu_minus \in BOOLEAN
      BY Zenon DEF Init, SettingsInit
    <3> QED
      BY <3>1, <3>2 DEF Init, SettingsInit, SettingsTypeOK
  <2> QED
    BY <2>1, <2>2, <2>3 DEF Init, TypeOK, SettingsInit
<1>2. TypeOK /\ [Next]_vars => TypeOK'
  <2> SUFFICES ASSUME TypeOK, [Next]_vars PROVE TypeOK'
    OBVIOUS
  <2> USE DEF TypeOK
  <2>1. CASE Gesturing
    BY <2>1, SettingsAssumption
    DEF Gesturing, Scan_X_AXIS, SettingsTypeOK, chosen, brightness, scores, history
  <2>2. ASSUME NEW outcome \in {"WON", "LOST"}, BallSensor(outcome) PROVE TypeOK'
    BY <2>2 DEF BallSensor, SettingsTypeOK, chosen, brightness, scores, history
  <2>3. CASE DefaultTick
    BY <2>3, TickType
    DEF DefaultTick, Ticks, SettingsTypeOK, chosen, brightness, scores, history
  <2>4. CASE StartGame
    BY <2>4, TickType
    DEF StartGame, Ticks, SettingsTypeOK, chosen, brightness, scores
  <2>5. CASE GameStarted
    BY <2>5 DEF GameStarted, SettingsTypeOK, settingsVars, chosen, brightness,
                scores, history
  <2>6. CASE ProgressTick
    BY <2>6, TickType
    DEF ProgressTick, Ticks, SettingsTypeOK, chosen, brightness, scores
  <2>7. CASE StopGame
    BY <2>7 DEF StopGame, SettingsTypeOK, chosen, brightness, scores, history
  <2>8. CASE GoOn
    BY <2>8 DEF GoOn, SettingsTypeOK, settingsVars, chosen, brightness, scores,
                history
  <2>9. CASE GameWon
    <3>1. info' \in Scores
      BY <2>9 DEF GameWon, Scores
    <3> QED
      BY <2>9, <3>1, TickType
      DEF GameWon, Ticks, SettingsTypeOK, chosen, brightness, history
  <2>10. CASE GameLostOrStopped
    BY <2>10, TickType
    DEF GameLostOrStopped, Ticks, SettingsTypeOK, chosen, brightness, scores, history
  <2>11. CASE EndGameTick
    <3>1. info' \in Scores /\ saved' \in Scores
      BY <2>11 DEF EndGameTick, Save, scores, Scores
    <3>2. saved_brightness' \in 0..MaxBrightness
      BY <2>11 DEF EndGameTick, Save, SettingsTypeOK
    <3> QED
      BY <2>11, <3>1, <3>2, TickType
      DEF EndGameTick, Ticks, SettingsTypeOK, chosen, history
  <2>12. CASE SettingTick
    BY <2>12, SettingTypeStep DEF SettingTick, history
  <2>13. CASE UNCHANGED vars
    BY <2>13 DEF vars, SettingsTypeOK, settingsVars, chosen, brightness, scores,
                 history
  <2> QED
    BY <2>1, <2>2, <2>3, <2>4, <2>5, <2>6, <2>7, <2>8, <2>9, <2>10, <2>11, <2>12,
       <2>13
    DEF Next, Gestion_Menu
<1> QED
  BY <1>1, <1>2, PTL

\* The menu and its settings keep their types.
THEOREM MenuTypeCorrect == Spec => []TypeOK
BY TypeKept, PTL DEF Spec
-----------------------------------------------------------------------------
(***************************************************************************)
(* Counting.  While a tick sets a game up or goes on with one, the sensors *)
(* may end the game but nothing can close it: StopGame ends a game that    *)
(* has not been counted yet.                                               *)
(***************************************************************************)
MidGame == at \in {"starting", "progress"} =>
             menu_state \in {"IN_PROGRESS", "WON", "LOST"}

\* A tick that is under way stays in its game, whatever is fair.
LEMMA MidGameKept == Init /\ [][Next]_vars => []MidGame
<1>1. Init => MidGame
  BY DEF Init, MidGame
<1>2. MidGame /\ [Next]_vars => MidGame'
  <2> SUFFICES ASSUME MidGame, [Next]_vars PROVE MidGame'
    OBVIOUS
  <2> USE DEF MidGame
  <2>1. CASE Gesturing
    BY <2>1 DEF Gesturing
  <2>2. ASSUME NEW outcome \in {"WON", "LOST"}, BallSensor(outcome) PROVE MidGame'
    BY <2>2 DEF BallSensor
  <2>3. CASE StartGame \/ ProgressTick
    BY <2>3 DEF StartGame, ProgressTick, Ticks
  <2>4. CASE GameStarted \/ StopGame \/ GoOn
    BY <2>4 DEF GameStarted, StopGame, GoOn
  <2>5. CASE DefaultTick \/ GameWon \/ GameLostOrStopped \/ EndGameTick \/ SettingTick
    BY <2>5 DEF DefaultTick, GameWon, GameLostOrStopped, EndGameTick, SettingTick,
                Ticks
  <2>6. CASE UNCHANGED vars
    BY <2>6 DEF vars, settingsVars
  <2> QED
    BY <2>1, <2>2, <2>3, <2>4, <2>5, <2>6 DEF Next, Gestion_Menu
<1> QED
  BY <1>1, <1>2, PTL

\* A tick that is under way found a game running, and sensors only end it.
THEOREM MenuMidGame == Spec => []MidGame
BY MidGameKept, PTL DEF Spec

\* Every game is counted exactly once, however it ends.
THEOREM MenuGamesCounted == Spec => []GamesCounted
<1>1. Init => GamesCounted
  BY DEF Init, SettingsInit, GamesCounted, Scores
<1>2. TypeOK /\ MidGame /\ GamesCounted /\ [Next]_vars => GamesCounted'
  <2> SUFFICES ASSUME TypeOK, MidGame, GamesCounted, [Next]_vars
               PROVE  GamesCounted'
    OBVIOUS
  <2> USE DEF GamesCounted, TypeOK, Scores
  <2>1. CASE Gesturing
    BY <2>1 DEF Gesturing, Scan_X_AXIS, scores, history
  <2>2. ASSUME NEW outcome \in {"WON", "LOST"}, BallSensor(outcome)
        PROVE  GamesCounted'
    BY <2>2 DEF BallSensor, scores, history
  <2>3. CASE DefaultTick
    BY <2>3 DEF DefaultTick, Ticks, scores, history
  <2>4. CASE StartGame
    BY <2>4 DEF StartGame, Ticks, scores
  <2>5. CASE GameStarted \/ GoOn
    BY <2>5 DEF GameStarted, GoOn, settingsVars, scores, history
  <2>6. CASE ProgressTick
    BY <2>6 DEF ProgressTick, scores
  <2>7. CASE StopGame
    BY <2>7 DEF StopGame, MidGame, scores, history
  <2>8. CASE GameWon
    BY <2>8 DEF GameWon, Ticks, history
  <2>9. CASE GameLostOrStopped
    BY <2>9 DEF GameLostOrStopped, Ticks, scores, history
  <2>10. CASE EndGameTick
    BY <2>10 DEF EndGameTick, Ticks, scores, history
  <2>11. CASE SettingTick
    BY <2>11 DEF SettingTick, Gestion_Menu_Setting, history
  <2>12. CASE UNCHANGED vars
    BY <2>12 DEF vars, settingsVars, scores, history
  <2> QED
    BY <2>1, <2>2, <2>3, <2>4, <2>5, <2>6, <2>7, <2>8, <2>9, <2>10, <2>11, <2>12
    DEF Next, Gestion_Menu
<1> QED
  BY <1>1, <1>2, MenuTypeCorrect, MenuMidGame, PTL DEF Spec

\* From the first game on, the EEPROM holds the scores between two games.
THEOREM MenuScoresSaved == Spec => []ScoresSaved
<1>1. Init => ScoresSaved
  BY DEF Init, ScoresSaved, Scores
<1>2. TypeOK /\ MidGame /\ ScoresSaved /\ [Next]_vars => ScoresSaved'
  <2> SUFFICES ASSUME TypeOK, MidGame, ScoresSaved, [Next]_vars
               PROVE  ScoresSaved'
    OBVIOUS
  <2> USE DEF ScoresSaved
  <2>1. CASE Gesturing
    BY <2>1 DEF Gesturing, Scan_X_AXIS, scores
  <2>2. ASSUME NEW outcome \in {"WON", "LOST"}, BallSensor(outcome)
        PROVE  ScoresSaved'
    BY <2>2 DEF BallSensor
  <2>3. CASE DefaultTick
    BY <2>3 DEF DefaultTick, Ticks, scores
  <2>4. CASE StartGame
    BY <2>4 DEF StartGame
  <2>5. CASE GameStarted \/ GoOn
    BY <2>5 DEF GameStarted, GoOn, settingsVars, scores
  <2>6. CASE ProgressTick
    BY <2>6 DEF ProgressTick, scores
  <2>7. CASE StopGame \/ GameWon \/ GameLostOrStopped
    BY <2>7 DEF StopGame, GameWon, GameLostOrStopped
  <2>8. CASE EndGameTick
    BY <2>8 DEF EndGameTick, Ticks, Save, scores
  <2>9. CASE SettingTick
    BY <2>9 DEF SettingTick, Gestion_Menu_Setting
  <2>10. CASE UNCHANGED vars
    BY <2>10 DEF vars, settingsVars, scores
  <2> QED
    BY <2>1, <2>2, <2>3, <2>4, <2>5, <2>6, <2>7, <2>8, <2>9, <2>10
    DEF Next, Gestion_Menu
<1> QED
  BY <1>1, <1>2, MenuTypeCorrect, MenuMidGame, PTL DEF Spec
-----------------------------------------------------------------------------
(***************************************************************************)
(* A game that runs or has just been won is in the joysticks' hands and    *)
(* shows its own time; in the tick that is setting it up, it has none yet. *)
(***************************************************************************)
OwnGame ==
  /\ at = "starting" => played = 0
  /\ at # "starting" /\ menu_state \in {"IN_PROGRESS", "WON"} => current_time = played
  /\ at # "starting" /\ menu_state = "IN_PROGRESS" => in_game
  /\ at # "starting" /\ in_game =>
       menu_state \in {"IN_PROGRESS", "WON", "LOST", "END_GAME"}

\* A step keeps the game in its own hands.
LEMMA OwnGameStep == TypeOK /\ MidGame /\ OwnGame /\ [Next]_vars => OwnGame'
<1> SUFFICES ASSUME TypeOK, MidGame, OwnGame, [Next]_vars PROVE OwnGame'
  OBVIOUS
<1> USE DEF OwnGame
<1>1. CASE Gesturing
  BY <1>1 DEF Gesturing, Scan_X_AXIS, history
<1>2. ASSUME NEW outcome \in {"WON", "LOST"}, BallSensor(outcome) PROVE OwnGame'
  BY <1>2 DEF BallSensor, history
<1>3. CASE DefaultTick
  BY <1>3 DEF DefaultTick, Ticks, history
<1>4. CASE StartGame
  BY <1>4 DEF StartGame
<1>5. CASE GameStarted
  BY <1>5 DEF GameStarted, MidGame, settingsVars, history
<1>6. CASE ProgressTick
  BY <1>6 DEF ProgressTick, Ticks
<1>7. CASE StopGame
  BY <1>7 DEF StopGame, history
<1>8. CASE GoOn
  BY <1>8 DEF GoOn, settingsVars, history
<1>9. CASE GameWon
  BY <1>9 DEF GameWon, Ticks, history
<1>10. CASE GameLostOrStopped
  BY <1>10 DEF GameLostOrStopped, Ticks, history
<1>11. CASE EndGameTick
  BY <1>11 DEF EndGameTick, Ticks, history
<1>12. CASE SettingTick
  BY <1>12 DEF SettingTick, Gestion_Menu_Setting, history
<1>13. CASE UNCHANGED vars
  BY <1>13 DEF vars, settingsVars, history
<1> QED
  BY <1>1, <1>2, <1>3, <1>4, <1>5, <1>6, <1>7, <1>8, <1>9, <1>10, <1>11, <1>12,
     <1>13
  DEF Next, Gestion_Menu

\* The game that runs is in the joysticks' hands and shows its own time.
THEOREM MenuOwnGame == Spec => []OwnGame
<1>1. Init => OwnGame
  BY DEF Init, SettingsInit, OwnGame
<1> QED
  BY <1>1, OwnGameStep, MenuTypeCorrect, MenuMidGame, PTL DEF Spec

\* The joysticks drive the rods in every game that runs and in no menu.
THEOREM MenuJoysticksOnlyInGame == Spec => []JoysticksOnlyInGame
<1>1. OwnGame => JoysticksOnlyInGame
  BY DEF OwnGame, JoysticksOnlyInGame
<1> QED
  BY <1>1, MenuOwnGame, PTL

\* A won game is credited with its own time.
THEOREM MenuTimeIsOfThisGame == Spec => []TimeIsOfThisGame
<1>1. OwnGame => TimeIsOfThisGame
  BY DEF OwnGame, TimeIsOfThisGame
<1> QED
  BY <1>1, MenuOwnGame, PTL
-----------------------------------------------------------------------------
(***************************************************************************)
(* The menu implements Session.                                            *)
(***************************************************************************)
\* The menu starts as a session does.
LEMMA SessionInit == TypeOK /\ Init => Promise!Init
<1> SUFFICES ASSUME TypeOK, Init PROVE Promise!Init
  OBVIOUS
<1>1. SessionPhase = "idle"
  BY DEF Init, SettingsInit, SessionPhase
<1>2. info.nbr_game_session = 0 /\ saved.nbr_game_session \in Nat
  BY DEF Init, TypeOK, Scores
<1> QED
  BY <1>1, <1>2 DEF Promise!Init

\* A step of the menu is a step of the session, or none.
LEMMA SessionStep ==
  TypeOK /\ MidGame /\ [Next]_vars
    => [Promise!Next]_<<SessionPhase, info.nbr_game_session, saved.nbr_game_session>>
<1> SUFFICES ASSUME TypeOK, MidGame, [Next]_vars
             PROVE  \/ Promise!Next
                    \/ UNCHANGED <<SessionPhase, info.nbr_game_session,
                                   saved.nbr_game_session>>
  OBVIOUS
<1> USE DEF TypeOK, Scores, SessionPhase, Promise!Next
<1>1. CASE Gesturing
  BY <1>1 DEF Gesturing, Scan_X_AXIS, scores
<1>2. ASSUME NEW outcome \in {"WON", "LOST"}, BallSensor(outcome)
      PROVE  Promise!End
  BY <1>2 DEF BallSensor, scores, Promise!End
<1>3. CASE DefaultTick
  BY <1>3 DEF DefaultTick, Ticks, scores
<1>4. CASE StartGame
  BY <1>4 DEF StartGame, Ticks, scores, Promise!Begin
<1>5. CASE GameStarted \/ GoOn
  BY <1>5 DEF GameStarted, GoOn, settingsVars, scores
<1>6. CASE ProgressTick
  BY <1>6 DEF ProgressTick, scores
<1>7. CASE StopGame
  BY <1>7 DEF StopGame, MidGame, scores, Promise!End
<1>8. CASE GameWon
  BY <1>8 DEF GameWon, Ticks
<1>9. CASE GameLostOrStopped
  BY <1>9 DEF GameLostOrStopped, Ticks, scores
<1>10. CASE EndGameTick
  BY <1>10 DEF EndGameTick, Ticks, Save, scores, Promise!Close
<1>11. CASE SettingTick
  BY <1>11 DEF SettingTick, Gestion_Menu_Setting, Promise!SaveSettings
<1>12. CASE UNCHANGED vars
  BY <1>12 DEF vars, settingsVars, scores
<1> QED
  BY <1>1, <1>2, <1>3, <1>4, <1>5, <1>6, <1>7, <1>8, <1>9, <1>10, <1>11, <1>12
  DEF Next, Gestion_Menu

\* The menu keeps the promise of module Session.
THEOREM MenuImplementsSession == Spec => SessionKept
<1>1. Spec => [](TypeOK /\ MidGame)
  BY MenuTypeCorrect, MenuMidGame, PTL
<1> QED
  BY <1>1, SessionInit, SessionStep, PTL DEF Spec, SessionKept, Promise!Spec
-----------------------------------------------------------------------------
(***************************************************************************)
(* Leaving the settings.  The two gestures that must not meet there can be *)
(* up together anywhere else, but where they are, it is not long since the *)
(* last gesture: less than it takes to get to the settings and through     *)
(* their first tick, which takes every flag down.                          *)
(***************************************************************************)
Running == {"IN_PROGRESS", "WON", "LOST", "STOPPED"}

Apart ==
  /\ at = "starting" => "LR" \notin gestures
  /\ at = "wait" /\ menu_state \in Running /\ {"LL", "LR"} \subseteq gestures =>
       quiet = 0
  /\ menu_state = "END_GAME" /\ {"LL", "LR"} \subseteq gestures => quiet <= 1
  /\ menu_state = "DEFAULT" /\ "LR" \in gestures => quiet <= 2
  /\ menu_state = "SETTING" /\ gestures # {} => quiet <= 3
  /\ menu_state = "SETTING" => ~({"LR", "RL"} \subseteq gestures)

Closed == ModificationClosed /\ BrightnessSaved

\* A tick that is counted.
LEMMA TickCounts ==
  ASSUME TypeOK, Tick
  PROVE  quiet' <= quiet + 1 /\ quiet \in Nat /\ quiet' \in Nat
BY SettingsAssumption DEF TypeOK, SettingsTypeOK, Tick

\* The gestures stay apart.
LEMMA ApartStep == TypeOK /\ MidGame /\ Apart /\ [Next]_vars => Apart'
<1> SUFFICES ASSUME TypeOK, MidGame, Apart, [Next]_vars PROVE Apart'
  OBVIOUS
<1> USE DEF Apart, Running
<1>0. quiet \in Nat /\ gestures \subseteq Gesture
  BY DEF TypeOK, SettingsTypeOK
<1>1. CASE Gesturing
  <2>1. PICK g \in Gesture : Scan_X_AXIS(g)
    BY <1>1 DEF Gesturing
  <2>2. /\ quiet = TicksPerGesture /\ quiet' = 0 /\ gestures' = gestures \union {g}
        /\ at = "wait" /\ at' = at /\ menu_state' = menu_state
    BY <1>1, <2>1 DEF Gesturing, Scan_X_AXIS
  <2>3. menu_state = "SETTING" => gestures = {}
    BY <1>0, <2>2, SettingsAssumption
  <2>4. menu_state' = "SETTING" => ~({"LR", "RL"} \subseteq gestures')
    BY <2>2, <2>3
  <2> QED
    BY <2>2, <2>4
<1>2. ASSUME NEW outcome \in {"WON", "LOST"}, BallSensor(outcome) PROVE Apart'
  BY <1>2 DEF BallSensor
<1>3. CASE DefaultTick
  BY <1>0, <1>3, TickCounts DEF DefaultTick, Ticks
<1>4. CASE StartGame
  BY <1>4 DEF StartGame
<1>5. CASE GameStarted
  BY <1>5 DEF GameStarted, settingsVars
<1>6. CASE ProgressTick
  BY <1>6 DEF ProgressTick, Ticks
<1>7. CASE StopGame
  BY <1>7 DEF StopGame
<1>8. CASE GoOn
  BY <1>8, MidGame DEF GoOn, MidGame, settingsVars
<1>9. CASE GameWon
  BY <1>0, <1>9, TickCounts DEF GameWon, Ticks
<1>10. CASE GameLostOrStopped
  BY <1>0, <1>10, TickCounts DEF GameLostOrStopped, Ticks
<1>11. CASE EndGameTick
  BY <1>0, <1>11, TickCounts DEF EndGameTick, Ticks
<1>12. CASE SettingTick
  BY <1>12 DEF SettingTick, Gestion_Menu_Setting
<1>13. CASE UNCHANGED vars
  BY <1>13 DEF vars, settingsVars
<1> QED
  BY <1>1, <1>2, <1>3, <1>4, <1>5, <1>6, <1>7, <1>8, <1>9, <1>10, <1>11, <1>12,
     <1>13
  DEF Next, Gestion_Menu

\* While they do, nothing is left half done.
LEMMA ClosedStep == TypeOK /\ MidGame /\ Apart /\ Closed /\ [Next]_vars => Closed'
<1> SUFFICES ASSUME TypeOK, MidGame, Apart, Closed, [Next]_vars PROVE Closed'
  OBVIOUS
<1> USE DEF Closed, ModificationClosed, BrightnessSaved
<1>1. CASE SettingTick
  <2>1. CASE Leaves
    <3>1. "RL" \notin gestures
      BY <1>1, <2>1 DEF Apart, Leaves, SettingTick, Gestion_Menu_Setting
    <3>2. modification_state' = "DEFAULT"
      BY <1>1, <2>1, <3>1
      DEF SettingTick, Gestion_Menu_Setting, ModificationAfter, Leaves
    <3>3. saved_brightness' = sys_brightness /\ sys_brightness' = sys_brightness
      BY <1>1, <2>1, <3>2 DEF SettingTick, Gestion_Menu_Setting
    <3> QED
      BY <3>2, <3>3
  <2>2. CASE ~Leaves
    BY <1>1, <2>2 DEF SettingTick, Gestion_Menu_Setting
  <2> QED
    BY <2>1, <2>2
<1>2. CASE EndGameTick
  BY <1>2 DEF EndGameTick, Ticks, Save, chosen
<1>3. CASE DefaultTick \/ StartGame \/ GameStarted \/ ProgressTick
  BY <1>3 DEF DefaultTick, StartGame, GameStarted, ProgressTick, Ticks,
              settingsVars, chosen, brightness
<1>4. CASE StopGame \/ GoOn \/ GameWon \/ GameLostOrStopped
  BY <1>4 DEF MidGame, StopGame, GoOn, GameWon, GameLostOrStopped, Ticks,
              settingsVars, chosen, brightness
<1>5. CASE Gesturing
  BY <1>5 DEF Gesturing, Scan_X_AXIS, chosen, brightness
<1>6. ASSUME NEW outcome \in {"WON", "LOST"}, BallSensor(outcome) PROVE Closed'
  BY <1>6 DEF BallSensor, chosen, brightness
<1>7. CASE UNCHANGED vars
  BY <1>7 DEF vars, settingsVars, chosen, brightness
<1> QED
  BY <1>1, <1>2, <1>3, <1>4, <1>5, <1>6, <1>7 DEF Next, Gestion_Menu
-----------------------------------------------------------------------------
\* What is written on the digits leaves the intensity alone.
SameIntensity(regs, after) ==
  MAX7219_REG_INTENSITY \in DOMAIN regs =>
    /\ MAX7219_REG_INTENSITY \in DOMAIN after
    /\ after[MAX7219_REG_INTENSITY] = regs[MAX7219_REG_INTENSITY]

\* One digit written.
LEMMA OneDigit ==
  ASSUME NEW regs, NEW position \in Position, NEW c, NEW dp
  PROVE  SameIntensity(regs, MAX7219_DisplayDigitChar(regs, position, c, dp))
<1> DEFINE data == MAX7219_CharToSeg(c) + (IF dp THEN DP ELSE 0)
<1>1. /\ MAX7219_PosToReg(position) # MAX7219_REG_INTENSITY
      /\ ~(position >= MAX7219_NB_DIGITS)
  BY DEF Position, MAX7219_PosToReg, MAX7219_NB_DIGITS, MAX7219_REG_INTENSITY
<1>2. MAX7219_DisplayDigitChar(regs, position, c, dp)
        = [regs EXCEPT ![MAX7219_PosToReg(position)] = data]
  BY <1>1, Zenon DEF MAX7219_DisplayDigitChar, MAX7219_WriteReg
<1> HIDE DEF data
<1> QED
  BY <1>1, <1>2 DEF SameIntensity

\* Two digits written.
LEMMA TwoDigits ==
  ASSUME NEW regs, NEW p1 \in Position, NEW c1, NEW dp1,
         NEW p2 \in Position, NEW c2, NEW dp2
  PROVE  SameIntensity(regs, MAX7219_DisplayDigitChar(
           MAX7219_DisplayDigitChar(regs, p1, c1, dp1), p2, c2, dp2))
<1> DEFINE once == MAX7219_DisplayDigitChar(regs, p1, c1, dp1)
<1>1. SameIntensity(regs, once)
  BY OneDigit
<1>2. SameIntensity(once, MAX7219_DisplayDigitChar(once, p2, c2, dp2))
  BY OneDigit
<1> QED
  BY <1>1, <1>2, Zenon DEF SameIntensity

\* The intensity has a register of its own.
LEMMA NotADigit ==
  MAX7219_REG_INTENSITY \notin DigitRegister
BY DEF MAX7219_REG_INTENSITY, DigitRegister, MAX7219_NB_DIGITS

\* All six digits written.
LEMMA WholeText ==
  ASSUME NEW regs, NEW str
  PROVE  /\ SameIntensity(regs, MAX7219_DisplayString(regs, str))
         /\ SameIntensity(regs, SixChars(regs, str))
BY NotADigit, Zenon DEF SameIntensity, MAX7219_DisplayString, SixChars

\* What each setting writes.
LEMMA Screens ==
  ASSUME NEW regs
  PROVE  /\ \A e \in BOOLEAN :
              SettingScreen(regs, 0, e)
              = MAX7219_DisplayDigitChar(regs, 2, "d", FALSE)
         /\ SettingScreen(regs, 1, TRUE)
              = MAX7219_DisplayDigitChar(
                  MAX7219_DisplayDigitChar(regs, 5, NUMERAL, TRUE), 2, "b", TRUE)
         /\ \A e \in BOOLEAN :
              SettingScreen(regs, 2, e)
              = MAX7219_DisplayDigitChar(
                  MAX7219_DisplayDigitChar(regs, 2, "t", TRUE), 3, " ", FALSE)
         /\ \A e \in BOOLEAN :
              SettingScreen(regs, 3, e)
              = MAX7219_DisplayDigitChar(
                  MAX7219_DisplayDigitChar(regs, 2, "t", FALSE), 3, " ", FALSE)
         /\ \A k \in {4, 5} :
              SettingScreen(regs, k, TRUE) = MAX7219_DisplayString(regs, TextCount)
         /\ SettingScreen(regs, 6, TRUE)
              = MAX7219_DisplayString(regs, TextTemperature)
         /\ \A k \in {7, 8} :
              SettingScreen(regs, k, TRUE) = MAX7219_DisplayString(regs, TextScore)
         /\ \A k \in {1, 4, 5, 6, 7, 8} :
              SettingScreen(regs, k, FALSE) = SixChars(regs, Title(k))
         /\ \A e \in BOOLEAN :
              SettingScreen(regs, 9, e) = SixChars(regs, Title(9))
<1> USE DEF SettingScreen, SET_DEFAULT, SET_BRIGHTNESS, SET_TIME, SEE_TIME,
            SEE_NBR_PLAYED_GAME_SESSION, SEE_NBR_PLAYED_GAME_ALL_TIME,
            SEE_SYS_TEMP, SEE_ALL_TIME_BEST_SCORE, SEE_LAST_SCORE,
            SYS_RECALIBRATION, Counted, Scored
<1>1. ASSUME NEW e \in BOOLEAN
      PROVE  SettingScreen(regs, 0, e)
        = MAX7219_DisplayDigitChar(regs, 2, "d", FALSE)
  OBVIOUS
<1>2. SettingScreen(regs, 1, TRUE)
        = MAX7219_DisplayDigitChar(
            MAX7219_DisplayDigitChar(regs, 5, NUMERAL, TRUE), 2, "b", TRUE)
  OBVIOUS
<1>3. ASSUME NEW e \in BOOLEAN
      PROVE  SettingScreen(regs, 2, e)
        = MAX7219_DisplayDigitChar(
            MAX7219_DisplayDigitChar(regs, 2, "t", TRUE), 3, " ", FALSE)
  OBVIOUS
<1>4. ASSUME NEW e \in BOOLEAN
      PROVE  SettingScreen(regs, 3, e)
        = MAX7219_DisplayDigitChar(
            MAX7219_DisplayDigitChar(regs, 2, "t", FALSE), 3, " ", FALSE)
  OBVIOUS
<1>5. /\ SettingScreen(regs, 4, TRUE) = MAX7219_DisplayString(regs, TextCount)
      /\ SettingScreen(regs, 5, TRUE) = MAX7219_DisplayString(regs, TextCount)
      /\ SettingScreen(regs, 6, TRUE) = MAX7219_DisplayString(regs, TextTemperature)
      /\ SettingScreen(regs, 7, TRUE) = MAX7219_DisplayString(regs, TextScore)
      /\ SettingScreen(regs, 8, TRUE) = MAX7219_DisplayString(regs, TextScore)
  OBVIOUS
<1>6. ASSUME NEW e \in BOOLEAN
      PROVE  SettingScreen(regs, 9, e) = SixChars(regs, Title(9))
  OBVIOUS
<1>7. /\ SettingScreen(regs, 1, FALSE) = SixChars(regs, Title(1))
      /\ SettingScreen(regs, 4, FALSE) = SixChars(regs, Title(4))
      /\ SettingScreen(regs, 5, FALSE) = SixChars(regs, Title(5))
      /\ SettingScreen(regs, 6, FALSE) = SixChars(regs, Title(6))
      /\ SettingScreen(regs, 7, FALSE) = SixChars(regs, Title(7))
      /\ SettingScreen(regs, 8, FALSE) = SixChars(regs, Title(8))
  OBVIOUS
<1> HIDE DEF SettingScreen
<1> QED
  BY <1>1, <1>2, <1>3, <1>4, <1>5, <1>6, <1>7, Zenon

\* Whatever a setting writes.
LEMMA AnySetting ==
  ASSUME NEW regs, NEW setting \in 0..LastSetting, NEW entering \in BOOLEAN
  PROVE  SameIntensity(regs, SettingScreen(regs, setting, entering))
<1>1. 2 \in Position /\ 3 \in Position /\ 5 \in Position
  BY DEF Position, MAX7219_NB_DIGITS
<1>2. setting \in 0..9
  BY DisplayAssumption DEF SYS_RECALIBRATION
<1> DEFINE Same(k, e) == SameIntensity(regs, SettingScreen(regs, k, e))
<1>3. Same(0, entering) /\ Same(2, entering) /\ Same(3, entering)
  <2>1. Same(0, entering)
    <3>1. SettingScreen(regs, 0, entering)
            = MAX7219_DisplayDigitChar(regs, 2, "d", FALSE)
      BY Screens
    <3> QED
      BY <1>1, <3>1, OneDigit, Zenon
  <2>2. Same(2, entering)
    <3>1. SettingScreen(regs, 2, entering)
            = MAX7219_DisplayDigitChar(
                MAX7219_DisplayDigitChar(regs, 2, "t", TRUE), 3, " ", FALSE)
      BY Screens
    <3> QED
      BY <1>1, <3>1, TwoDigits, Zenon
  <2>3. Same(3, entering)
    <3>1. SettingScreen(regs, 3, entering)
            = MAX7219_DisplayDigitChar(
                MAX7219_DisplayDigitChar(regs, 2, "t", FALSE), 3, " ", FALSE)
      BY Screens
    <3> QED
      BY <1>1, <3>1, TwoDigits, Zenon
  <2> QED
    BY <2>1, <2>2, <2>3
<1>4. Same(1, TRUE)
  <2>1. SettingScreen(regs, 1, TRUE)
          = MAX7219_DisplayDigitChar(
              MAX7219_DisplayDigitChar(regs, 5, NUMERAL, TRUE), 2, "b", TRUE)
    BY Screens
  <2> QED
    BY <1>1, <2>1, TwoDigits, Zenon
<1>5. \A k \in {4, 5, 6, 7, 8} : Same(k, TRUE)
  <2> TAKE k \in {4, 5, 6, 7, 8}
  <2>1. PICK str : SettingScreen(regs, k, TRUE) = MAX7219_DisplayString(regs, str)
    <3>1. CASE k \in {4, 5}
      BY <3>1, Screens, Zenon
    <3>2. CASE k = 6
      BY <3>2, Screens, Zenon
    <3>3. CASE k \in {7, 8}
      BY <3>3, Screens, Zenon
    <3> QED
      BY <3>1, <3>2, <3>3
  <2> QED
    BY <2>1, WholeText, Zenon
<1>6. \A k \in {1, 4, 5, 6, 7, 8} : Same(k, FALSE)
  BY Screens, WholeText, Zenon
<1>7. Same(9, entering)
  BY Screens, WholeText, Zenon
<1> HIDE DEF Same
<1>8. Same(setting, entering)
  <2>1. CASE setting \in {0, 2, 3, 9}
    BY <1>3, <1>7, <2>1
  <2>2. CASE setting \in {1, 4, 5, 6, 7, 8} /\ entering = FALSE
    BY <1>6, <2>2, Zenon
  <2>3. CASE setting \in {1, 4, 5, 6, 7, 8} /\ entering = TRUE
    <3>1. CASE setting = 1
      BY <1>4, <2>3, <3>1, Zenon
    <3>2. CASE setting \in {4, 5, 6, 7, 8}
      BY <1>5, <2>3, <3>2, Zenon
    <3> QED
      BY <2>3, <3>1, <3>2
  <2>4. setting \in {0, 2, 3, 9} \/ setting \in {1, 4, 5, 6, 7, 8}
    BY <1>2
  <2>5. entering = TRUE \/ entering = FALSE
    OBVIOUS
  <2> QED
    BY <2>1, <2>2, <2>3, <2>4, <2>5
<1> QED
  BY <1>8 DEF Same

\* The chip shines as bright as the settings say, in the settings and out of them.
Shining ==
  /\ MAX7219_REG_INTENSITY \in DOMAIN register
  /\ register[MAX7219_REG_INTENSITY] = sys_brightness

\* At start-up the chip gets the brightness of the record.
LEMMA StartShining == TypeOK /\ DisplayInit => Shining
<1> SUFFICES ASSUME TypeOK, DisplayInit PROVE Shining
  OBVIOUS
<1> DEFINE reset == MAX7219_Init(sys_brightness)
<1>1. /\ MAX7219_REG_INTENSITY \in DOMAIN reset
      /\ reset[MAX7219_REG_INTENSITY] = sys_brightness
  BY NotADigit, Zenon DEF MAX7219_Init, MAX7219_Clear
<1>2. SameIntensity(reset, register)
  BY WholeText DEF DisplayInit
<1> QED
  BY <1>1, <1>2, Zenon DEF SameIntensity, Shining

\* A tick of the settings changes the brightness and its register together.
LEMMA SettingShining ==
  ASSUME TypeOK, TypeOK', Shining, SettingScreenTick
  PROVE  Shining'
<1> DEFINE shown == SettingScreen(register, setting_state',
                                  modification_state' = "ENTERING")
<1>1. SameIntensity(register, shown)
  <2>1. /\ setting_state' \in 0..LastSetting
        /\ (modification_state' = "ENTERING") \in BOOLEAN
    BY DEF TypeOK, SettingsTypeOK
  <2> QED
    BY <2>1, AnySetting
<1>2. /\ MAX7219_REG_INTENSITY \in DOMAIN shown
      /\ shown[MAX7219_REG_INTENSITY] = sys_brightness
  BY <1>1, Zenon DEF SameIntensity, Shining
<1> HIDE DEF shown
<1>3. CASE setting_state' = SET_BRIGHTNESS /\ modification_state' = "ENTERING"
  <2>1. register' = MAX7219_SetIntensity(shown, sys_brightness')
    BY <1>3, Zenon DEF SettingScreenTick, shown
  <2>2. sys_brightness' \in 0..MaxBrightness
    BY DEF TypeOK, SettingsTypeOK
  <2>3. ~(sys_brightness' > 15)
    BY <2>2, SettingsAssumption, DisplayAssumption
  <2>4. register' = [shown EXCEPT ![MAX7219_REG_INTENSITY] = sys_brightness']
    BY <2>1, <2>3, Zenon DEF MAX7219_SetIntensity, MAX7219_WriteReg
  <2> QED
    BY <1>2, <2>4 DEF Shining
<1>4. CASE ~(setting_state' = SET_BRIGHTNESS /\ modification_state' = "ENTERING")
  <2>1. register' = shown
    BY <1>4, Zenon DEF SettingScreenTick, shown
  <2>2. sys_brightness' = sys_brightness
    BY <1>4, Zenon DEF SettingScreenTick, SettingTick, Gestion_Menu_Setting
  <2> QED
    BY <1>2, <2>1, <2>2, Zenon DEF Shining
<1> QED
  BY <1>3, <1>4

\* So do all the others: they change neither.
LEMMA ShiningStep ==
  TypeOK /\ TypeOK' /\ Shining /\ [DisplayNext]_displayVars => Shining'
<1> SUFFICES ASSUME TypeOK, TypeOK', Shining, [DisplayNext]_displayVars
             PROVE  Shining'
  OBVIOUS
<1>1. ASSUME NEW text, Show(text), sys_brightness' = sys_brightness
      PROVE  Shining'
  BY <1>1, WholeText, Zenon DEF Show, SameIntensity, Shining
<1>2. CASE DefaultScreen
  <2>1. sys_brightness' = sys_brightness
    BY <1>2 DEF DefaultScreen, DefaultTick, StartGame, brightness
  <2> QED
    BY <1>1, <1>2, <2>1, Zenon DEF DefaultScreen
<1>3. CASE ProgressScreen
  <2>1. sys_brightness' = sys_brightness
    BY <1>3 DEF ProgressScreen, ProgressTick, brightness
  <2> QED
    BY <1>1, <1>3, <2>1, Zenon DEF ProgressScreen
<1>4. CASE EndGameScreen
  <2>1. sys_brightness' = sys_brightness
    BY <1>4 DEF EndGameScreen, EndGameTick
  <2> QED
    BY <1>1, <1>4, <2>1, Zenon DEF EndGameScreen
<1>5. ASSUME register' = register, sys_brightness' = sys_brightness
      PROVE  Shining'
  BY <1>5, Zenon DEF Shining
<1>6. CASE NothingShown
  BY <1>5, <1>6
  DEF NothingShown, GameStarted, StopGame, GoOn, GameWon, GameLostOrStopped,
      settingsVars, brightness, display
<1>7. CASE Gesturing /\ UNCHANGED display
  BY <1>5, <1>7 DEF Gesturing, Scan_X_AXIS, brightness, display
<1>8. ASSUME NEW outcome \in {"WON", "LOST"}, BallSensor(outcome), UNCHANGED display
      PROVE  Shining'
  BY <1>5, <1>8 DEF BallSensor, brightness, display
<1>9. CASE UNCHANGED displayVars
  BY <1>5, <1>9 DEF displayVars, display, vars, settingsVars, brightness
<1> QED
  BY <1>2, <1>3, <1>4, <1>6, <1>7, <1>8, <1>9, SettingShining
  DEF DisplayNext, DisplayTick

\* A step of the display is one of the menu.
LEMMA DisplayStep == [DisplayNext]_displayVars => [Next]_vars
BY DEF DisplayNext, DisplayTick, DefaultScreen, ProgressScreen, EndGameScreen,
       SettingScreenTick, NothingShown, Next, Gestion_Menu, displayVars

\* Out of the settings nothing is left half done, for every number of settings,
\* every way through the menus and every rate of gestures the readings allow.
THEOREM DisplaySettingsClosed == DisplaySpec => []SettingsClosed
<1>1. DisplaySpec => Init /\ [][Next]_vars
  BY DisplayStep, PTL DEF DisplaySpec, DisplayInit
<1>2. DisplaySpec => [](TypeOK /\ MidGame)
  BY <1>1, TypeKept, MidGameKept, PTL
<1>3. Init => Apart /\ Closed
  BY DEF Init, SettingsInit, Apart, Running, Closed, ModificationClosed,
         BrightnessSaved
<1>4. DisplaySpec => [](Apart /\ Closed)
  BY <1>1, <1>2, <1>3, ApartStep, ClosedStep, PTL
<1>5. DisplaySpec => []Shining
  BY <1>2, StartShining, ShiningStep, PTL DEF DisplaySpec
<1>6. Closed /\ Shining => SettingsClosed
  BY DEF Closed, Shining, SettingsClosed
<1> QED
  BY <1>4, <1>5, <1>6, PTL
-----------------------------------------------------------------------------
\* The segments of the characters the settings write.
LEMMA Font ==
  /\ MAX7219_CharToSeg("S") = 91 /\ MAX7219_CharToSeg("t") = 15
  /\ MAX7219_CharToSeg("A") = 119 /\ MAX7219_CharToSeg("r") = 5
  /\ MAX7219_CharToSeg("d") = 61 /\ MAX7219_CharToSeg("b") = 31
  /\ MAX7219_CharToSeg("G") = 94 /\ MAX7219_CharToSeg("o") = 29
  /\ MAX7219_CharToSeg("c") = 13 /\ MAX7219_CharToSeg("C") = 78
  /\ MAX7219_CharToSeg("L") = 14 /\ MAX7219_CharToSeg(" ") = 0
  /\ MAX7219_CharToSeg("s") = 0 /\ MAX7219_CharToSeg(NUMERAL) = 127
BY DEF MAX7219_CharToSeg, MAX7219_Font, NUMERAL

\* The text is read from its first character on.
LEMMA Reading ==
  ASSUME NEW str
  PROVE  /\ CharacterOf(str)[0] = 1
         /\ \A i \in 1..5 :
              CharacterOf(str)[i] = Following(str)[CharacterOf(str)[i - 1]]
<1> DEFINE F == Following(str)
           Step(f, i) == IF i = 0 THEN 1 ELSE F[f[i - 1]]
           g == [i \in Position |->
                   IF i = 0 THEN 1 ELSE IF i = 1 THEN F[1] ELSE IF i = 2 THEN F[F[1]]
                   ELSE IF i = 3 THEN F[F[F[1]]] ELSE IF i = 4 THEN F[F[F[F[1]]]]
                   ELSE F[F[F[F[F[1]]]]]]
           p == CharacterOf(str)
<1>1. Position = 0..5
  BY DEF Position, MAX7219_NB_DIGITS
<1> HIDE DEF F
<1>2. g = [i \in Position |-> Step(g, i)]
  <2>1. ASSUME NEW i \in Position PROVE g[i] = Step(g, i)
    <3>1. /\ g[0] = 1 /\ g[1] = F[1] /\ g[2] = F[F[1]] /\ g[3] = F[F[F[1]]]
          /\ g[4] = F[F[F[F[1]]]] /\ g[5] = F[F[F[F[F[1]]]]]
      BY <1>1
    <3> HIDE DEF g
    <3>2. i \in {0, 1, 2, 3, 4, 5}
      BY <1>1
    <3> QED
      BY <3>1, <3>2
  <2> HIDE DEF Step
  <2> QED
    BY <2>1
<1>3. p = [i \in Position |-> Step(p, i)]
  <2>1. p = CHOOSE f : f = [i \in Position |-> Step(f, i)]
    BY DEF CharacterOf, F
  <2> HIDE DEF p, g
  <2> QED
    BY <2>1, <1>2
<1> HIDE DEF p
<1>4. p[0] = 1 /\ \A i \in 1..5 : p[i] = F[p[i - 1]]
  BY <1>1, <1>3
<1> QED
  BY <1>4 DEF p, F

\* The values of the digits after a text.
LEMMA TextDigit ==
  ASSUME NEW regs, NEW str, NEW position \in Position,
         DOMAIN regs = DigitRegister \union {MAX7219_REG_INTENSITY}
  PROVE  MAX7219_DisplayString(regs, str)[MAX7219_PosToReg(position)]
           = Segments(str)[CharacterOf(str)[position]]
<1>1. /\ MAX7219_PosToReg(position) \in DigitRegister
      /\ MAX7219_NB_DIGITS - MAX7219_PosToReg(position) = position
  BY DEF Position, DigitRegister, MAX7219_PosToReg, MAX7219_NB_DIGITS
<1> QED
  BY <1>1, Zenon DEF MAX7219_DisplayString

\* A text of six characters and no point fills the digits in order.
LEMMA NoPoint ==
  ASSUME NEW str, Len(str) = 6, \A i \in 1..6 : str[i] # ".",
         NEW position \in Position
  PROVE  Segments(str)[CharacterOf(str)[position]]
           = MAX7219_CharToSeg(str[position + 1])
<1> DEFINE p == CharacterOf(str)
<1>1. \A i \in 1..6 : ~HasPoint(str, i)
  BY DEF HasPoint
<1>2. \A i \in 1..6 : Following(str)[i] = i + 1
  BY <1>1 DEF Following
<1>3. p[0] = 1 /\ \A i \in 1..5 : p[i] = Following(str)[p[i - 1]]
  BY Reading
<1> HIDE DEF p
<1>4. p[1] = 2 /\ p[2] = 3 /\ p[3] = 4 /\ p[4] = 5 /\ p[5] = 6
  BY <1>2, <1>3
<1>5. position \in {0, 1, 2, 3, 4, 5}
  BY DEF Position, MAX7219_NB_DIGITS
<1>6. p[position] = position + 1
  BY <1>3, <1>4, <1>5
<1>7. ASSUME NEW i \in 1..6 PROVE Segments(str)[i] = MAX7219_CharToSeg(str[i]) + 0
  <2>1. i \in Nat /\ ~(i > Len(str))
    OBVIOUS
  <2> QED
    BY <1>1, <2>1, Zenon DEF Segments
<1>8. MAX7219_CharToSeg(str[position + 1]) + 0 = MAX7219_CharToSeg(str[position + 1])
  <2>1. \A c : MAX7219_CharToSeg(c) \in Nat
    BY DEF MAX7219_CharToSeg, MAX7219_Font
  <2> QED
    BY <2>1
<1> QED
  BY <1>5, <1>6, <1>7, <1>8 DEF p

\* The registers of the chip.
Registers == DigitRegister \union {MAX7219_REG_INTENSITY}

\* The settings by their number.
LEMMA SettingNumbers ==
  /\ SET_DEFAULT = 0 /\ SET_BRIGHTNESS = 1 /\ SET_TIME = 2 /\ SEE_TIME = 3
  /\ SEE_NBR_PLAYED_GAME_SESSION = 4 /\ SEE_NBR_PLAYED_GAME_ALL_TIME = 5
  /\ SEE_SYS_TEMP = 6 /\ SEE_ALL_TIME_BEST_SCORE = 7 /\ SEE_LAST_SCORE = 8
  /\ SYS_RECALIBRATION = 9
  /\ Counted = {4, 5} /\ Scored = {7, 8} /\ Valued = {1, 4, 5, 6, 7, 8}
BY DEF SET_DEFAULT, SET_BRIGHTNESS, SET_TIME, SEE_TIME,
       SEE_NBR_PLAYED_GAME_SESSION, SEE_NBR_PLAYED_GAME_ALL_TIME, SEE_SYS_TEMP,
       SEE_ALL_TIME_BEST_SCORE, SEE_LAST_SCORE, SYS_RECALIBRATION, Counted, Scored,
       Valued

\* The positions and the registers of the digits.
LEMMA Digits == Position = {0, 1, 2, 3, 4, 5} /\ DigitRegister = {1, 2, 3, 4, 5, 6}
BY DEF Position, DigitRegister, MAX7219_NB_DIGITS

\* A number is on the digits; the digits tell which setting is shown.
NumberOn(regs) == \E r \in DigitRegister : regs[r] \in {127, 255}
TitleOn(regs, setting) ==
  CASE setting = 0 -> regs[4] = 61
    [] setting = 1 -> regs[4] = 5
    [] setting = 2 -> regs[4] = 143
    [] setting = 3 -> regs[4] = 15 /\ regs[3] = 0
    [] setting = 4 -> regs[4] = 94 /\ regs[3] = 91
    [] setting = 5 -> regs[4] = 94 /\ regs[3] = 119
    [] setting = 6 -> regs[4] = 15 /\ regs[3] = 29
    [] setting = 7 -> regs[4] = 31
    [] setting = 8 -> regs[4] = 14
    [] setting = 9 -> regs[4] = 78

\* What the six digits are after a title.
LEMMA TitleDigits ==
  ASSUME NEW regs, DOMAIN regs = Registers, NEW setting \in {1, 4, 5, 6, 7, 8, 9}
  PROVE  LET after == SixChars(regs, Title(setting))
         IN  TitleOn(after, setting) /\ ~NumberOn(after)
<1> DEFINE chars == Title(setting)
           after == SixChars(regs, chars)
           S(c) == MAX7219_CharToSeg(c)
<1>1. \A r \in {1, 2, 3, 4, 5, 6} : after[r] = MAX7219_CharToSeg(chars[7 - r])
  <2>1. ASSUME NEW r \in {1, 2, 3, 4, 5, 6}
        PROVE  after[r] = MAX7219_CharToSeg(chars[7 - r])
    <3>1. r \in DigitRegister /\ r \in DOMAIN regs
      BY Digits DEF Registers
    <3>2. after[r] = MAX7219_CharToSeg(chars[MAX7219_NB_DIGITS - r + 1])
      BY <3>1, Zenon DEF SixChars
    <3>3. MAX7219_NB_DIGITS - r + 1 = 7 - r
      BY DEF MAX7219_NB_DIGITS
    <3> QED
      BY <3>2, <3>3, Zenon
  <2> QED
    BY <2>1
<1> HIDE DEF after
<1>2. /\ after[1] = S(chars[6])
      /\ after[2] = S(chars[5])
      /\ after[3] = S(chars[4])
      /\ after[4] = S(chars[3])
      /\ after[5] = S(chars[2])
      /\ after[6] = S(chars[1])
  BY <1>1
<1>3. /\ TitleOn(after, setting)
      /\ \A r \in {1, 2, 3, 4, 5, 6} : after[r] \notin {127, 255}
  <2>1. CASE setting = 1
    <3>1. /\ chars[1] = " " /\ chars[2] = "b" /\ chars[3] = "r"
          /\ chars[4] = " " /\ chars[5] = " " /\ chars[6] = " "
      BY <2>1, SettingNumbers DEF Title
    <3> HIDE DEF chars
    <3>2. /\ S(chars[1]) = 0 /\ S(chars[2]) = 31 /\ S(chars[3]) = 5
          /\ S(chars[4]) = 0 /\ S(chars[5]) = 0 /\ S(chars[6]) = 0
      BY <3>1 DEF MAX7219_CharToSeg, MAX7219_Font, NUMERAL
    <3> HIDE DEF S
    <3>3. /\ after[6] = 0 /\ after[5] = 31 /\ after[4] = 5
          /\ after[3] = 0 /\ after[2] = 0 /\ after[1] = 0
      BY <1>2, <3>2, Zenon
    <3> QED
      BY <2>1, <3>3 DEF TitleOn
  <2>2. CASE setting = 4
    <3>1. /\ chars[1] = " " /\ chars[2] = "S" /\ chars[3] = "G"
          /\ chars[4] = "S" /\ chars[5] = " " /\ chars[6] = " "
      BY <2>2, SettingNumbers DEF Title
    <3> HIDE DEF chars
    <3>2. /\ S(chars[1]) = 0 /\ S(chars[2]) = 91 /\ S(chars[3]) = 94
          /\ S(chars[4]) = 91 /\ S(chars[5]) = 0 /\ S(chars[6]) = 0
      BY <3>1 DEF MAX7219_CharToSeg, MAX7219_Font, NUMERAL
    <3> HIDE DEF S
    <3>3. /\ after[6] = 0 /\ after[5] = 91 /\ after[4] = 94
          /\ after[3] = 91 /\ after[2] = 0 /\ after[1] = 0
      BY <1>2, <3>2, Zenon
    <3> QED
      BY <2>2, <3>3 DEF TitleOn
  <2>3. CASE setting = 5
    <3>1. /\ chars[1] = " " /\ chars[2] = "S" /\ chars[3] = "G"
          /\ chars[4] = "A" /\ chars[5] = " " /\ chars[6] = " "
      BY <2>3, SettingNumbers DEF Title
    <3> HIDE DEF chars
    <3>2. /\ S(chars[1]) = 0 /\ S(chars[2]) = 91 /\ S(chars[3]) = 94
          /\ S(chars[4]) = 119 /\ S(chars[5]) = 0 /\ S(chars[6]) = 0
      BY <3>1 DEF MAX7219_CharToSeg, MAX7219_Font, NUMERAL
    <3> HIDE DEF S
    <3>3. /\ after[6] = 0 /\ after[5] = 91 /\ after[4] = 94
          /\ after[3] = 119 /\ after[2] = 0 /\ after[1] = 0
      BY <1>2, <3>2, Zenon
    <3> QED
      BY <2>3, <3>3 DEF TitleOn
  <2>4. CASE setting = 6
    <3>1. /\ chars[1] = " " /\ chars[2] = " " /\ chars[3] = "t"
          /\ chars[4] = "o" /\ chars[5] = " " /\ chars[6] = " "
      BY <2>4, SettingNumbers DEF Title
    <3> HIDE DEF chars
    <3>2. /\ S(chars[1]) = 0 /\ S(chars[2]) = 0 /\ S(chars[3]) = 15
          /\ S(chars[4]) = 29 /\ S(chars[5]) = 0 /\ S(chars[6]) = 0
      BY <3>1 DEF MAX7219_CharToSeg, MAX7219_Font, NUMERAL
    <3> HIDE DEF S
    <3>3. /\ after[6] = 0 /\ after[5] = 0 /\ after[4] = 15
          /\ after[3] = 29 /\ after[2] = 0 /\ after[1] = 0
      BY <1>2, <3>2, Zenon
    <3> QED
      BY <2>4, <3>3 DEF TitleOn
  <2>5. CASE setting = 7
    <3>1. /\ chars[1] = " " /\ chars[2] = "S" /\ chars[3] = "b"
          /\ chars[4] = "s" /\ chars[5] = "c" /\ chars[6] = " "
      BY <2>5, SettingNumbers DEF Title
    <3> HIDE DEF chars
    <3>2. /\ S(chars[1]) = 0 /\ S(chars[2]) = 91 /\ S(chars[3]) = 31
          /\ S(chars[4]) = 0 /\ S(chars[5]) = 13 /\ S(chars[6]) = 0
      BY <3>1 DEF MAX7219_CharToSeg, MAX7219_Font, NUMERAL
    <3> HIDE DEF S
    <3>3. /\ after[6] = 0 /\ after[5] = 91 /\ after[4] = 31
          /\ after[3] = 0 /\ after[2] = 13 /\ after[1] = 0
      BY <1>2, <3>2, Zenon
    <3> QED
      BY <2>5, <3>3 DEF TitleOn
  <2>6. CASE setting = 8
    <3>1. /\ chars[1] = " " /\ chars[2] = "S" /\ chars[3] = "L"
          /\ chars[4] = "s" /\ chars[5] = "c" /\ chars[6] = " "
      BY <2>6, SettingNumbers DEF Title
    <3> HIDE DEF chars
    <3>2. /\ S(chars[1]) = 0 /\ S(chars[2]) = 91 /\ S(chars[3]) = 14
          /\ S(chars[4]) = 0 /\ S(chars[5]) = 13 /\ S(chars[6]) = 0
      BY <3>1 DEF MAX7219_CharToSeg, MAX7219_Font, NUMERAL
    <3> HIDE DEF S
    <3>3. /\ after[6] = 0 /\ after[5] = 91 /\ after[4] = 14
          /\ after[3] = 0 /\ after[2] = 13 /\ after[1] = 0
      BY <1>2, <3>2, Zenon
    <3> QED
      BY <2>6, <3>3 DEF TitleOn
  <2>7. CASE setting = 9
    <3>1. /\ chars[1] = " " /\ chars[2] = " " /\ chars[3] = "C"
          /\ chars[4] = " " /\ chars[5] = " " /\ chars[6] = " "
      BY <2>7, SettingNumbers DEF Title
    <3> HIDE DEF chars
    <3>2. /\ S(chars[1]) = 0 /\ S(chars[2]) = 0 /\ S(chars[3]) = 78
          /\ S(chars[4]) = 0 /\ S(chars[5]) = 0 /\ S(chars[6]) = 0
      BY <3>1 DEF MAX7219_CharToSeg, MAX7219_Font, NUMERAL
    <3> HIDE DEF S
    <3>3. /\ after[6] = 0 /\ after[5] = 0 /\ after[4] = 78
          /\ after[3] = 0 /\ after[2] = 0 /\ after[1] = 0
      BY <1>2, <3>2, Zenon
    <3> QED
      BY <2>7, <3>3 DEF TitleOn
  <2> QED
    BY <2>1, <2>2, <2>3, <2>4, <2>5, <2>6, <2>7
<1> QED
  BY <1>3, Digits DEF after, chars, NumberOn

\* A text with a number has one on the digits.
LEMMA ValueDigits ==
  ASSUME NEW regs, DOMAIN regs = Registers,
         NEW str \in {TextCount, TextScore, TextTemperature}
  PROVE  NumberOn(MAX7219_DisplayString(regs, str))
<1> DEFINE after == MAX7219_DisplayString(regs, str)
<1>1. \A position \in Position : after[MAX7219_PosToReg(position)]
                                 = Segments(str)[CharacterOf(str)[position]]
  BY TextDigit DEF Registers
<1>2. CASE str \in {TextCount, TextScore}
  <2>1. Len(str) = 6 /\ str[1] = NUMERAL /\ \A i \in 1..6 : str[i] # "."
    BY <1>2 DEF TextCount, TextScore, NUMERAL
  <2>2. 0 \in Position
    BY Digits
  <2>3. Segments(str)[CharacterOf(str)[0]] = MAX7219_CharToSeg(str[0 + 1])
    BY <2>1, <2>2, NoPoint
  <2>4. after[MAX7219_PosToReg(0)] = 127
    <3>1. str[0 + 1] = NUMERAL
      BY <2>1
    <3> HIDE DEF after
    <3> QED
      BY <1>1, <2>2, <2>3, <3>1, Font, Zenon
  <2>5. MAX7219_PosToReg(0) \in DigitRegister
    BY Digits DEF MAX7219_PosToReg, MAX7219_NB_DIGITS
  <2> QED
    BY <2>4, <2>5 DEF NumberOn
<1>3. CASE str = TextTemperature
  <2>1. /\ Len(str) = 7 /\ str[2] # "." /\ str[3] = NUMERAL /\ str[3] # "."
        /\ str[4] # "."
    BY <1>3 DEF TextTemperature, NUMERAL
  <2>2. ~HasPoint(str, 1) /\ ~HasPoint(str, 2) /\ ~HasPoint(str, 3)
    BY <2>1 DEF HasPoint
  <2>3. Following(str)[1] = 2 /\ Following(str)[2] = 3
    BY <2>2 DEF Following
  <2>4. CharacterOf(str)[2] = 3
    BY <2>3, Reading
  <2>5. Segments(str)[3] = MAX7219_CharToSeg(str[3]) + 0
    <3>1. 3 \in Nat /\ ~(3 > Len(str))
      BY <2>1
    <3> QED
      BY <2>2, <3>1, Zenon DEF Segments
  <2>6. 2 \in Position /\ MAX7219_PosToReg(2) \in DigitRegister
    BY Digits DEF MAX7219_PosToReg, MAX7219_NB_DIGITS
  <2>7. after[MAX7219_PosToReg(2)] = 127
    <3>1. MAX7219_CharToSeg(str[3]) + 0 = 127
      BY <2>1 DEF MAX7219_CharToSeg, MAX7219_Font, NUMERAL
    <3> HIDE DEF after
    <3> QED
      BY <1>1, <2>4, <2>5, <2>6, <3>1, Zenon
  <2> QED
    BY <2>6, <2>7 DEF NumberOn
<1> QED
  BY <1>2, <1>3

\* One or two digits written.
LEMMA SomeDigits ==
  ASSUME NEW regs, DOMAIN regs = Registers
  PROVE  /\ MAX7219_DisplayDigitChar(regs, 2, "d", FALSE) = [regs EXCEPT ![4] = 61]
         /\ MAX7219_DisplayDigitChar(
              MAX7219_DisplayDigitChar(regs, 5, NUMERAL, TRUE), 2, "b", TRUE)
              = [[regs EXCEPT ![1] = 255] EXCEPT ![4] = 159]
         /\ MAX7219_DisplayDigitChar(
              MAX7219_DisplayDigitChar(regs, 2, "t", TRUE), 3, " ", FALSE)
              = [[regs EXCEPT ![4] = 143] EXCEPT ![3] = 0]
         /\ MAX7219_DisplayDigitChar(
              MAX7219_DisplayDigitChar(regs, 2, "t", FALSE), 3, " ", FALSE)
              = [[regs EXCEPT ![4] = 15] EXCEPT ![3] = 0]
<1> DEFINE W(m, p, c, dp) == MAX7219_DisplayDigitChar(m, p, c, dp)
<1>1. \A m : W(m, 2, "d", FALSE) = [m EXCEPT ![4] = 61]
  <2>1. ~(2 >= MAX7219_NB_DIGITS) /\ MAX7219_PosToReg(2) = 4
    BY DEF MAX7219_PosToReg, MAX7219_NB_DIGITS
  <2>2. MAX7219_CharToSeg("d") + (IF FALSE THEN DP ELSE 0) = 61
    BY DEF MAX7219_CharToSeg, MAX7219_Font, NUMERAL, DP
  <2> QED
    BY <2>1, <2>2, Zenon DEF MAX7219_DisplayDigitChar, MAX7219_WriteReg
<1>2. \A m : W(m, 2, "b", TRUE) = [m EXCEPT ![4] = 159]
  <2>1. ~(2 >= MAX7219_NB_DIGITS) /\ MAX7219_PosToReg(2) = 4
    BY DEF MAX7219_PosToReg, MAX7219_NB_DIGITS
  <2>2. MAX7219_CharToSeg("b") + (IF TRUE THEN DP ELSE 0) = 159
    BY DEF MAX7219_CharToSeg, MAX7219_Font, NUMERAL, DP
  <2> QED
    BY <2>1, <2>2, Zenon DEF MAX7219_DisplayDigitChar, MAX7219_WriteReg
<1>3. \A m : W(m, 5, NUMERAL, TRUE) = [m EXCEPT ![1] = 255]
  <2>1. ~(5 >= MAX7219_NB_DIGITS) /\ MAX7219_PosToReg(5) = 1
    BY DEF MAX7219_PosToReg, MAX7219_NB_DIGITS
  <2>2. MAX7219_CharToSeg(NUMERAL) + (IF TRUE THEN DP ELSE 0) = 255
    BY DEF MAX7219_CharToSeg, MAX7219_Font, NUMERAL, DP
  <2> QED
    BY <2>1, <2>2, Zenon DEF MAX7219_DisplayDigitChar, MAX7219_WriteReg
<1>4. \A m : W(m, 2, "t", TRUE) = [m EXCEPT ![4] = 143]
  <2>1. ~(2 >= MAX7219_NB_DIGITS) /\ MAX7219_PosToReg(2) = 4
    BY DEF MAX7219_PosToReg, MAX7219_NB_DIGITS
  <2>2. MAX7219_CharToSeg("t") + (IF TRUE THEN DP ELSE 0) = 143
    BY DEF MAX7219_CharToSeg, MAX7219_Font, NUMERAL, DP
  <2> QED
    BY <2>1, <2>2, Zenon DEF MAX7219_DisplayDigitChar, MAX7219_WriteReg
<1>5. \A m : W(m, 2, "t", FALSE) = [m EXCEPT ![4] = 15]
  <2>1. ~(2 >= MAX7219_NB_DIGITS) /\ MAX7219_PosToReg(2) = 4
    BY DEF MAX7219_PosToReg, MAX7219_NB_DIGITS
  <2>2. MAX7219_CharToSeg("t") + (IF FALSE THEN DP ELSE 0) = 15
    BY DEF MAX7219_CharToSeg, MAX7219_Font, NUMERAL, DP
  <2> QED
    BY <2>1, <2>2, Zenon DEF MAX7219_DisplayDigitChar, MAX7219_WriteReg
<1>6. \A m : W(m, 3, " ", FALSE) = [m EXCEPT ![3] = 0]
  <2>1. ~(3 >= MAX7219_NB_DIGITS) /\ MAX7219_PosToReg(3) = 3
    BY DEF MAX7219_PosToReg, MAX7219_NB_DIGITS
  <2>2. MAX7219_CharToSeg(" ") + (IF FALSE THEN DP ELSE 0) = 0
    BY DEF MAX7219_CharToSeg, MAX7219_Font, NUMERAL, DP
  <2> QED
    BY <2>1, <2>2, Zenon DEF MAX7219_DisplayDigitChar, MAX7219_WriteReg
<1> HIDE DEF W
<1>7. W(W(regs, 5, NUMERAL, TRUE), 2, "b", TRUE)
        = [[regs EXCEPT ![1] = 255] EXCEPT ![4] = 159]
  BY <1>2, <1>3, Zenon
<1>8. W(W(regs, 2, "t", TRUE), 3, " ", FALSE)
        = [[regs EXCEPT ![4] = 143] EXCEPT ![3] = 0]
  BY <1>4, <1>6, Zenon
<1>9. W(W(regs, 2, "t", FALSE), 3, " ", FALSE)
        = [[regs EXCEPT ![4] = 15] EXCEPT ![3] = 0]
  BY <1>5, <1>6, Zenon
<1> QED
  BY <1>1, <1>7, <1>8, <1>9 DEF W

\* The settings that leave digits as they were add no number to them, all but the
\* brightness while it is changed.
LEMMA RestOfDigits ==
  ASSUME NEW regs, DOMAIN regs = Registers
  PROVE  /\ \A setting \in {0, 2, 3}, entering \in BOOLEAN :
              LET after == SettingScreen(regs, setting, entering)
              IN  /\ DOMAIN after = Registers
                  /\ TitleOn(after, setting)
                  /\ ~NumberOn(regs) => ~NumberOn(after)
         /\ DOMAIN SettingScreen(regs, 1, TRUE) = Registers
         /\ NumberOn(SettingScreen(regs, 1, TRUE))
<1>1. {1, 2, 3, 4, 5, 6} \subseteq DOMAIN regs
  BY Digits DEF Registers
<1>2. ASSUME NEW entering \in BOOLEAN
      PROVE  /\ SettingScreen(regs, 0, entering) = [regs EXCEPT ![4] = 61]
             /\ SettingScreen(regs, 2, entering)
                  = [[regs EXCEPT ![4] = 143] EXCEPT ![3] = 0]
             /\ SettingScreen(regs, 3, entering)
                  = [[regs EXCEPT ![4] = 15] EXCEPT ![3] = 0]
             /\ SettingScreen(regs, 1, TRUE)
                  = [[regs EXCEPT ![1] = 255] EXCEPT ![4] = 159]
  <2>1. SettingScreen(regs, 0, entering)
          = MAX7219_DisplayDigitChar(regs, 2, "d", FALSE)
    BY Screens
  <2>2. SettingScreen(regs, 1, TRUE)
          = MAX7219_DisplayDigitChar(
              MAX7219_DisplayDigitChar(regs, 5, NUMERAL, TRUE), 2, "b", TRUE)
    BY Screens
  <2>3. SettingScreen(regs, 2, entering)
          = MAX7219_DisplayDigitChar(
              MAX7219_DisplayDigitChar(regs, 2, "t", TRUE), 3, " ", FALSE)
    BY Screens
  <2>4. SettingScreen(regs, 3, entering)
          = MAX7219_DisplayDigitChar(
              MAX7219_DisplayDigitChar(regs, 2, "t", FALSE), 3, " ", FALSE)
    BY Screens
  <2>5. SettingScreen(regs, 0, entering) = [regs EXCEPT ![4] = 61]
    BY <2>1, SomeDigits, Zenon
  <2>6. SettingScreen(regs, 1, TRUE) = [[regs EXCEPT ![1] = 255] EXCEPT ![4] = 159]
    BY <2>2, SomeDigits, Zenon
  <2>7. SettingScreen(regs, 2, entering)
          = [[regs EXCEPT ![4] = 143] EXCEPT ![3] = 0]
    BY <2>3, SomeDigits, Zenon
  <2>8. SettingScreen(regs, 3, entering)
          = [[regs EXCEPT ![4] = 15] EXCEPT ![3] = 0]
    BY <2>4, SomeDigits, Zenon
  <2> QED
    BY <2>5, <2>6, <2>7, <2>8
<1> DEFINE Put(m, r, k) == [m EXCEPT ![r] = k]
<1>3. ASSUME NEW m, DOMAIN m = Registers, NEW k
      PROVE  \A r \in {1, 3, 4} :
               /\ DOMAIN Put(m, r, k) = Registers
               /\ Put(m, r, k)[r] = k
               /\ \A x \in {1, 3, 4} : x # r => Put(m, r, k)[x] = m[x]
               /\ ~NumberOn(m) /\ k \notin {127, 255} => ~NumberOn(Put(m, r, k))
  BY <1>3, Digits DEF NumberOn, Registers
<1> HIDE DEF Put
<1>4. ASSUME NEW entering \in BOOLEAN
      PROVE  LET after == SettingScreen(regs, 0, entering)
             IN  /\ DOMAIN after = Registers
                 /\ TitleOn(after, 0)
                 /\ ~NumberOn(regs) => ~NumberOn(after)
  <2> DEFINE after == Put(regs, 4, 61)
  <2>1. 4 \in {1, 3, 4} /\ 61 \notin {127, 255}
    OBVIOUS
  <2>2. DOMAIN after = Registers /\ after[4] = 61
          /\ (~NumberOn(regs) => ~NumberOn(after))
    BY <1>3, <2>1
  <2>3. SettingScreen(regs, 0, entering) = after
    BY <1>2, Zenon DEF Put
  <2> HIDE DEF after
  <2>4. TitleOn(after, 0)
    BY <2>2 DEF TitleOn
  <2> QED
    BY <2>2, <2>3, <2>4, Zenon
<1>5. ASSUME NEW entering \in BOOLEAN, NEW setting \in {2, 3}
      PROVE  LET after == SettingScreen(regs, setting, entering)
             IN  /\ DOMAIN after = Registers
                 /\ TitleOn(after, setting)
                 /\ ~NumberOn(regs) => ~NumberOn(after)
  <2> DEFINE data == IF setting = 2 THEN 143 ELSE 15
             once == Put(regs, 4, data)
             after == Put(once, 3, 0)
  <2>1. /\ data \notin {127, 255} /\ 0 \notin {127, 255}
        /\ 3 \in {1, 3, 4} /\ 4 \in {1, 3, 4} /\ 3 # 4
    OBVIOUS
  <2>2. SettingScreen(regs, setting, entering) = after
    <3>1. CASE setting = 2
      BY <1>2, <3>1, Zenon DEF Put
    <3>2. CASE setting = 3
      <4>1. data = 15
        BY <3>2
      <4> QED
        BY <1>2, <3>2, <4>1, Zenon DEF Put
    <3> QED
      BY <3>1, <3>2
  <2> HIDE DEF data
  <2>3. DOMAIN once = Registers /\ once[4] = data
          /\ (~NumberOn(regs) => ~NumberOn(once))
    BY <1>3, <2>1
  <2> HIDE DEF once, Put
  <2>4. DOMAIN after = Registers /\ after[4] = once[4] /\ after[3] = 0
          /\ (~NumberOn(once) => ~NumberOn(after))
    <3>1. /\ after[3] = 0 /\ DOMAIN after = Registers
          /\ \A x \in {1, 3, 4} : x # 3 => after[x] = once[x]
          /\ ~NumberOn(once) => ~NumberOn(after)
      BY <1>3, <2>1, <2>3
    <3> HIDE DEF after
    <3> QED
      BY <3>1
  <2> HIDE DEF after
  <2>5. TitleOn(after, setting)
    <3>1. CASE setting = 2
      <4>1. after[4] = 143
        BY <2>3, <2>4, <3>1 DEF data
      <4> QED
        BY <3>1, <4>1 DEF TitleOn
    <3>2. CASE setting = 3
      <4>1. after[4] = 15 /\ after[3] = 0
        BY <2>3, <2>4, <3>2 DEF data
      <4> QED
        BY <3>2, <4>1 DEF TitleOn
    <3> QED
      BY <3>1, <3>2
  <2> HIDE DEF Titled
  <2> QED
    BY <2>2, <2>3, <2>4, <2>5, Zenon
<1>6. /\ DOMAIN SettingScreen(regs, 1, TRUE) = Registers
      /\ NumberOn(SettingScreen(regs, 1, TRUE))
  <2> DEFINE once == Put(regs, 1, 255)
             after == Put(once, 4, 159)
  <2>0. 1 \in {1, 3, 4} /\ 4 \in {1, 3, 4} /\ 1 # 4
    OBVIOUS
  <2>1. DOMAIN once = Registers /\ once[1] = 255
    BY <1>3, <2>0
  <2> HIDE DEF once, Put
  <2>2. DOMAIN after = Registers /\ after[1] = 255
    BY <1>3, <2>0, <2>1
  <2>3. SettingScreen(regs, 1, TRUE) = after
    BY <1>2, Zenon DEF once, Put
  <2> HIDE DEF after
  <2> QED
    BY <2>2, <2>3, Digits DEF NumberOn
<1> QED
  <2>1. ASSUME NEW setting \in {0, 2, 3}, NEW entering \in BOOLEAN
        PROVE  LET after == SettingScreen(regs, setting, entering)
               IN  /\ DOMAIN after = Registers
                   /\ TitleOn(after, setting)
                   /\ ~NumberOn(regs) => ~NumberOn(after)
    <3>1. CASE setting = 0
      BY <1>4, <3>1, Zenon
    <3>2. CASE setting \in {2, 3}
      BY <1>5, <3>2, Zenon
    <3> QED
      BY <3>1, <3>2
  <2> QED
    BY <2>1, <1>6, Zenon

\* What a tick of the settings leaves on the digits.
Screened(regs, setting, entering) ==
  /\ ~entering => TitleOn(regs, setting)
  /\ NumberOn(regs) <=> entering /\ setting \in {1, 4, 5, 6, 7, 8}

\* Whatever was on the digits, and without a number where some are left, they
\* tell the setting.
LEMMA SettingDigits ==
  ASSUME NEW regs, DOMAIN regs = Registers,
         NEW setting \in 0..9, NEW entering \in BOOLEAN,
         NumberOn(regs) => setting \in {1, 4, 5, 6, 7, 8}
  PROVE  LET after == SettingScreen(regs, setting, entering)
         IN  DOMAIN after = Registers /\ Screened(after, setting, entering)
<1> DEFINE Good(k, e) ==
             /\ DOMAIN SettingScreen(regs, k, e) = Registers
             /\ Screened(SettingScreen(regs, k, e), k, e)
<1>1. CASE setting \in {0, 2, 3}
  <2>1. ~NumberOn(regs) /\ setting \notin {1, 4, 5, 6, 7, 8}
    BY <1>1
  <2> QED
    BY <1>1, <2>1, RestOfDigits, Zenon DEF Screened
<1>2. \A text : /\ DOMAIN MAX7219_DisplayString(regs, text) = Registers
                /\ DOMAIN SixChars(regs, text) = Registers
  BY Zenon DEF MAX7219_DisplayString, SixChars
<1>3. \A k \in {1, 4, 5, 6, 7, 8} : Good(k, FALSE)
  <2> TAKE k \in {1, 4, 5, 6, 7, 8}
  <2>1. SettingScreen(regs, k, FALSE) = SixChars(regs, Title(k))
    BY Screens
  <2>2. TitleOn(SixChars(regs, Title(k)), k) /\ ~NumberOn(SixChars(regs, Title(k)))
    BY TitleDigits
  <2> QED
    BY <1>2, <2>1, <2>2, Zenon DEF Screened
<1>4. \A k \in {4, 5, 6, 7, 8} : Good(k, TRUE)
  <2> TAKE k \in {4, 5, 6, 7, 8}
  <2>1. PICK text \in {TextCount, TextScore, TextTemperature} :
          SettingScreen(regs, k, TRUE) = MAX7219_DisplayString(regs, text)
    <3>1. CASE k \in {4, 5}
      BY <3>1, Screens, Zenon
    <3>2. CASE k = 6
      BY <3>2, Screens, Zenon
    <3>3. CASE k \in {7, 8}
      BY <3>3, Screens, Zenon
    <3> QED
      BY <3>1, <3>2, <3>3
  <2>2. NumberOn(MAX7219_DisplayString(regs, text))
    BY ValueDigits
  <2>3. k \in {1, 4, 5, 6, 7, 8}
    OBVIOUS
  <2> QED
    BY <1>2, <2>1, <2>2, <2>3, Zenon DEF Screened
<1>5. Good(1, TRUE)
  BY RestOfDigits, Zenon DEF Screened
<1>6. \A e \in BOOLEAN : Good(9, e)
  <2> TAKE e \in BOOLEAN
  <2>1. SettingScreen(regs, 9, e) = SixChars(regs, Title(9))
    BY Screens
  <2>2. TitleOn(SixChars(regs, Title(9)), 9) /\ ~NumberOn(SixChars(regs, Title(9)))
    BY TitleDigits
  <2>3. 9 \notin {1, 4, 5, 6, 7, 8}
    OBVIOUS
  <2> QED
    BY <1>2, <2>1, <2>2, <2>3, Zenon DEF Screened
<1>7. CASE setting \in {1, 4, 5, 6, 7, 8} /\ entering = FALSE
  BY <1>3, <1>7, Zenon
<1>8. CASE setting \in {1, 4, 5, 6, 7, 8} /\ entering = TRUE
  <2>1. CASE setting = 1
    BY <1>5, <1>8, <2>1, Zenon
  <2>2. CASE setting \in {4, 5, 6, 7, 8}
    BY <1>4, <1>8, <2>2, Zenon
  <2> QED
    BY <1>8, <2>1, <2>2
<1>9. CASE setting = 9
  BY <1>6, <1>9, Zenon
<1>10. setting \in {0, 2, 3} \/ setting \in {1, 4, 5, 6, 7, 8} \/ setting = 9
  OBVIOUS
<1>11. entering = TRUE \/ entering = FALSE
  OBVIOUS
<1> QED
  BY <1>1, <1>7, <1>8, <1>9, <1>10, <1>11

\* The text that announces the settings has no number.
LEMMA AnnouncedDigits ==
  /\ \A i \in 1..6 : /\ TextSettings[i] # "."
                     /\ MAX7219_CharToSeg(TextSettings[i]) \notin {127, 255}
  /\ Len(TextSettings) = 6
BY DEF TextSettings, MAX7219_CharToSeg, MAX7219_Font, NUMERAL

\* While the player is in the settings, they have just been announced or a tick has
\* shown one.
ScreenInv ==
  /\ DOMAIN register = Registers
  /\ menu_state = "SETTING" =>
       \/ Announced /\ ~NumberOn(register) /\ modification_state = "DEFAULT"
       \/ Screened(register, setting_state, modification_state = "ENTERING")

\* A text leaves the registers those of the chip.
LEMMA ShowDomain ==
  ASSUME NEW text, DOMAIN register = Registers, Show(text)
  PROVE  DOMAIN register' = Registers
BY Zenon DEF Show, MAX7219_DisplayString

\* The announcement is on the digits once it is shown.
LEMMA Announcing ==
  ASSUME DOMAIN register = Registers, Show(TextSettings)
  PROVE  Announced' /\ ~NumberOn(register')
<1>1. \A p \in Position :
        register'[MAX7219_PosToReg(p)] = MAX7219_CharToSeg(TextSettings[p + 1])
  <2> TAKE p \in Position
  <2>1. register'[MAX7219_PosToReg(p)]
          = Segments(TextSettings)[CharacterOf(TextSettings)[p]]
    BY TextDigit, Zenon DEF Show, Registers
  <2>2. Segments(TextSettings)[CharacterOf(TextSettings)[p]]
          = MAX7219_CharToSeg(TextSettings[p + 1])
    BY NoPoint, AnnouncedDigits
  <2> QED
    BY <2>1, <2>2
<1>2. Announced'
  BY <1>1, Zenon DEF Announced, Shows, Digit
<1>3. ASSUME NEW r \in DigitRegister PROVE register'[r] \notin {127, 255}
  <2>1. PICK p \in Position : r = MAX7219_PosToReg(p) /\ p + 1 \in 1..6
    <3>1. 6 - r \in Position /\ r = MAX7219_PosToReg(6 - r) /\ (6 - r) + 1 \in 1..6
      BY Digits DEF MAX7219_PosToReg, MAX7219_NB_DIGITS
    <3> QED
      BY <3>1
  <2>2. register'[r] = MAX7219_CharToSeg(TextSettings[p + 1])
    BY <1>1, <2>1, Zenon
  <2>3. MAX7219_CharToSeg(TextSettings[p + 1]) \notin {127, 255}
    BY <2>1, AnnouncedDigits
  <2> QED
    BY <2>2, <2>3, Zenon
<1> QED
  BY <1>2, <1>3 DEF NumberOn

\* The register of the intensity is none of what the player reads.
LEMMA IntensityApart ==
  ASSUME NEW regs, DOMAIN regs = Registers, NEW k, NEW setting \in 0..9,
         NEW entering \in BOOLEAN, Screened(regs, setting, entering)
  PROVE  LET after == MAX7219_SetIntensity(regs, k)
         IN  DOMAIN after = Registers /\ Screened(after, setting, entering)
<1> DEFINE after == MAX7219_SetIntensity(regs, k)
<1>1. DOMAIN after = Registers /\ \A r \in {1, 2, 3, 4, 5, 6} : after[r] = regs[r]
  <2>1. PICK data : after = [regs EXCEPT ![10] = data]
    BY Zenon DEF MAX7219_SetIntensity, MAX7219_WriteReg, MAX7219_REG_INTENSITY
  <2> HIDE DEF after
  <2> QED
    BY <2>1, Digits DEF Registers
<1> HIDE DEF after
<1>2. NumberOn(after) <=> NumberOn(regs)
  BY <1>1, Digits DEF NumberOn
<1>3. after[3] = regs[3] /\ after[4] = regs[4]
  BY <1>1
<1>4. TitleOn(after, setting) <=> TitleOn(regs, setting)
  BY <1>3, Zenon DEF TitleOn
<1> QED
  BY <1>1, <1>2, <1>4, Zenon DEF Screened, after

\* A tick of the settings shows the setting it leads to.
LEMMA SettingScreened ==
  ASSUME TypeOK, TypeOK', ScreenInv, SettingScreenTick
  PROVE  ScreenInv'
<1> DEFINE entering == modification_state' = "ENTERING"
           shown == SettingScreen(register, setting_state', entering)
<1>1. setting_state' \in 0..9 /\ entering \in BOOLEAN /\ menu_state = "SETTING"
  BY DisplayAssumption DEF TypeOK, SettingsTypeOK, SYS_RECALIBRATION,
     SettingScreenTick, SettingTick, Gestion_Menu_Setting
<1>2. NumberOn(register) => setting_state' \in {1, 4, 5, 6, 7, 8}
  <2> SUFFICES ASSUME NumberOn(register)
               PROVE  setting_state' \in {1, 4, 5, 6, 7, 8}
    OBVIOUS
  <2>1. modification_state = "ENTERING" /\ setting_state \in {1, 4, 5, 6, 7, 8}
    BY <1>1, Zenon DEF ScreenInv, Screened
  <2>2. ~Turned("LL") /\ ~Turned("RR")
    BY <2>1 DEF Turned
  <2>3. setting_state' = setting_state
    BY <2>2 DEF SettingScreenTick, SettingTick, Gestion_Menu_Setting, SettingAfter
  <2> QED
    BY <2>1, <2>3
<1>3. DOMAIN shown = Registers /\ Screened(shown, setting_state', entering)
  <2>1. DOMAIN register = Registers
    BY DEF ScreenInv
  <2> HIDE DEF entering
  <2> QED
    BY <1>1, <1>2, <2>1, SettingDigits, Zenon
<1>4. register' = MAX7219_SetIntensity(shown, sys_brightness') \/ register' = shown
  BY Zenon DEF SettingScreenTick
<1>5. DOMAIN register' = Registers /\ Screened(register', setting_state', entering)
  <2> HIDE DEF entering, shown
  <2>1. CASE register' = MAX7219_SetIntensity(shown, sys_brightness')
    BY <1>1, <1>3, <2>1, IntensityApart
  <2>2. CASE register' = shown
    BY <1>3, <2>2
  <2> QED
    BY <1>4, <2>1, <2>2
<1> QED
  BY <1>5, Zenon DEF ScreenInv

\* The other ticks lead to the settings by their announcement only.
LEMMA ScreenStep ==
  TypeOK /\ TypeOK' /\ Closed /\ ScreenInv /\ [DisplayNext]_displayVars => ScreenInv'
<1> SUFFICES ASSUME TypeOK, TypeOK', Closed, ScreenInv, [DisplayNext]_displayVars
             PROVE  ScreenInv'
  OBVIOUS
<1>1. DOMAIN register = Registers
  BY DEF ScreenInv
<1>2. ASSUME NEW text, Show(text), menu_state' # "SETTING" PROVE ScreenInv'
  BY <1>1, <1>2, ShowDomain, Zenon DEF ScreenInv
<1>3. CASE DefaultScreen
  <2>1. CASE menu_state' = "SETTING"
    <3>1. /\ "LR" \in gestures /\ menu_state = "DEFAULT"
          /\ modification_state' = modification_state
      BY <1>3, <2>1 DEF DefaultScreen, DefaultTick, StartGame, Ticks, chosen
    <3>2. modification_state' = "DEFAULT"
      BY <3>1 DEF Closed, ModificationClosed
    <3>3. Show(TextSettings)
      BY <1>3, <3>1, Zenon DEF DefaultScreen
    <3> QED
      BY <1>1, <3>2, <3>3, ShowDomain, Announcing, Zenon DEF ScreenInv
  <2>2. CASE menu_state' # "SETTING"
    BY <1>2, <1>3, <2>2, Zenon DEF DefaultScreen
  <2> QED
    BY <2>1, <2>2
<1>4. CASE ProgressScreen
  <2>1. menu_state' # "SETTING"
    BY <1>4 DEF ProgressScreen, ProgressTick, Ticks
  <2> QED
    BY <1>2, <1>4, <2>1, Zenon DEF ProgressScreen
<1>5. CASE EndGameScreen
  <2>1. menu_state' # "SETTING"
    BY <1>5 DEF EndGameScreen, EndGameTick, Ticks
  <2> QED
    BY <1>2, <1>5, <2>1, Zenon DEF EndGameScreen
<1>6. ASSUME register' = register,
             \/ menu_state' # "SETTING"
             \/ UNCHANGED <<menu_state, setting_state, modification_state>>
      PROVE  ScreenInv'
  BY <1>6, Zenon DEF ScreenInv, Announced, Shows, Digit
<1>7. CASE NothingShown
  BY <1>6, <1>7
  DEF NothingShown, GameStarted, StopGame, GoOn, GameWon, GameLostOrStopped,
      settingsVars, chosen, display
<1>8. CASE Gesturing /\ UNCHANGED display
  BY <1>6, <1>8 DEF Gesturing, Scan_X_AXIS, chosen, display
<1>9. ASSUME NEW outcome \in {"WON", "LOST"}, BallSensor(outcome), UNCHANGED display
      PROVE  ScreenInv'
  BY <1>6, <1>9 DEF BallSensor, chosen, display
<1>10. CASE UNCHANGED displayVars
  BY <1>6, <1>10 DEF displayVars, display, vars, settingsVars, chosen
<1> QED
  BY <1>3, <1>4, <1>5, <1>7, <1>8, <1>9, <1>10, SettingScreened
  DEF DisplayNext, DisplayTick

\* What the registers hold is what the player reads.
LEMMA ScreenIsRead == TypeOK /\ ScreenInv => ScreenTellsSetting
<1> SUFFICES ASSUME TypeOK, ScreenInv, menu_state = "SETTING", ~Announced
             PROVE  /\ modification_state = "DEFAULT" => Titled
                    /\ NumberShown <=> modification_state = "ENTERING"
                                         /\ setting_state \in Valued
  BY DEF ScreenTellsSetting
<1>1. Screened(register, setting_state, modification_state = "ENTERING")
  BY DEF ScreenInv
<1>2. NumberShown <=> NumberOn(register)
  <2>1. NumberShown <=> \E p \in Position : register[6 - p] \in {127, 255}
    BY DEF NumberShown, Shows, ShowsPoint, Digit, MAX7219_PosToReg,
           MAX7219_NB_DIGITS, MAX7219_CharToSeg, MAX7219_Font, NUMERAL, DP
  <2>2. (\E p \in Position : register[6 - p] \in {127, 255}) <=> NumberOn(register)
    BY Digits DEF NumberOn
  <2> QED
    BY <2>1, <2>2
<1>3. setting_state \in {1, 4, 5, 6, 7, 8} <=> setting_state \in Valued
  BY SettingNumbers
<1>4. ASSUME modification_state = "DEFAULT" PROVE Titled
  <2>1. TitleOn(register, setting_state)
    BY <1>1, <1>4 DEF Screened
  <2>2. setting_state \in 0..9
    BY DisplayAssumption DEF TypeOK, SettingsTypeOK, SYS_RECALIBRATION
  <2> USE DEF Titled, TitleOn, Shows, ShowsPoint, Digit, MAX7219_PosToReg,
              MAX7219_NB_DIGITS, MAX7219_CharToSeg, MAX7219_Font, NUMERAL, DP
  <2>3. CASE setting_state = 0
    BY <2>1, <2>3, SettingNumbers
  <2>4. CASE setting_state = 1
    BY <2>1, <2>4, SettingNumbers
  <2>5. CASE setting_state = 2
    BY <2>1, <2>5, SettingNumbers
  <2>6. CASE setting_state = 3
    BY <2>1, <2>6, SettingNumbers
  <2>7. CASE setting_state = 4
    BY <2>1, <2>7, SettingNumbers
  <2>8. CASE setting_state = 5
    BY <2>1, <2>8, SettingNumbers
  <2>9. CASE setting_state = 6
    BY <2>1, <2>9, SettingNumbers
  <2>10. CASE setting_state = 7
    BY <2>1, <2>10, SettingNumbers
  <2>11. CASE setting_state = 8
    BY <2>1, <2>11, SettingNumbers
  <2>12. CASE setting_state = 9
    BY <2>1, <2>12, SettingNumbers
  <2> HIDE DEF Titled
  <2> QED
    BY <2>2, <2>3, <2>4, <2>5, <2>6, <2>7, <2>8, <2>9, <2>10, <2>11, <2>12
<1> QED
  BY <1>1, <1>2, <1>3, <1>4, Zenon DEF Screened

\* In the settings the digits tell the setting and show no number but its own,
\* whatever was on them before, for every way through the menus.
THEOREM DisplayScreenTellsSetting == DisplaySpec => []ScreenTellsSetting
<1>1. DisplaySpec => Init /\ [][Next]_vars
  BY DisplayStep, PTL DEF DisplaySpec, DisplayInit
<1>2. DisplaySpec => [](TypeOK /\ MidGame)
  BY <1>1, TypeKept, MidGameKept, PTL
<1>3. Init => Apart /\ Closed
  BY DEF Init, SettingsInit, Apart, Running, Closed, ModificationClosed,
         BrightnessSaved
<1>4. DisplaySpec => []Closed
  BY <1>1, <1>2, <1>3, ApartStep, ClosedStep, PTL
<1>5. DisplayInit => ScreenInv
  <2> SUFFICES ASSUME DisplayInit PROVE ScreenInv
    OBVIOUS
  <2>1. menu_state # "SETTING"
    BY DEF DisplayInit, Init, SettingsInit
  <2>2. DOMAIN register = Registers
    BY Zenon DEF DisplayInit, MAX7219_DisplayString, MAX7219_Init, MAX7219_Clear,
       Registers
  <2> QED
    BY <2>1, <2>2 DEF ScreenInv
<1>6. DisplaySpec => []ScreenInv
  BY <1>2, <1>4, <1>5, ScreenStep, PTL DEF DisplaySpec
<1> QED
  BY <1>2, <1>6, ScreenIsRead, PTL
=============================================================================
