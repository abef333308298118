-------------------------------- MODULE Menu --------------------------------
(***************************************************************************)
(* The menu of the cabinet (Ges_Menu.c: Gestion_Menu) and the interrupts   *)
(* of the two ball sensors (system_interrupt.c).  The menu ticks in the    *)
(* main loop; a sensor may end the game between any two of its accesses to *)
(* menu_state, so the ticks that store a new menu_state while a game runs, *)
(* or start one, are cut there.                                            *)
(***************************************************************************)
EXTENDS Settings

CONSTANTS
  MaxGames,   \* bound of the model on the games of a session
  MaxTime     \* bound of the model on the ticks of a game

ASSUME MenuAssumption == MaxGames \in Nat /\ MaxTime \in Nat

VARIABLES
  in_game,        \* the joysticks drive the rods
  current_time,   \* the time shown, in ticks
  info,           \* the scores and the count of games in systeme_info
  saved,          \* those in the EEPROM
  at,             \* where the main loop is in its tick
  started,        \* history: the games started since power-on
  played          \* history: the ticks of the game that was started last

scores == <<info, saved>>
history == <<started, played>>
vars == <<settingsVars, in_game, current_time, scores, at, history>>

Games == {"IN_PROGRESS", "WON", "LOST", "STOPPED", "END_GAME"}

Scores == [nbr_game_session : Nat, best_time_score : Nat, last_time_score : Nat]

\* Check_If_Memory_exist found a record that an earlier session had saved.
Init ==
  /\ SettingsInit
  /\ in_game = FALSE
  /\ current_time = 0
  /\ saved \in [nbr_game_session : {0, 1}, best_time_score : {0, MaxTime},
                last_time_score : {0, MaxTime}]
  /\ info = [saved EXCEPT !.nbr_game_session = 0, !.last_time_score = 0]
  /\ at = "wait"
  /\ started = 0 /\ played = 0
-----------------------------------------------------------------------------
\* The sensors.

\* Mutant: a ball counts whatever the menu is doing.
BallAnytime(outcome) ==
  /\ menu_state' = outcome
  /\ UNCHANGED <<gestures, quiet, chosen, brightness, in_game, current_time,
                 scores, at, history>>

BallSensor(outcome) ==
  /\ menu_state = "IN_PROGRESS"
  /\ menu_state' = outcome
  /\ UNCHANGED <<gestures, quiet, chosen, brightness, in_game, current_time,
                 scores, at, history>>

Gesturing ==
  /\ at = "wait"
  /\ \E g \in Gesture : (g = "RR" => started < MaxGames) /\ Scan_X_AXIS(g)
  /\ UNCHANGED <<in_game, current_time, scores, at, history>>
-----------------------------------------------------------------------------
\* The ticks of Gestion_Menu.

Ticks(menu) == at = "wait" /\ menu_state = menu /\ Tick

\* The whole of systeme_info goes to the EEPROM, brightness included.
\* Mutant: saved before the game is counted.
SaveEarly == saved' = info /\ saved_brightness' = sys_brightness
Save == saved' = info' /\ saved_brightness' = sys_brightness

DefaultTick ==
  /\ Ticks("DEFAULT")
  /\ "RR" \notin gestures
  /\ gestures' = gestures \ {"LR"}
  /\ menu_state' = IF "LR" \in gestures THEN "SETTING" ELSE "DEFAULT"
  /\ UNCHANGED <<chosen, brightness, in_game, current_time, scores, at, history>>

\* RR is answered after LR, so a game starts even if both flags are up.
StartGame ==
  /\ Ticks("DEFAULT")
  /\ "RR" \in gestures
  /\ gestures' = gestures \ {"LR", "RR"}
  /\ menu_state' = "IN_PROGRESS"
  /\ at' = "starting"
  /\ started' = started + 1 /\ played' = 0
  /\ UNCHANGED <<chosen, brightness, in_game, current_time, scores>>

\* Mutant: nothing is set up for the game.
GameNotSetUp ==
  /\ at = "starting"
  /\ at' = "wait"
  /\ UNCHANGED <<settingsVars, in_game, current_time, scores, history>>

GameStarted ==
  /\ at = "starting"
  /\ current_time' = 0
  /\ in_game' = TRUE
  /\ at' = "wait"
  /\ UNCHANGED <<settingsVars, scores, history>>

ProgressTick ==
  /\ Ticks("IN_PROGRESS")
  /\ played < MaxTime
  /\ current_time' = current_time + 1
  /\ played' = played + 1
  /\ at' = "progress"
  /\ UNCHANGED <<menu_state, gestures, chosen, brightness, in_game, scores,
                 started>>

\* The sensors may have ended the game since the tick began.
StopGame ==
  /\ at = "progress"
  /\ "LL" \in gestures
  /\ gestures' = gestures \ {"LL"}
  /\ menu_state' = "STOPPED"
  /\ current_time' = 0
  /\ in_game' = FALSE
  /\ at' = "wait"
  /\ UNCHANGED <<quiet, chosen, brightness, scores, history>>

GoOn ==
  /\ at = "progress"
  /\ "LL" \notin gestures
  /\ at' = "wait"
  /\ UNCHANGED <<settingsVars, in_game, current_time, scores, history>>

GameWon ==
  /\ Ticks("WON")
  /\ info' = [info EXCEPT !.last_time_score = current_time,
                          !.best_time_score = IF current_time < @ THEN current_time
                                              ELSE @]
  /\ menu_state' = "END_GAME"
  /\ UNCHANGED <<gestures, chosen, brightness, in_game, current_time, saved, at,
                 history>>

\* Mutant: a stopped game has no tick.
GameLostOnly ==
  /\ Ticks("LOST")
  /\ menu_state' = "END_GAME"
  /\ UNCHANGED <<gestures, chosen, brightness, in_game, current_time, scores, at,
                 history>>

\* Stopping the rods and sending them home is in module Play.
GameLostOrStopped ==
  /\ Ticks("LOST") \/ Ticks("STOPPED")
  /\ menu_state' = "END_GAME"
  /\ UNCHANGED <<gestures, chosen, brightness, in_game, current_time, scores, at,
                 history>>

EndGameTick ==
  /\ Ticks("END_GAME")
  /\ in_game' = FALSE
  /\ gestures' = gestures \ {"LL"}
  /\ IF "LL" \in gestures
     THEN /\ menu_state' = "DEFAULT"
          /\ info' = [info EXCEPT !.nbr_game_session = @ + 1]
          /\ Save
     ELSE UNCHANGED <<menu_state, scores, saved_brightness>>
  /\ UNCHANGED <<chosen, sys_brightness, current_time, at, history>>

SettingTick ==
  /\ at = "wait"
  /\ Gestion_Menu_Setting
  /\ saved' = IF Leaves THEN info ELSE saved
  /\ UNCHANGED <<in_game, current_time, info, at, history>>

Gestion_Menu ==
  \/ DefaultTick
  \/ StartGame
  \/ GameStarted
  \/ ProgressTick
  \/ StopGame
  \/ GoOn
  \/ GameWon
  \/ GameLostOrStopped
  \/ EndGameTick
  \/ SettingTick

Next ==
  \/ Gesturing
  \/ \E outcome \in {"WON", "LOST"} : BallSensor(outcome)
  \/ Gestion_Menu

\* The scheduler keeps the menu ticking.
Spec == Init /\ [][Next]_vars /\ WF_vars(Gestion_Menu)
-----------------------------------------------------------------------------
TypeOK ==
  /\ SettingsTypeOK
  /\ menu_state \in Games \union {"DEFAULT", "SETTING"}
  /\ in_game \in BOOLEAN
  /\ current_time \in Nat
  /\ info \in Scores /\ saved \in Scores
  /\ at \in {"wait", "starting", "progress"}
  /\ started \in Nat /\ played \in Nat

\* Every game is counted exactly once, whichever way it ends and however many
\* sensors fire: the count lags behind the games started by the one in progress.
GamesCounted ==
  started = info.nbr_game_session + (IF menu_state \in Games THEN 1 ELSE 0)

\* From the first game on, the EEPROM holds the scores between two games.
ScoresSaved ==
  info.nbr_game_session > 0 /\ menu_state \notin Games => saved = info

\* The menu keeps the promise of module Session: a game starts and ends at the
\* store of menu_state, by the menu or by a sensor.
SessionPhase == IF menu_state = "IN_PROGRESS" THEN "playing"
                ELSE IF menu_state \in Games THEN "over"
                ELSE "idle"

Promise == INSTANCE Session WITH phase <- SessionPhase,
                                 games <- info.nbr_game_session,
                                 kept <- saved.nbr_game_session

SessionKept == Promise!Spec

\* The joysticks, which the scheduler may serve between any two ticks, drive the
\* rods in every game that runs and in no menu, although in_game and menu_state are
\* stored one after the other and the sensors store only one of the two.
JoysticksOnlyInGame ==
  at = "wait" =>
    /\ menu_state = "IN_PROGRESS" => in_game
    /\ in_game => menu_state \in {"IN_PROGRESS", "WON", "LOST", "END_GAME"}

\* The time a won game is about to be credited with is that game's own, even when a
\* sensor ends it before its first tick or in the middle of one.
TimeIsOfThisGame ==
  at = "wait" /\ menu_state \in {"IN_PROGRESS", "WON"} => current_time = played

\* No game that has ended hangs: the menu gets to where the player can close it.
GamesEnd == menu_state \in {"WON", "LOST", "STOPPED"} ~> menu_state = "END_GAME"
=============================================================================
