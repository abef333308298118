CONSTANTS
  LastSetting = 9
  MaxBrightness = 2
  TicksPerGesture = 4
  MaxGames = 2
  MaxTime = 2
SPECIFICATION DisplaySpec
INVARIANTS GamesCounted ScoresSaved JoysticksOnlyInGame TimeIsOfThisGame
           SettingsClosed ScreenTellsSetting
PROPERTIES GamesEnd SessionKept
