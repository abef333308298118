CONSTANTS
  Times = {1, 2}
  Temperatures = {1}
  Brightnesses = {1, 3}
  MAGIC = 7
  Blank = 9
  MaxGames = 3
  MaxCuts = 2
SPECIFICATION BusSpec
INVARIANTS MagicMeansSaved SavedWhole GamesAccounted
PROPERTIES CountNeverForgotten SavesEnd BusKeepsRecord
