------------------------------- MODULE Eeprom -------------------------------
(***************************************************************************)
(* The record of the cabinet and its copy in the EEPROM of the MCP79411    *)
(* (Mc32gestI2cSeeprom.c).  A save sends the record page by page; the      *)
(* EEPROM takes a page at the stop condition, programs it on its own and   *)
(* acknowledges nothing meanwhile.  The power may go, or the processor be  *)
(* reset, between any two steps.  Values are those of 4-byte words.        *)
(***************************************************************************)
EXTENDS Naturals, Sequences

CONSTANTS
  Times,         \* the durations a won game may have
  Temperatures,  \* what the thermometer may answer
  Brightnesses,  \* the settings of the display
  MAGIC,
  Blank,         \* a word of a new EEPROM, or of one that does not answer
  MaxGames,      \* bound of the model on the games of a life
  MaxCuts        \* bound of the model on the cuts and resets of a life

ASSUME EepromAssumption ==
  /\ Times \subseteq Nat /\ Temperatures \subseteq Nat /\ Brightnesses \subseteq Nat
  /\ MAGIC \in Nat \ {0} /\ Blank \in Nat \ {MAGIC}
  /\ MaxGames \in Nat /\ MaxCuts \in Nat

VARIABLES
  systeme_info,  \* the record in RAM
  memory,        \* the record in the EEPROM
  pending,       \* the fields of the page the EEPROM is programming
  sent,          \* their values
  pageIndex,     \* the page the save sends next
  at,            \* where the main loop is
  closed,        \* history: the games closed in the life of the cabinet
  cuts,          \* history: the cuts and resets
  saved,         \* history: every page of some save was sent
  current        \* history: a save has gone through since power-on

ram == <<systeme_info, pageIndex, at>>
eeprom == <<memory, pending, sent>>
history == <<closed, cuts, saved, current>>
vars == <<ram, eeprom, history>>

\* SYS_INFO in the order of its fields, a word each: sys_brightness is padded.
Layout == <<"nbr_game_all_time", "nbr_game_session", "best_time_score",
            "last_time_score", "LM92_Temp", "DS18B20_Stepper_1",
            "DS18B20_Stepper_2", "sys_brightness", "Magic">>
Field == {"nbr_game_all_time", "nbr_game_session", "best_time_score",
          "last_time_score", "LM92_Temp", "DS18B20_Stepper_1",
          "DS18B20_Stepper_2", "sys_brightness", "Magic"}
NbWords == 9
EEPROM_PAGE_SIZE == 2
LastPage == NbWords \div EEPROM_PAGE_SIZE

wordsToWriteInPage(page) ==
  IF page = LastPage THEN NbWords - EEPROM_PAGE_SIZE * page ELSE EEPROM_PAGE_SIZE

Page(page) ==
  {Layout[EEPROM_PAGE_SIZE * page + i] : i \in 1..wordsToWriteInPage(page)}

Zeroed == [f \in Field |-> 0]

Init ==
  /\ systeme_info = Zeroed
  /\ memory = [f \in Field |-> Blank]
  /\ pending = {} /\ sent = Zeroed
  /\ pageIndex = 0
  /\ at = "boot"
  /\ closed = 0 /\ cuts = 0 /\ saved = FALSE /\ current = FALSE
-----------------------------------------------------------------------------
\* The EEPROM acknowledges nothing while it is busy, and leaves the bus high.
Acknowledges == pending = {}
Answer == IF Acknowledges THEN memory ELSE [f \in Field |-> Blank]

\* The EEPROM has programmed the page.
WriteCycleEnds ==
  /\ pending # {}
  /\ memory' = [f \in Field |-> IF f \in pending THEN sent[f] ELSE memory[f]]
  /\ pending' = {}
  /\ UNCHANGED <<ram, sent, history>>
-----------------------------------------------------------------------------
\* Mutant: the wrong count is reset for the new session.
RestoredSwapped(found) ==
  IF found["Magic"] = MAGIC
  THEN [found EXCEPT !["nbr_game_all_time"] = 0, !["last_time_score"] = 0]
  ELSE [Zeroed EXCEPT !["Magic"] = MAGIC, !["sys_brightness"] = 3]

\* A valid record opens a new session; any other starts a new life, with the
\* temperatures as start-up cleared them.
Restored(found) ==
  IF found["Magic"] = MAGIC
  THEN [found EXCEPT !["nbr_game_session"] = 0, !["last_time_score"] = 0]
  ELSE [Zeroed EXCEPT !["Magic"] = MAGIC, !["sys_brightness"] = 3]

Check_If_Memory_exist ==
  /\ at = "boot"
  /\ Acknowledges
  /\ systeme_info' = Restored(Answer)
  /\ at' = "run"
  /\ UNCHANGED <<pageIndex, eeprom, history>>

ReadTemperature(t) ==
  /\ at \in {"run", "over"}
  /\ systeme_info' = [systeme_info EXCEPT !["LM92_Temp"] = t]
  /\ UNCHANGED <<pageIndex, at, eeprom, history>>

WinGame(t) ==
  /\ at = "run" /\ closed < MaxGames
  /\ systeme_info' = [systeme_info EXCEPT
       !["last_time_score"] = t,
       !["best_time_score"] = IF t < @ THEN t ELSE @]
  /\ at' = "over"
  /\ UNCHANGED <<pageIndex, eeprom, history>>

\* Lost or stopped.
LoseGame ==
  /\ at = "run" /\ closed < MaxGames
  /\ at' = "over"
  /\ UNCHANGED <<systeme_info, pageIndex, eeprom, history>>

StartSave == at' = "save" /\ pageIndex' = 0

\* A game lasts several ticks of the menu, the EEPROM's cycle a part of one.
CloseGame ==
  /\ at = "over"
  /\ Acknowledges
  /\ systeme_info' = [systeme_info EXCEPT !["nbr_game_session"] = @ + 1,
                                          !["nbr_game_all_time"] = @ + 1]
  /\ StartSave
  /\ closed' = closed + 1
  /\ UNCHANGED <<eeprom, cuts, saved, current>>

SaveSettings(b) ==
  /\ at = "run"
  /\ systeme_info' = [systeme_info EXCEPT !["sys_brightness"] = b]
  /\ StartSave
  /\ UNCHANGED <<eeprom, history>>
-----------------------------------------------------------------------------
\* One turn of I2C_WriteSEEPROM's loop: a page, taken at the stop condition.
SendPage ==
  /\ at = "save"
  /\ Acknowledges
  /\ pending' = Page(pageIndex) /\ sent' = systeme_info
  /\ IF pageIndex = LastPage
     THEN at' = "run" /\ pageIndex' = 0 /\ saved' = TRUE /\ current' = TRUE
     ELSE at' = "save" /\ pageIndex' = pageIndex + 1 /\ UNCHANGED <<saved, current>>
  /\ UNCHANGED <<systeme_info, memory, closed, cuts>>
-----------------------------------------------------------------------------
\* The RAM is cleared and the program starts again.
Restart ==
  /\ cuts < MaxCuts
  /\ systeme_info' = Zeroed /\ pageIndex' = 0 /\ at' = "boot"
  /\ cuts' = cuts + 1
  /\ current' = FALSE
  /\ UNCHANGED <<closed, saved>>

\* Without power the page being programmed is lost; after a reset of the processor
\* alone the EEPROM goes on with it.
PowerCut == Restart /\ pending' = {} /\ UNCHANGED <<memory, sent>>
Reset == Restart /\ UNCHANGED eeprom

Next ==
  \/ Check_If_Memory_exist
  \/ \E t \in Temperatures : ReadTemperature(t)
  \/ \E t \in Times : WinGame(t)
  \/ LoseGame
  \/ CloseGame
  \/ \E b \in Brightnesses : SaveSettings(b)
  \/ SendPage
  \/ WriteCycleEnds
  \/ PowerCut
  \/ Reset

\* The loop goes on and the EEPROM ends what it programs; nothing is assumed of the
\* player or of the power.
Spec == Init /\ [][Next]_vars /\ WF_vars(SendPage) /\ WF_vars(WriteCycleEnds)
-----------------------------------------------------------------------------
TypeOK ==
  /\ systeme_info \in [Field -> Nat]
  /\ memory \in [Field -> Nat]
  /\ pending \in SUBSET Field /\ sent \in [Field -> Nat]
  /\ pageIndex \in 0..LastPage
  /\ at \in {"boot", "run", "over", "save"}
  /\ closed \in Nat /\ cuts \in Nat /\ saved \in BOOLEAN /\ current \in BOOLEAN

Valid == memory["Magic"] = MAGIC

\* Magic in the memory means that a record was saved, to its last page: a life cut
\* during its first save starts again from nothing and not from half a record.
MagicMeansSaved == Valid => saved

\* What is in the memory when a save has gone through is the record that was saved,
\* to the last of its words and whatever the cuts before it left there.
SavedWhole ==
  at = "run" /\ Acknowledges /\ current =>
    \A f \in Field \ {"LM92_Temp"} : memory[f] = systeme_info[f]

\* The record counts the games of all sessions: none twice, and a cut loses at most
\* the game whose save it interrupts.
GamesAccounted ==
  Valid /\ at # "save" =>
    /\ memory["nbr_game_all_time"] <= closed
    /\ closed <= memory["nbr_game_all_time"] + cuts

\* However saves are cut, a valid record stays valid, and the games it counts are
\* added one by one and never forgotten, by a session or by the next.
CountNeverForgotten ==
  [][Valid => /\ memory'["Magic"] = MAGIC
              /\ memory'["nbr_game_all_time"] - memory["nbr_game_all_time"] \in {0, 1}]_vars

\* The menu is held for as long as a save lasts: it lasts only so long.
SavesEnd == at = "save" ~> at # "save"
=============================================================================
