---------------------------- MODULE EepromProofs ----------------------------
(***************************************************************************)
(* Proofs about Eeprom: what a save that is cut may leave in the memory;   *)
(* and that I2cBus, byte by byte, does to the record what Eeprom does.     *)
(***************************************************************************)
EXTENDS I2cBus, TLAPS

\* The loop of I2C_WriteSEEPROM cuts the record at these fields.
LEMMA Pages ==
  /\ LastPage = 4
  /\ Page(0) = {"nbr_game_all_time", "nbr_game_session"}
  /\ Page(1) = {"best_time_score", "last_time_score"}
  /\ Page(2) = {"LM92_Temp", "DS18B20_Stepper_1"}
  /\ Page(3) = {"DS18B20_Stepper_2", "sys_brightness"}
  /\ Page(4) = {"Magic"}
<1>1. LastPage = 4
  BY DEF LastPage, NbWords, EEPROM_PAGE_SIZE
<1>2. \A p \in 0..3 : Page(p) = {Layout[2 * p + 1], Layout[2 * p + 2]}
  <2>1. SUFFICES ASSUME NEW p \in 0..3
                 PROVE  Page(p) = {Layout[2 * p + 1], Layout[2 * p + 2]}
    OBVIOUS
  <2>2. wordsToWriteInPage(p) = 2
    BY <1>1 DEF wordsToWriteInPage, EEPROM_PAGE_SIZE
  <2>3. 1..2 = {1, 2}
    OBVIOUS
  <2> QED BY <2>2, <2>3 DEF Page, EEPROM_PAGE_SIZE
<1>3. Page(4) = {Layout[9]}
  <2>1. wordsToWriteInPage(4) = 1
    BY <1>1 DEF wordsToWriteInPage, NbWords, EEPROM_PAGE_SIZE
  <2>2. 1..1 = {1}
    OBVIOUS
  <2> QED BY <2>1, <2>2 DEF Page, EEPROM_PAGE_SIZE
<1>4. /\ Layout[1] = "nbr_game_all_time" /\ Layout[2] = "nbr_game_session"
      /\ Layout[3] = "best_time_score" /\ Layout[4] = "last_time_score"
      /\ Layout[5] = "LM92_Temp" /\ Layout[6] = "DS18B20_Stepper_1"
      /\ Layout[7] = "DS18B20_Stepper_2" /\ Layout[8] = "sys_brightness"
      /\ Layout[9] = "Magic"
  BY DEF Layout
<1>5. /\ Page(0) = {Layout[1], Layout[2]} /\ Page(1) = {Layout[3], Layout[4]}
      /\ Page(2) = {Layout[5], Layout[6]} /\ Page(3) = {Layout[7], Layout[8]}
  <2>1. 0 \in 0..3 /\ 1 \in 0..3 /\ 2 \in 0..3 /\ 3 \in 0..3
    OBVIOUS
  <2>2. Page(0) = {Layout[2 * 0 + 1], Layout[2 * 0 + 2]}
    BY <1>2, <2>1
  <2>3. Page(1) = {Layout[2 * 1 + 1], Layout[2 * 1 + 2]}
    BY <1>2, <2>1
  <2>4. Page(2) = {Layout[2 * 2 + 1], Layout[2 * 2 + 2]}
    BY <1>2, <2>1
  <2>5. Page(3) = {Layout[2 * 3 + 1], Layout[2 * 3 + 2]}
    BY <1>2, <2>1
  <2> QED BY <2>2, <2>3, <2>4, <2>5
<1> QED BY <1>1, <1>3, <1>4, <1>5
-----------------------------------------------------------------------------
\* The pages are pages of the record, the last of them the fifth.
LEMMA PageType ==
  ASSUME NEW p \in 0..LastPage
  PROVE  Page(p) \subseteq Field /\ Page(p) # {}
BY Pages DEF Field

\* A field of the record is overwritten.
LEMMA UpdateType ==
  ASSUME NEW r \in [Field -> Nat], NEW f \in Field, NEW v \in Nat
  PROVE  [r EXCEPT ![f] = v] \in [Field -> Nat]
OBVIOUS

\* The record keeps its type, whatever the EEPROM answered.
LEMMA RestoredType ==
  ASSUME NEW found \in [Field -> Nat]
  PROVE  Restored(found) \in [Field -> Nat]
BY EepromAssumption DEF Restored, Zeroed, Field

\* The record of a new cabinet has its type.
LEMMA EepromTypeInit == Init => TypeOK
<1> SUFFICES ASSUME Init PROVE TypeOK
  OBVIOUS
<1>1. systeme_info \in [Field -> Nat] /\ sent \in [Field -> Nat]
  BY DEF Init, Zeroed
<1>2. memory \in [Field -> Nat]
  BY EepromAssumption DEF Init
<1>3. saved \in BOOLEAN /\ current \in BOOLEAN
  BY Zenon DEF Init
<1>4. /\ pending \in SUBSET Field /\ pageIndex \in 0..LastPage
      /\ at \in {"boot", "run", "over", "save"} /\ closed \in Nat /\ cuts \in Nat
  BY Pages DEF Init
<1> QED
  BY <1>1, <1>2, <1>3, <1>4 DEF TypeOK

\* Every step of the record keeps the types.
LEMMA EepromTypeStep == TypeOK /\ [Next]_vars => TypeOK'
<1> SUFFICES ASSUME TypeOK, [Next]_vars PROVE TypeOK'
  OBVIOUS
<1> USE DEF TypeOK
<1>1. CASE Check_If_Memory_exist
  <2>1. systeme_info' \in [Field -> Nat]
    BY <1>1, RestoredType DEF Check_If_Memory_exist, Answer
  <2> QED
    BY <1>1, <2>1 DEF Check_If_Memory_exist, eeprom, history
<1>2. ASSUME NEW t \in Temperatures, ReadTemperature(t) PROVE TypeOK'
  BY <1>2, EepromAssumption DEF ReadTemperature, eeprom, history
<1>3. ASSUME NEW t \in Times, WinGame(t) PROVE TypeOK'
  <2>1. t \in Nat
    BY EepromAssumption
  <2>2. systeme_info' \in [Field -> Nat]
    BY <1>3, <2>1 DEF WinGame
  <2> QED
    BY <1>3, <2>2 DEF WinGame, eeprom, history
<1>4. CASE LoseGame
  BY <1>4 DEF LoseGame, eeprom, history
<1>5. CASE CloseGame
  <2>1. systeme_info["nbr_game_session"] \in Nat
    BY DEF Field
  <2>2. systeme_info["nbr_game_all_time"] \in Nat
    BY DEF Field
  <2>3. systeme_info' \in [Field -> Nat]
    <3> DEFINE opened == [systeme_info EXCEPT
                            !["nbr_game_session"] = systeme_info["nbr_game_session"] + 1]
    <3>0. {"nbr_game_session", "nbr_game_all_time"} \subseteq Field
      BY DEF Field
    <3>1. opened \in [Field -> Nat]
      <4>1. systeme_info["nbr_game_session"] + 1 \in Nat
        BY <2>1
      <4> QED
        BY <3>0, <4>1, UpdateType
    <3>2. opened["nbr_game_all_time"] = systeme_info["nbr_game_all_time"]
      BY DEF Field
    <3>3. systeme_info' = [opened EXCEPT
                            !["nbr_game_all_time"] = systeme_info["nbr_game_all_time"] + 1]
      BY <1>5, <3>2 DEF CloseGame
    <3>4. systeme_info["nbr_game_all_time"] + 1 \in Nat
      BY <2>2
    <3> HIDE DEF opened
    <3> QED
      BY <3>0, <3>1, <3>3, <3>4, UpdateType
  <2>4. pageIndex' \in 0..LastPage
    BY <1>5, Pages DEF CloseGame, StartSave
  <2>5. saved' \in BOOLEAN /\ current' \in BOOLEAN
    BY <1>5, Zenon DEF CloseGame
  <2>6. closed' \in Nat /\ cuts' \in Nat /\ at' = "save"
    BY <1>5 DEF CloseGame, StartSave
  <2>7. memory' = memory /\ pending' = pending /\ sent' = sent
    BY <1>5 DEF CloseGame, eeprom
  <2> QED
    BY <2>3, <2>4, <2>5, <2>6, <2>7
<1>6. ASSUME NEW b \in Brightnesses, SaveSettings(b) PROVE TypeOK'
  <2>1. b \in Nat /\ 0 \in 0..LastPage
    BY EepromAssumption, Pages
  <2> QED
    BY <1>6, <2>1 DEF SaveSettings, StartSave, eeprom, history
<1>7. CASE SendPage
  <2>1. pending' \subseteq Field /\ sent' \in [Field -> Nat]
    BY <1>7, PageType DEF SendPage
  <2>2. pageIndex' \in 0..LastPage
    BY <1>7, Pages DEF SendPage
  <2>3. saved' \in BOOLEAN /\ current' \in BOOLEAN /\ at' \in {"run", "save"}
    BY <1>7 DEF SendPage
  <2> QED
    BY <1>7, <2>1, <2>2, <2>3 DEF SendPage
<1>8. CASE WriteCycleEnds
  BY <1>8 DEF WriteCycleEnds, ram, history
<1>9. CASE Restart /\ (PowerCut \/ Reset)
  <2>1. systeme_info' \in [Field -> Nat] /\ pageIndex' \in 0..LastPage
    BY <1>9, Pages DEF Restart, Zeroed
  <2>2. memory' = memory /\ sent' = sent /\ pending' \in SUBSET Field
    BY <1>9 DEF PowerCut, Reset, eeprom
  <2>3. cuts' \in Nat /\ closed' \in Nat /\ at' = "boot"
    BY <1>9 DEF Restart
  <2>4. saved' \in BOOLEAN /\ current' \in BOOLEAN
    BY <1>9, Zenon DEF Restart
  <2> QED
    BY <2>1, <2>2, <2>3, <2>4
<1>10. CASE UNCHANGED vars
  BY <1>10 DEF vars, ram, eeprom, history
<1> QED
  BY <1>1, <1>2, <1>3, <1>4, <1>5, <1>6, <1>7, <1>8, <1>9, <1>10
  DEF Next, PowerCut, Reset

\* The steps of the record, whatever is done for the program to go on: those of Spec,
\* and of the bus.
RecordSteps == Init /\ [][Next]_vars

\* The record, its copy and what the save keeps have their types.
LEMMA StepsTyped == RecordSteps => []TypeOK
BY EepromTypeInit, EepromTypeStep, PTL DEF RecordSteps

\* The types hold of the record.
THEOREM EepromTypeCorrect == Spec => []TypeOK
BY StepsTyped, PTL DEF Spec, RecordSteps
-----------------------------------------------------------------------------
All == "nbr_game_all_time"

\* Magic is in the memory or about to be.
MagicSent == Valid \/ "Magic" \in pending

\* A program that has started holds Magic and so does all it sends, the EEPROM
\* programs whole pages, and Magic reaches it with the last page of a first save.
MagicLast ==
  /\ at # "boot" => systeme_info["Magic"] = MAGIC
  /\ pending # {} => /\ sent["Magic"] = MAGIC
                     /\ \E p \in 0..LastPage : pending = Page(p)
  /\ ~saved => ~MagicSent

\* The memory counts as many games as the RAM, or one less while a save has still to
\* get its first page across.
CountFollows ==
  /\ at \in {"run", "over"} =>
       /\ All \notin pending
       /\ MagicSent => systeme_info[All] = memory[All]
  /\ at = "save" /\ pageIndex = 0 =>
       /\ All \notin pending
       /\ MagicSent => systeme_info[All] - memory[All] \in {0, 1}
  /\ at = "save" /\ pageIndex > 0 /\ All \notin pending =>
       systeme_info[All] = memory[All]
  /\ at = "save" /\ All \in pending =>
       pageIndex = 1 /\ sent[All] = systeme_info[All]
  /\ Valid /\ All \in pending => sent[All] - memory[All] \in {0, 1}

\* The count, in the RAM while the program runs and else in the memory, is that of
\* the games closed but for one a cut; a life that has no valid record yet has no
\* game that a cut did not take.
GamesBounded ==
  /\ at # "boot" => systeme_info[All] <= closed /\ closed <= systeme_info[All] + cuts
  /\ at = "boot" /\ MagicSent =>
       memory[All] <= closed /\ closed <= memory[All] + cuts
  /\ at = "boot" /\ All \in pending =>
       sent[All] <= closed /\ closed <= sent[All] + cuts
  /\ at = "boot" /\ ~Valid => closed <= cuts
  /\ at # "boot" /\ ~Valid => systeme_info[All] <= 1
  /\ at \in {"run", "over"} /\ ~MagicSent => systeme_info[All] = 0

IInv == TypeOK /\ MagicLast /\ CountFollows /\ GamesBounded

\* The count of games goes with the first page and Magic with the last.
LEMMA PageOf ==
  ASSUME NEW p \in 0..LastPage
  PROVE  (All \in Page(p) <=> p = 0) /\ ("Magic" \in Page(p) <=> p = LastPage)
BY Pages DEF All

\* The words the invariant speaks of.
LEMMA Words ==
  ASSUME TypeOK
  PROVE  /\ systeme_info[All] \in Nat /\ memory[All] \in Nat /\ sent[All] \in Nat
         /\ All \in Field /\ "Magic" \in Field
<1>1. All \in Field /\ "Magic" \in Field
  BY DEF All, Field
<1> QED
  BY <1>1 DEF TypeOK

\* The program starts: what it counts is what it has read.
LEMMA CheckStep ==
  ASSUME IInv, Check_If_Memory_exist
  PROVE  MagicLast' /\ CountFollows' /\ GamesBounded'
<1> USE DEF IInv
<1>1. /\ at = "boot" /\ at' = "run" /\ pending = {} /\ pending' = {}
      /\ memory' = memory /\ sent' = sent /\ saved' = saved
      /\ closed' = closed /\ cuts' = cuts
      /\ systeme_info' = Restored(memory)
  BY DEF Check_If_Memory_exist, Acknowledges, Answer, eeprom, history
<1>2. Valid' = Valid /\ MagicSent' = Valid /\ MagicSent = Valid
  BY <1>1 DEF Valid, MagicSent
<1>3. memory[All] \in Nat /\ closed \in Nat /\ cuts \in Nat
  BY Words DEF TypeOK
<1>4. CASE Valid
  <2>1. systeme_info'["Magic"] = MAGIC /\ systeme_info'[All] = memory[All]
    BY <1>1, <1>4, Words DEF Restored, Valid, All, TypeOK
  <2> QED
    BY <1>1, <1>2, <1>3, <1>4, <2>1 DEF MagicLast, CountFollows, GamesBounded
<1>5. CASE ~Valid
  <2>1. systeme_info'["Magic"] = MAGIC /\ systeme_info'[All] = 0
    BY <1>1, <1>5, Words DEF Restored, Valid, All, Zeroed, Field
  <2> QED
    BY <1>1, <1>2, <1>3, <1>5, <2>1 DEF MagicLast, CountFollows, GamesBounded
<1> QED
  BY <1>4, <1>5

\* Between two saves the count and Magic do not change.
LEMMA PlayStep ==
  ASSUME IInv, at \in {"run", "over"}, at' \in {"run", "over"},
         systeme_info'[All] = systeme_info[All],
         systeme_info'["Magic"] = systeme_info["Magic"],
         UNCHANGED <<eeprom, closed, cuts, saved>>
  PROVE  MagicLast' /\ CountFollows' /\ GamesBounded'
<1>1. Valid' = Valid /\ MagicSent' = MagicSent
  BY DEF Valid, MagicSent, eeprom
<1> QED
  BY <1>1 DEF IInv, MagicLast, CountFollows, GamesBounded, eeprom

\* A save starts, of a record that counts a game more or none.
LEMMA StartStep ==
  ASSUME IInv, at \in {"run", "over"}, StartSave, NEW n \in {0, 1},
         systeme_info'[All] = systeme_info[All] + n,
         systeme_info'["Magic"] = systeme_info["Magic"],
         closed' = closed + n, n = 1 => pending = {},
         UNCHANGED <<eeprom, cuts, saved>>
  PROVE  MagicLast' /\ CountFollows' /\ GamesBounded'
<1>1. /\ Valid' = Valid /\ MagicSent' = MagicSent /\ at' = "save" /\ pageIndex' = 0
      /\ memory' = memory /\ pending' = pending /\ sent' = sent
      /\ cuts' = cuts /\ saved' = saved
  BY DEF Valid, MagicSent, StartSave, eeprom
<1>2. /\ systeme_info[All] \in Nat /\ memory[All] \in Nat
      /\ closed \in Nat /\ cuts \in Nat
  BY Words DEF IInv, TypeOK
<1>3. n = 1 => (MagicSent => Valid)
  BY DEF MagicSent
<1>4. ~Valid => systeme_info'[All] <= 1
  BY <1>2, <1>3 DEF IInv, GamesBounded
<1>5. MagicLast'
  BY <1>1 DEF IInv, MagicLast
<1>6. CountFollows'
  BY <1>1, <1>2 DEF IInv, CountFollows
<1>7. GamesBounded'
  BY <1>1, <1>2, <1>4 DEF IInv, GamesBounded
<1> QED
  BY <1>5, <1>6, <1>7

\* A page is sent: the first takes the count along, the last Magic.
LEMMA SendStep ==
  ASSUME IInv, SendPage
  PROVE  MagicLast' /\ CountFollows' /\ GamesBounded'
<1>1. /\ at = "save" /\ pending = {} /\ pending' = Page(pageIndex)
      /\ sent' = systeme_info /\ systeme_info' = systeme_info /\ memory' = memory
      /\ closed' = closed /\ cuts' = cuts
  BY DEF SendPage, Acknowledges
<1>2. pageIndex \in 0..4 /\ LastPage = 4
  BY Pages DEF IInv, TypeOK
<1>3. (All \in pending' <=> pageIndex = 0) /\ ("Magic" \in pending' <=> pageIndex = 4)
  BY <1>1, <1>2, PageOf
<1>4. /\ systeme_info[All] \in Nat /\ memory[All] \in Nat
      /\ closed \in Nat /\ cuts \in Nat
  BY Words DEF IInv, TypeOK
<1>5. /\ Valid' = Valid /\ MagicSent = Valid
      /\ pageIndex # 4 => MagicSent' = MagicSent
  BY <1>1, <1>3 DEF Valid, MagicSent
<1>6. /\ pageIndex = 4 => at' = "run" /\ pageIndex' = 0 /\ saved'
      /\ pageIndex # 4 => at' = "save" /\ pageIndex' = pageIndex + 1
                          /\ saved' = saved
  BY <1>2 DEF SendPage
<1>7. MagicLast'
  <2>1. systeme_info["Magic"] = MAGIC
    BY <1>1 DEF IInv, MagicLast
  <2>2. ~saved' => ~MagicSent'
    BY <1>5, <1>6 DEF IInv, MagicLast
  <2> QED
    BY <1>1, <1>2, <2>1, <2>2 DEF MagicLast
<1>8. CountFollows'
  <2>1. /\ pageIndex = 0 /\ Valid => systeme_info[All] - memory[All] \in {0, 1}
        /\ pageIndex > 0 => systeme_info[All] = memory[All]
    BY <1>1, <1>5 DEF IInv, CountFollows
  <2> QED
    BY <1>1, <1>2, <1>3, <1>4, <1>5, <1>6, <2>1 DEF CountFollows
<1>9. GamesBounded'
  <2>1. /\ systeme_info[All] <= closed /\ closed <= systeme_info[All] + cuts
        /\ ~Valid => systeme_info[All] <= 1
    BY <1>1 DEF IInv, GamesBounded
  <2>2. at' \in {"run", "over"} => MagicSent'
    BY <1>3, <1>6 DEF MagicSent
  <2> QED
    BY <1>1, <1>4, <1>5, <1>6, <2>1, <2>2 DEF GamesBounded
<1> QED
  BY <1>7, <1>8, <1>9

\* What the end of a cycle does to the words the invariant speaks of.
LEMMA CycleWords ==
  ASSUME IInv, WriteCycleEnds
  PROVE  /\ memory'[All] = IF All \in pending THEN sent[All] ELSE memory[All]
         /\ Valid' <=> MagicSent
         /\ MagicSent' <=> MagicSent
         /\ All \in pending => "Magic" \notin pending
<1>1. All \in Field /\ "Magic" \in Field
  BY Words DEF IInv
<1>2. /\ memory'[All] = IF All \in pending THEN sent[All] ELSE memory[All]
      /\ memory'["Magic"] = IF "Magic" \in pending THEN sent["Magic"]
                            ELSE memory["Magic"]
  BY <1>1 DEF WriteCycleEnds
<1>3. sent["Magic"] = MAGIC
  BY DEF IInv, MagicLast, WriteCycleEnds
<1>4. Valid' <=> MagicSent
  BY <1>2, <1>3 DEF Valid, MagicSent
<1>5. pending' = {}
  BY DEF WriteCycleEnds
<1>6. All \in pending => "Magic" \notin pending
  <2>1. PICK p \in 0..LastPage : pending = Page(p)
    BY DEF IInv, MagicLast, WriteCycleEnds
  <2> QED
    BY <2>1, PageOf, Pages
<1> QED
  BY <1>2, <1>4, <1>5, <1>6 DEF MagicSent

\* A page arrives.
LEMMA CycleStep ==
  ASSUME IInv, WriteCycleEnds
  PROVE  MagicLast' /\ CountFollows' /\ GamesBounded'
<1>1. /\ systeme_info' = systeme_info /\ at' = at /\ pageIndex' = pageIndex
      /\ pending' = {} /\ sent' = sent
      /\ closed' = closed /\ cuts' = cuts /\ saved' = saved
  BY DEF WriteCycleEnds, ram, history
<1>2. /\ systeme_info[All] \in Nat /\ memory[All] \in Nat /\ sent[All] \in Nat
      /\ closed \in Nat /\ cuts \in Nat /\ pageIndex \in 0..LastPage
  BY Words DEF IInv, TypeOK
<1>3. MagicLast'
  BY <1>1, CycleWords DEF IInv, MagicLast
<1>4. CountFollows'
  BY <1>1, <1>2, CycleWords DEF IInv, CountFollows
<1>5. GamesBounded'
  <2>1. Valid => Valid'
    BY CycleWords DEF MagicSent
  <2> QED
    BY <1>1, <1>2, <2>1, CycleWords DEF IInv, GamesBounded
<1> QED
  BY <1>3, <1>4, <1>5

\* A cut or a reset, at any moment of a save too.
LEMMA RestartStep ==
  ASSUME IInv, PowerCut \/ Reset
  PROVE  MagicLast' /\ CountFollows' /\ GamesBounded'
<1>1. /\ at' = "boot" /\ memory' = memory /\ sent' = sent
      /\ pending' = {} \/ pending' = pending
      /\ closed' = closed /\ cuts' = cuts + 1 /\ saved' = saved
  BY DEF PowerCut, Reset, Restart, eeprom
<1>2. /\ systeme_info[All] \in Nat /\ memory[All] \in Nat /\ sent[All] \in Nat
      /\ closed \in Nat /\ cuts \in Nat /\ pageIndex \in 0..LastPage
      /\ at \in {"boot", "run", "over", "save"}
  BY Words DEF IInv, TypeOK
<1>3. Valid' = Valid /\ (MagicSent' => MagicSent)
  BY <1>1 DEF Valid, MagicSent
<1>4. All \in pending => (MagicSent <=> Valid)
  <2>1. CASE pending # {}
    <3>1. PICK p \in 0..LastPage : pending = Page(p)
      BY <2>1 DEF IInv, MagicLast
    <3> QED
      BY <3>1, PageOf, Pages DEF MagicSent
  <2> QED
    BY <2>1
<1>5. MagicLast'
  BY <1>1, <1>3 DEF IInv, MagicLast
<1>6. CountFollows'
  BY <1>1, <1>3 DEF IInv, CountFollows
<1>7. GamesBounded'
  <2>1. MagicSent => memory[All] <= closed /\ closed <= memory[All] + cuts + 1
    <3>1. at # "boot" /\ MagicSent => systeme_info[All] - memory[All] \in {0, 1}
      BY <1>2, <1>4 DEF IInv, CountFollows
    <3> QED
      BY <1>2, <3>1 DEF IInv, GamesBounded
  <2>2. All \in pending => sent[All] <= closed /\ closed <= sent[All] + cuts
    BY <1>2 DEF IInv, GamesBounded, CountFollows
  <2>3. ~Valid => closed <= cuts + 1
    BY <1>2 DEF IInv, GamesBounded
  <2> QED
    BY <1>1, <1>2, <1>3, <2>1, <2>2, <2>3 DEF GamesBounded
<1> QED
  BY <1>5, <1>6, <1>7

\* The invariant holds however saves and cuts follow each other.
LEMMA EepromInvariant == RecordSteps => []IInv
<1>1. Init => IInv
  <2> SUFFICES ASSUME Init, TypeOK PROVE IInv
    BY EepromTypeInit
  <2>1. /\ ~MagicSent /\ ~Valid /\ at = "boot" /\ pending = {} /\ closed = 0 /\ cuts = 0
    BY EepromAssumption, Words DEF Init, MagicSent, Valid
  <2> QED
    BY <2>1 DEF IInv, MagicLast, CountFollows, GamesBounded
<1>2. IInv /\ TypeOK' /\ [Next]_vars => IInv'
  <2> SUFFICES ASSUME IInv, [Next]_vars
               PROVE  MagicLast' /\ CountFollows' /\ GamesBounded'
    BY DEF IInv
  <2>1. CASE Check_If_Memory_exist
    BY <2>1, CheckStep
  <2>2. ASSUME NEW t \in Temperatures, ReadTemperature(t)
        PROVE  MagicLast' /\ CountFollows' /\ GamesBounded'
    <3>1. /\ systeme_info'[All] = systeme_info[All]
          /\ systeme_info'["Magic"] = systeme_info["Magic"]
      BY <2>2, Words DEF ReadTemperature, IInv, TypeOK, All
    <3> QED
      BY <2>2, <3>1, PlayStep DEF ReadTemperature, history
  <2>3. ASSUME NEW t \in Times, WinGame(t)
        PROVE  MagicLast' /\ CountFollows' /\ GamesBounded'
    <3>1. /\ systeme_info'[All] = systeme_info[All]
          /\ systeme_info'["Magic"] = systeme_info["Magic"]
      BY <2>3, Words DEF WinGame, IInv, TypeOK, All
    <3> QED
      BY <2>3, <3>1, PlayStep DEF WinGame, history
  <2>4. CASE LoseGame
    BY <2>4, PlayStep DEF LoseGame, history
  <2>5. CASE CloseGame
    <3>1. /\ systeme_info'[All] = systeme_info[All] + 1
          /\ systeme_info'["Magic"] = systeme_info["Magic"]
      BY <2>5, Words DEF CloseGame, IInv, TypeOK, All
    <3> QED
      BY <2>5, <3>1, StartStep DEF CloseGame, Acknowledges
  <2>6. ASSUME NEW b \in Brightnesses, SaveSettings(b)
        PROVE  MagicLast' /\ CountFollows' /\ GamesBounded'
    <3>1. /\ systeme_info'[All] = systeme_info[All] + 0
          /\ systeme_info'["Magic"] = systeme_info["Magic"]
      BY <2>6, Words DEF SaveSettings, IInv, TypeOK, All
    <3>2. closed' = closed + 0
      BY <2>6 DEF SaveSettings, history, IInv, TypeOK
    <3> QED
      BY <2>6, <3>1, <3>2, StartStep DEF SaveSettings, history
  <2>7. CASE SendPage
    BY <2>7, SendStep
  <2>8. CASE WriteCycleEnds
    BY <2>8, CycleStep
  <2>9. CASE PowerCut \/ Reset
    BY <2>9, RestartStep
  <2>10. CASE UNCHANGED vars
    BY <2>10 DEF IInv, MagicLast, CountFollows, GamesBounded, MagicSent, Valid, vars,
                 ram, eeprom, history
  <2> QED
    BY <2>1, <2>2, <2>3, <2>4, <2>5, <2>6, <2>7, <2>8, <2>9, <2>10 DEF Next
<1> QED
  BY <1>1, <1>2, StepsTyped, PTL DEF RecordSteps

\* Magic in the memory means that a record was saved to its last page
\* (Mc32gestI2cSeeprom.c:139), for every number of cuts.
LEMMA StepsMagic == RecordSteps => []MagicMeansSaved
<1>1. IInv => MagicMeansSaved
  BY DEF IInv, MagicLast, MagicSent, MagicMeansSaved
<1> QED
  BY <1>1, EepromInvariant, PTL

\* Magic in the memory means that a record was saved to its last page
\* (Mc32gestI2cSeeprom.c:139), for every number of cuts.
THEOREM EepromMagicMeansSaved == Spec => []MagicMeansSaved
BY StepsMagic, PTL DEF Spec, RecordSteps

\* The record counts every game but for one a cut, over any number of sessions.
LEMMA StepsAccounted == RecordSteps => []GamesAccounted
<1>1. IInv => GamesAccounted
  <2> SUFFICES ASSUME IInv, Valid, at # "save"
               PROVE  /\ memory[All] <= closed
                      /\ closed <= memory[All] + cuts
    BY DEF GamesAccounted, All
  <2>1. MagicSent
    BY DEF MagicSent
  <2>2. CASE at = "boot"
    BY <2>1, <2>2 DEF IInv, GamesBounded
  <2>3. CASE at \in {"run", "over"}
    BY <2>1, <2>3 DEF IInv, GamesBounded, CountFollows
  <2> QED
    BY <2>2, <2>3 DEF IInv, TypeOK
<1> QED
  BY <1>1, EepromInvariant, PTL

\* The record counts every game but for one a cut, over any number of sessions.
THEOREM EepromGamesAccounted == Spec => []GamesAccounted
BY StepsAccounted, PTL DEF Spec, RecordSteps

\* A valid record stays valid and its games are added one by one.
LEMMA StepsCount == RecordSteps => CountNeverForgotten
<1> DEFINE Kept == Valid => /\ memory'["Magic"] = MAGIC
                            /\ memory'["nbr_game_all_time"] - memory["nbr_game_all_time"]
                                 \in {0, 1}
<1>1. IInv /\ [Next]_vars => [Kept]_vars
  <2> SUFFICES ASSUME IInv, [Next]_vars, Valid
               PROVE  /\ memory'["Magic"] = MAGIC
                      /\ memory'[All] - memory[All] \in {0, 1}
    BY DEF All
  <2>1. memory[All] \in Nat
    BY Words DEF IInv
  <2>2. CASE WriteCycleEnds
    <3>1. Valid'
      BY <2>2, CycleWords DEF MagicSent
    <3>2. memory'[All] - memory[All] \in {0, 1}
      BY <2>1, <2>2, CycleWords DEF IInv, CountFollows
    <3> QED
      BY <3>1, <3>2 DEF Valid
  <2>3. CASE memory' = memory
    BY <2>1, <2>3 DEF Valid
  <2> QED
    BY <2>2, <2>3
    DEF Next, Check_If_Memory_exist, ReadTemperature, WinGame, LoseGame, CloseGame,
        SaveSettings, SendPage, PowerCut, Reset, vars, eeprom
<1> QED
  BY <1>1, EepromInvariant, PTL DEF RecordSteps, CountNeverForgotten

\* A valid record stays valid and its games are added one by one.
THEOREM EepromCountNeverForgotten == Spec => CountNeverForgotten
BY StepsCount, PTL DEF Spec, RecordSteps
-----------------------------------------------------------------------------
\* A field of the record that is saved, or on its way.
Kept(f) == IF f \in pending THEN sent[f] = systeme_info[f]
           ELSE memory[f] = systeme_info[f]

\* The pages a save has sent are those of the record, and after it all of them are.
PagesKept ==
  /\ at = "save" =>
       \A p \in 0..LastPage : p < pageIndex => \A f \in Page(p) : Kept(f)
  /\ at = "run" /\ current => \A f \in Field \ {"LM92_Temp"} : Kept(f)
  /\ at = "boot" => ~current

\* Every field is on a page.
LEMMA EveryFieldSent == \A f \in Field : \E p \in 0..LastPage : f \in Page(p)
BY Pages DEF Field

\* What is kept stays so while the EEPROM programs it.
LEMMA KeptThroughCycle ==
  ASSUME WriteCycleEnds, NEW f \in Field, Kept(f)
  PROVE  Kept(f)'
BY DEF Kept, WriteCycleEnds, ram

\* What is kept stays so while another page is sent, which is kept as well.
LEMMA KeptThroughSend ==
  ASSUME SendPage, NEW f \in Field, f \in Page(pageIndex) \/ Kept(f)
  PROVE  Kept(f)'
BY DEF Kept, SendPage, Acknowledges

\* Every step leaves the pages that were sent as they are.
LEMMA PagesKeptStep ==
  ASSUME TypeOK, PagesKept, [Next]_vars
  PROVE  PagesKept'
<1>1. CASE Check_If_Memory_exist
  <2>1. at = "boot" /\ at' = "run" /\ current' = current
    BY <1>1 DEF Check_If_Memory_exist, history
  <2> QED
    BY <2>1 DEF PagesKept
<1>2. ASSUME NEW t \in Temperatures, ReadTemperature(t) PROVE PagesKept'
  <2>1. \A f \in Field \ {"LM92_Temp"} : systeme_info'[f] = systeme_info[f]
    BY <1>2 DEF ReadTemperature, TypeOK
  <2>2. /\ at \in {"run", "over"} /\ at' = at /\ current' = current
        /\ memory' = memory /\ pending' = pending /\ sent' = sent
    BY <1>2 DEF ReadTemperature, eeprom, history
  <2> QED
    BY <2>1, <2>2 DEF PagesKept, Kept
<1>3. CASE LoseGame \/ \E t \in Times : WinGame(t)
  BY <1>3 DEF LoseGame, WinGame, PagesKept
<1>4. CASE CloseGame \/ \E b \in Brightnesses : SaveSettings(b)
  <2>1. at' = "save" /\ pageIndex' = 0
    BY <1>4 DEF CloseGame, SaveSettings, StartSave
  <2>2. ~ \E p \in 0..LastPage : p < 0
    BY Pages
  <2> QED
    BY <2>1, <2>2 DEF PagesKept
<1>5. CASE SendPage
  <2>1. at = "save" /\ at' \in {"run", "save"}
    BY <1>5 DEF SendPage
  <2>2. ASSUME NEW p \in 0..LastPage, p <= pageIndex, NEW f \in Page(p)
        PROVE  Kept(f)'
    <3>1. f \in Field
      BY PageType
    <3>2. p = pageIndex \/ p < pageIndex
      BY <2>2, Pages DEF TypeOK
    <3>3. f \in Page(pageIndex) \/ Kept(f)
      BY <2>1, <3>2 DEF PagesKept
    <3> QED
      BY <1>5, <3>1, <3>3, KeptThroughSend
  <2>3. CASE pageIndex = LastPage
    <3>1. at' = "run"
      BY <1>5, <2>3 DEF SendPage
    <3>2. ASSUME NEW f \in Field PROVE Kept(f)'
      <4>1. PICK p \in 0..LastPage : f \in Page(p)
        BY EveryFieldSent
      <4>2. p <= pageIndex
        BY <2>3, Pages
      <4> QED
        BY <2>2, <4>1, <4>2
    <3> QED
      BY <3>1, <3>2 DEF PagesKept
  <2>4. CASE pageIndex # LastPage
    <3>1. at' = "save" /\ pageIndex' = pageIndex + 1
      BY <1>5, <2>4 DEF SendPage
    <3>2. \A p \in 0..LastPage : p < pageIndex + 1 => p <= pageIndex
      BY Pages DEF TypeOK
    <3> QED
      BY <2>2, <3>1, <3>2 DEF PagesKept
  <2> QED
    BY <2>3, <2>4
<1>6. CASE WriteCycleEnds
  <2>1. at' = at /\ pageIndex' = pageIndex /\ current' = current
    BY <1>6 DEF WriteCycleEnds, ram, history
  <2>2. ASSUME NEW f \in Field, Kept(f) PROVE Kept(f)'
    BY <1>6, <2>2, KeptThroughCycle
  <2>3. \A p \in 0..LastPage : Page(p) \subseteq Field
    BY PageType
  <2> QED
    BY <2>1, <2>2, <2>3 DEF PagesKept
<1>7. CASE PowerCut \/ Reset
  BY <1>7 DEF PowerCut, Reset, Restart, PagesKept
<1>8. CASE UNCHANGED vars
  BY <1>8 DEF PagesKept, Kept, vars, ram, eeprom, history
<1> QED
  BY <1>1, <1>2, <1>3, <1>4, <1>5, <1>6, <1>7, <1>8 DEF Next

\* A save that has gone through left the whole record in the memory, whatever was
\* there before it.
LEMMA StepsSaved == RecordSteps => []SavedWhole
<1>1. Init => PagesKept
  BY DEF Init, PagesKept
<1>2. TypeOK /\ PagesKept /\ [Next]_vars => PagesKept'
  BY PagesKeptStep
<1>3. PagesKept => SavedWhole
  BY DEF PagesKept, SavedWhole, Kept, Acknowledges
<1> QED
  BY <1>1, <1>2, <1>3, StepsTyped, PTL DEF RecordSteps

\* A save that has gone through left the whole record in the memory, whatever was
\* there before it.
THEOREM EepromSavedWhole == Spec => []SavedWhole
BY StepsSaved, PTL DEF Spec, RecordSteps
-----------------------------------------------------------------------------
\* What is left of a call from its k-th operation on.
Rest(operations, k) == [i \in 1..(Len(operations) - k + 1) |-> operations[i + k - 1]]

\* The k-th operation of a call comes next.
Doing(name, operations, k) ==
  call = name /\ k \in 1..Len(operations) /\ script = Rest(operations, k)

\* The n words of a record from an address on.
WordsFrom(record, address, n) == [i \in 1..n |-> record[Layout[address + i]]]

\* No transfer is under way between two calls, in the menus and in a game.
Resting == call = "none" /\ script = <<>> /\ at \in {"run", "over"}

\* The EEPROM, which a reset may have left in the middle of a page, listens to
\* nothing once the clock was addressed.
ClockStarting(k) ==
  /\ Doing("init", I2C_InitMCP79411, k) /\ at = "boot"
  /\ k = 2 => chip.mode = "control"
  /\ k > 2 => chip.mode = "idle"

\* The record is read from its first word on, and from the answer to the poll to the
\* last word the memory does not change.
RecordReading(k) ==
  /\ Doing("read", I2C_ReadSEEPROM, k) /\ at = "boot"
  /\ k \in {2, 5} => chip.mode = "control"
  /\ k = 3 => chip.mode = "address"
  /\ k = 4 => chip.mode = "data"
  /\ k > 3 => chip.pointer = 0
  /\ k > 2 => pending = {}
  /\ k <= 6 => received = <<>>
  /\ k \in 2..6 => chip.words = <<>>
  /\ k > 5 =>
       /\ chip.mode = "read" /\ chip.words = received
       /\ received = WordsFrom(memory, 0, k - 6)

\* The EEPROM hears nothing of what the thermometer says.
TemperatureReading(k) ==
  /\ Doing("temperature", LM92_GetTemperature, k) /\ at \in {"run", "over"}
  /\ k \in {2, 5} => chip.mode = "control"
  /\ k \in {3, 4, 6, 7} => chip.mode = "idle"
  /\ k <= 6 => received = <<>>
  /\ k = 7 => \E t \in Temperatures : received = <<t>>

\* The words the EEPROM has taken are those of the page, and it programs no other
\* meanwhile.
PageSending(k) ==
  /\ Doing("page", PageTransfer(pageIndex), k) /\ at = "save"
  /\ k = 2 => chip.mode = "control"
  /\ k = 3 => chip.mode = "address"
  /\ k > 2 => pending = {}
  /\ k \in {2, 3} => chip.words = <<>>
  /\ k > 3 =>
       /\ chip.mode = "data" /\ chip.pointer = EEPROM_PAGE_SIZE * pageIndex
       /\ chip.words = WordsFrom(systeme_info, EEPROM_PAGE_SIZE * pageIndex, k - 4)

BusInv ==
  /\ chip \in Chip
  /\ \/ Resting
     \/ \E k \in 1..15 : \/ ClockStarting(k) \/ RecordReading(k)
                        \/ TemperatureReading(k) \/ PageSending(k)
-----------------------------------------------------------------------------
Operation == [op : {"start", "restart", "write", "poll", "data", "read", "stop"},
              byte : Nat]

\* Two sequences of operations are one when they agree in length and at every place.
LEMMA SameOperations ==
  ASSUME NEW s \in Seq(Operation), NEW t \in Seq(Operation), Len(s) = Len(t),
         \A i \in 1..Len(t) : s[i] = t[i]
  PROVE  s = t
OBVIOUS

\* Its k-th operation is the first of the rest of a call, and the next ones are what
\* it leaves.
LEMMA RestFacts ==
  ASSUME NEW s \in Seq(Operation), NEW k \in 1..Len(s)
  PROVE  /\ Rest(s, k) \in Seq(Operation)
         /\ Rest(s, k) # <<>>
         /\ Head(Rest(s, k)) = s[k]
         /\ k < Len(s) => Tail(Rest(s, k)) = Rest(s, k + 1)
<1>1. Rest(s, k) \in Seq(Operation) /\ Len(Rest(s, k)) = Len(s) - k + 1
  BY DEF Rest
<1>2. Rest(s, k)[1] = s[k]
  BY DEF Rest
<1>3. Rest(s, k) # <<>>
  BY <1>1
<1>4. ASSUME k < Len(s) PROVE Tail(Rest(s, k)) = Rest(s, k + 1)
  <2>1. Rest(s, k + 1) \in Seq(Operation) /\ Len(Rest(s, k + 1)) = Len(s) - k
    BY <1>4 DEF Rest
  <2>2. \A i \in 1..(Len(s) - k) : Rest(s, k)[i + 1] = Rest(s, k + 1)[i]
    BY <1>4 DEF Rest
  <2> HIDE DEF Rest
  <2>3. PICK r \in Seq(Operation) : r = Rest(s, k) /\ r # <<>> /\ Len(r) = Len(s) - k + 1
    BY <1>1, <1>3
  <2>4. /\ Tail(r) \in Seq(Operation) /\ Len(Tail(r)) = Len(r) - 1
        /\ \A i \in 1..Len(Tail(r)) : Tail(r)[i] = r[i + 1]
    BY <2>3
  <2>5. Len(Tail(r)) = Len(s) - k
    BY <2>3, <2>4, <1>4
  <2>6. \A i \in 1..(Len(s) - k) : Tail(r)[i] = Rest(s, k + 1)[i]
    BY <2>2, <2>3, <2>4, <2>5
  <2> QED
    BY <2>1, <2>3, <2>4, <2>5, <2>6
<1> QED
  BY <1>1, <1>2, <1>3, <1>4

\* A call has all of its operations left when it starts.
LEMMA RestOfAll ==
  ASSUME NEW s \in Seq(Operation)
  PROVE  Rest(s, 1) = s
BY DEF Rest

\* A start before the second operation of a call that starts with one brings it back
\* to the first.
LEMMA RestAfterPoll ==
  ASSUME NEW s \in Seq(Operation), Len(s) > 1, s[1] = Op("start")
  PROVE  <<Op("start")>> \o Rest(s, 2) = Rest(s, 1)
<1>1. Rest(s, 2) \in Seq(Operation) /\ Len(Rest(s, 2)) = Len(s) - 1
  BY DEF Rest
<1>2. Op("start") \in Operation
  BY DEF Op, Operation
<1>3. Rest(s, 1) \in Seq(Operation) /\ Len(Rest(s, 1)) = Len(s)
  BY DEF Rest
<1> DEFINE again == <<Op("start")>> \o Rest(s, 2)
<1>4. again \in Seq(Operation) /\ Len(again) = Len(s)
  BY <1>1, <1>2
<1>5. \A i \in 1..Len(s) : again[i] = Rest(s, 1)[i]
  BY <1>1, <1>2 DEF Rest
<1> HIDE DEF again
<1>6. again = Rest(s, 1)
  BY <1>3, <1>4, <1>5, SameOperations
<1> QED
  BY <1>6 DEF again

\* Where the elements of a sequence of two parts are.
LEMMA TwoParts ==
  ASSUME NEW s \in Seq(Operation), NEW t \in Seq(Operation)
  PROVE  /\ s \o t \in Seq(Operation) /\ Len(s \o t) = Len(s) + Len(t)
         /\ \A i \in 1..Len(s) : (s \o t)[i] = s[i]
         /\ \A i \in 1..Len(t) : (s \o t)[Len(s) + i] = t[i]
<1>1. \A i \in 1..Len(t) : (s \o t)[Len(s) + i] = t[i]
  <2>1. SUFFICES ASSUME NEW i \in 1..Len(t) PROVE (s \o t)[Len(s) + i] = t[i]
    OBVIOUS
  <2>2. /\ Len(s) + i \in 1..(Len(s) + Len(t)) /\ ~(Len(s) + i <= Len(s))
        /\ Len(s) + i - Len(s) = i
    OBVIOUS
  <2> QED
    BY <2>2
<1> QED
  BY <1>1

\* The operations of the calls.
LEMMA ClockScript ==
  /\ I2C_InitMCP79411 \in Seq(Operation) /\ Len(I2C_InitMCP79411) = 5
  /\ I2C_InitMCP79411[1].op = "start"
  /\ I2C_InitMCP79411[2].op = "write" /\ I2C_InitMCP79411[2].byte = 222
  /\ I2C_InitMCP79411[3].op = "write" /\ I2C_InitMCP79411[4].op = "write"
  /\ I2C_InitMCP79411[5].op = "stop"
BY DEF I2C_InitMCP79411, Operation, Op, Write, MCP79411_RTCC_W

\* The thermometer's is a write of its pointer and a read after a new start.
LEMMA TemperatureScript ==
  /\ LM92_GetTemperature \in Seq(Operation) /\ Len(LM92_GetTemperature) = 7
  /\ LM92_GetTemperature[1].op = "start"
  /\ LM92_GetTemperature[2].op = "write" /\ LM92_GetTemperature[2].byte = 146
  /\ LM92_GetTemperature[3].op = "write"
  /\ LM92_GetTemperature[4].op = "restart"
  /\ LM92_GetTemperature[5].op = "write" /\ LM92_GetTemperature[5].byte = 147
  /\ LM92_GetTemperature[6].op = "read"
  /\ LM92_GetTemperature[7].op = "stop"
BY DEF LM92_GetTemperature, Operation, Op, Write, LM92_W, LM92_R

\* The read of the record has 15 operations, the last but one of them the ninth word.
LEMMA ReadScript ==
  /\ I2C_ReadSEEPROM \in Seq(Operation) /\ Len(I2C_ReadSEEPROM) = 15
  /\ I2C_ReadSEEPROM[1] = Op("start")
  /\ I2C_ReadSEEPROM[2].op = "poll" /\ I2C_ReadSEEPROM[2].byte = 174
  /\ I2C_ReadSEEPROM[3].op = "write" /\ I2C_ReadSEEPROM[3].byte = 0
  /\ I2C_ReadSEEPROM[4].op = "restart"
  /\ I2C_ReadSEEPROM[5].op = "write" /\ I2C_ReadSEEPROM[5].byte = 175
  /\ \A k \in 6..14 : I2C_ReadSEEPROM[k].op = "read"
  /\ I2C_ReadSEEPROM[15].op = "stop"
<1> DEFINE addressed == <<Op("start"), WriteUntilAck(MCP79411_EEPROM_W), Write(0),
                          Op("restart"), Write(MCP79411_EEPROM_R)>>
           words == [i \in 1..NbWords |-> Op("read")]
           last == <<Op("stop")>>
<1>1. addressed \in Seq(Operation) /\ Len(addressed) = 5
  BY DEF Operation, Op, Write, WriteUntilAck, MCP79411_EEPROM_W, MCP79411_EEPROM_R
<1>2. words \in Seq(Operation) /\ Len(words) = 9
  BY DEF Operation, Op, NbWords
<1>3. last \in Seq(Operation) /\ Len(last) = 1
  BY DEF Operation, Op
<1>4. /\ addressed[1] = Op("start")
      /\ addressed[2].op = "poll" /\ addressed[2].byte = 174
      /\ addressed[3].op = "write" /\ addressed[3].byte = 0
      /\ addressed[4].op = "restart"
      /\ addressed[5].op = "write" /\ addressed[5].byte = 175
  BY DEF Op, Write, WriteUntilAck, MCP79411_EEPROM_W, MCP79411_EEPROM_R
<1>5. /\ \A i \in 1..9 : words[i].op = "read"
      /\ last[1].op = "stop"
  BY DEF Op, NbWords
<1>6. I2C_ReadSEEPROM = addressed \o words \o last
  BY Zenon DEF I2C_ReadSEEPROM
<1> HIDE DEF addressed, words, last
<1> DEFINE all == addressed \o words
<1>7. /\ all \in Seq(Operation) /\ Len(all) = 14
      /\ \A i \in 1..5 : all[i] = addressed[i]
      /\ \A i \in 1..9 : all[5 + i] = words[i]
  <2>1. /\ all \in Seq(Operation) /\ Len(all) = Len(addressed) + Len(words)
        /\ \A i \in 1..Len(addressed) : all[i] = addressed[i]
        /\ \A i \in 1..Len(words) : all[Len(addressed) + i] = words[i]
    BY <1>1, <1>2, TwoParts, Zenon
  <2> HIDE DEF all
  <2> QED
    BY <1>1, <1>2, <2>1
<1> HIDE DEF all
<1>8. /\ all \o last \in Seq(Operation) /\ Len(all \o last) = 15
      /\ \A i \in 1..14 : (all \o last)[i] = all[i]
      /\ (all \o last)[15] = last[1]
  <2> DEFINE whole == all \o last
  <2>1. /\ whole \in Seq(Operation) /\ Len(whole) = Len(all) + Len(last)
        /\ \A i \in 1..Len(all) : whole[i] = all[i]
        /\ \A i \in 1..Len(last) : whole[Len(all) + i] = last[i]
    BY <1>3, <1>7, TwoParts, Zenon
  <2>2. 1 \in 1..Len(last) /\ 14 + 1 = 15
    BY <1>3
  <2> HIDE DEF whole
  <2>3. /\ whole \in Seq(Operation) /\ Len(whole) = 15
        /\ \A i \in 1..14 : whole[i] = all[i]
        /\ whole[15] = last[1]
    BY <1>3, <1>7, <2>1, <2>2
  <2> QED
    BY <2>3 DEF whole
<1>9. I2C_ReadSEEPROM = all \o last
  BY <1>6 DEF all
<1>10. \A k \in 6..14 : I2C_ReadSEEPROM[k].op = "read"
  <2>1. SUFFICES ASSUME NEW k \in 6..14 PROVE I2C_ReadSEEPROM[k].op = "read"
    OBVIOUS
  <2>2. k - 5 \in 1..9 /\ 5 + (k - 5) = k /\ k \in 1..14
    OBVIOUS
  <2>3. all[5 + (k - 5)] = words[k - 5]
    BY <1>7, <2>2
  <2> QED
    BY <1>5, <1>8, <1>9, <2>2, <2>3
<1>11. \A i \in 1..5 : I2C_ReadSEEPROM[i] = addressed[i]
  <2>1. \A i \in 1..5 : i \in 1..14
    OBVIOUS
  <2> QED
    BY <1>7, <1>8, <1>9, <2>1
<1>12. /\ I2C_ReadSEEPROM[1] = addressed[1] /\ I2C_ReadSEEPROM[2] = addressed[2]
       /\ I2C_ReadSEEPROM[3] = addressed[3] /\ I2C_ReadSEEPROM[4] = addressed[4]
       /\ I2C_ReadSEEPROM[5] = addressed[5]
  <2>1. 1 \in 1..5 /\ 2 \in 1..5 /\ 3 \in 1..5 /\ 4 \in 1..5 /\ 5 \in 1..5
    OBVIOUS
  <2> QED
    BY <1>11, <2>1, Zenon
<1> QED
  BY <1>4, <1>5, <1>8, <1>9, <1>10, <1>12, Zenon

\* A page of n words has n + 4 operations.
LEMMA PageScript ==
  ASSUME NEW p \in 0..LastPage
  PROVE  LET s == PageTransfer(p)
             n == wordsToWriteInPage(p)
         IN  /\ n \in 1..2 /\ EEPROM_PAGE_SIZE * p + n <= NbWords
             /\ s \in Seq(Operation) /\ Len(s) = n + 4
             /\ s[1] = Op("start")
             /\ s[2].op = "poll" /\ s[2].byte = 174
             /\ s[3].op = "write" /\ s[3].byte = EEPROM_PAGE_SIZE * p
             /\ \A k \in 4..(n + 3) : /\ s[k].op = "data"
                                      /\ s[k].byte = EEPROM_PAGE_SIZE * p + (k - 3)
             /\ s[n + 4].op = "stop"
<1> DEFINE n == wordsToWriteInPage(p)
           addressed == <<Op("start"), WriteUntilAck(MCP79411_EEPROM_W),
                          Write(EEPROM_PAGE_SIZE * p)>>
           words == [i \in 1..n |-> WriteWord(EEPROM_PAGE_SIZE * p + i)]
           last == <<Op("stop")>>
<1>0. n \in 1..2 /\ EEPROM_PAGE_SIZE * p + n <= NbWords
  BY Pages DEF wordsToWriteInPage, NbWords, EEPROM_PAGE_SIZE
<1>00. EEPROM_PAGE_SIZE * p \in Nat
  BY Pages DEF EEPROM_PAGE_SIZE
<1>1. addressed \in Seq(Operation) /\ Len(addressed) = 3
  BY <1>00 DEF Operation, Op, Write, WriteUntilAck, MCP79411_EEPROM_W
<1>2. words \in Seq(Operation) /\ Len(words) = n
  <2>1. \A i \in 1..n : WriteWord(EEPROM_PAGE_SIZE * p + i) \in Operation
    BY <1>0, <1>00 DEF Operation, WriteWord
  <2>2. n \in Nat
    BY <1>0
  <2> HIDE DEF n
  <2> QED
    BY <2>1, <2>2
<1>3. last \in Seq(Operation) /\ Len(last) = 1
  BY DEF Operation, Op
<1>4. /\ addressed[1] = Op("start")
      /\ addressed[2].op = "poll" /\ addressed[2].byte = 174
      /\ addressed[3].op = "write" /\ addressed[3].byte = EEPROM_PAGE_SIZE * p
  BY DEF Op, Write, WriteUntilAck, MCP79411_EEPROM_W
<1>5. /\ \A i \in 1..n : words[i].op = "data" /\ words[i].byte = EEPROM_PAGE_SIZE * p + i
      /\ last[1].op = "stop"
  BY DEF Op, WriteWord
<1>6. PageTransfer(p) = addressed \o words \o last
  BY Zenon DEF PageTransfer, Transfer
<1> HIDE DEF addressed, words, last, n
<1> DEFINE all == addressed \o words
<1>7. /\ all \in Seq(Operation) /\ Len(all) = n + 3
      /\ \A i \in 1..3 : all[i] = addressed[i]
      /\ \A i \in 1..n : all[3 + i] = words[i]
  <2>1. /\ all \in Seq(Operation) /\ Len(all) = Len(addressed) + Len(words)
        /\ \A i \in 1..Len(addressed) : all[i] = addressed[i]
        /\ \A i \in 1..Len(words) : all[Len(addressed) + i] = words[i]
    BY <1>1, <1>2, TwoParts, Zenon
  <2> HIDE DEF all
  <2> QED
    BY <1>0, <1>1, <1>2, <2>1
<1> HIDE DEF all
<1>8. /\ all \o last \in Seq(Operation) /\ Len(all \o last) = n + 4
      /\ \A i \in 1..(n + 3) : (all \o last)[i] = all[i]
      /\ (all \o last)[n + 4] = last[1]
  <2> DEFINE whole == all \o last
  <2>1. /\ whole \in Seq(Operation) /\ Len(whole) = Len(all) + Len(last)
        /\ \A i \in 1..Len(all) : whole[i] = all[i]
        /\ \A i \in 1..Len(last) : whole[Len(all) + i] = last[i]
    BY <1>3, <1>7, TwoParts, Zenon
  <2>2. 1 \in 1..Len(last) /\ (n + 3) + 1 = n + 4 /\ n + 3 \in Nat
    BY <1>0, <1>3
  <2> HIDE DEF whole
  <2>3. /\ whole \in Seq(Operation) /\ Len(whole) = n + 4
        /\ \A i \in 1..(n + 3) : whole[i] = all[i]
        /\ whole[n + 4] = last[1]
    BY <1>3, <1>7, <2>1, <2>2
  <2> QED
    BY <2>3 DEF whole
<1>9. PageTransfer(p) = all \o last
  BY <1>6 DEF all
<1>10. \A k \in 4..(n + 3) : /\ PageTransfer(p)[k].op = "data"
                             /\ PageTransfer(p)[k].byte = EEPROM_PAGE_SIZE * p + (k - 3)
  <2>1. SUFFICES ASSUME NEW k \in 4..(n + 3)
                 PROVE  /\ PageTransfer(p)[k].op = "data"
                        /\ PageTransfer(p)[k].byte = EEPROM_PAGE_SIZE * p + (k - 3)
    OBVIOUS
  <2>2. k - 3 \in 1..n /\ k \in 1..(n + 3) /\ 3 + (k - 3) = k
    BY <1>0
  <2>3. all[3 + (k - 3)] = words[k - 3]
    BY <1>7, <2>2
  <2>4. PageTransfer(p)[k] = words[k - 3]
    BY <1>8, <1>9, <2>2, <2>3
  <2> QED
    BY <1>5, <2>2, <2>4
<1>11. \A i \in 1..3 : PageTransfer(p)[i] = addressed[i]
  BY <1>0, <1>7, <1>8, <1>9
<1>12. /\ PageTransfer(p)[1] = addressed[1] /\ PageTransfer(p)[2] = addressed[2]
       /\ PageTransfer(p)[3] = addressed[3]
  <2>1. 1 \in 1..3 /\ 2 \in 1..3 /\ 3 \in 1..3
    OBVIOUS
  <2> QED
    BY <1>11, <2>1, Zenon
<1>13. /\ PageTransfer(p) \in Seq(Operation) /\ Len(PageTransfer(p)) = n + 4
       /\ PageTransfer(p)[n + 4].op = "stop"
  BY <1>5, <1>8, <1>9, Zenon
<1>14. /\ PageTransfer(p)[1] = Op("start")
       /\ PageTransfer(p)[2].op = "poll" /\ PageTransfer(p)[2].byte = 174
       /\ PageTransfer(p)[3].op = "write"
       /\ PageTransfer(p)[3].byte = EEPROM_PAGE_SIZE * p
  BY <1>4, <1>12, Zenon
<1> QED
  BY <1>0, <1>10, <1>13, <1>14, Zenon DEF n
-----------------------------------------------------------------------------
Mode == {"idle", "control", "address", "data", "read"}

ChipOf(m, p, w) == [mode |-> m, pointer |-> p, words |-> w]

\* What a chip d has become of the chip as it was.
Became(d, mode, pointer, words) ==
  d \in Chip /\ d.mode = mode /\ d.pointer = pointer /\ d.words = words

\* A part of what the EEPROM keeps of a transfer changes.
LEMMA ModePart ==
  ASSUME NEW c \in Chip, NEW m
  PROVE  [c EXCEPT !.mode = m] = ChipOf(m, c.pointer, c.words)
BY DEF Chip, ChipOf

\* The same of the words.
LEMMA WordsPart ==
  ASSUME NEW c \in Chip, NEW w
  PROVE  [c EXCEPT !.words = w] = ChipOf(c.mode, c.pointer, w)
BY DEF Chip, ChipOf

\* The same of the address.
LEMMA PointerPart ==
  ASSUME NEW c \in Chip, NEW p
  PROVE  [c EXCEPT !.pointer = p] = ChipOf(c.mode, p, c.words)
BY DEF Chip, ChipOf

\* What the EEPROM keeps, put together from its parts.
LEMMA ChipType ==
  ASSUME NEW m \in Mode, NEW p \in 0..(NbWords - 1), NEW w \in Seq(Nat)
  PROVE  Became(ChipOf(m, p, w), m, p, w)
BY DEF Chip, ChipOf, Mode, Became

\* The parts of what the EEPROM keeps have their types.
LEMMA ChipParts ==
  ASSUME NEW c \in Chip
  PROVE  c.mode \in Mode /\ c.pointer \in 0..(NbWords - 1) /\ c.words \in Seq(Nat)
BY DEF Chip, Mode

\* A start ends what the EEPROM was taking or giving.
LEMMA StartFacts ==
  ASSUME chip \in Chip
  PROVE  Became([chip EXCEPT !.mode = "control", !.words = <<>>],
                "control", chip.pointer, <<>>)
<1> DEFINE c == [chip EXCEPT !.mode = "control"]
<1>1. /\ "control" \in Mode /\ <<>> \in Seq(Nat)
      /\ chip.pointer \in 0..(NbWords - 1) /\ chip.words \in Seq(Nat)
  BY ChipParts DEF Mode
<1>2. c = ChipOf("control", chip.pointer, chip.words)
  BY ModePart, Zenon
<1>3. Became(c, "control", chip.pointer, chip.words)
  BY <1>1, <1>2, ChipType, Zenon
<1> HIDE DEF c
<1>4. [c EXCEPT !.words = <<>>] = ChipOf("control", chip.pointer, <<>>)
  BY <1>3, WordsPart, Zenon DEF Became
<1>5. [chip EXCEPT !.mode = "control", !.words = <<>>]
        = ChipOf("control", chip.pointer, <<>>)
  BY <1>4, Zenon DEF c
<1> QED
  BY <1>1, <1>5, ChipType, Zenon

\* A word is taken or given.
LEMMA WordFacts ==
  ASSUME chip \in Chip, NEW word \in Nat
  PROVE  Became([chip EXCEPT !.words = Append(@, word)],
                chip.mode, chip.pointer, Append(chip.words, word))
<1> DEFINE more == Append(chip.words, word)
<1>1. /\ chip.pointer \in 0..(NbWords - 1) /\ chip.words \in Seq(Nat)
      /\ chip.mode \in Mode
  BY ChipParts
<1>2. more \in Seq(Nat)
  BY <1>1
<1> HIDE DEF more
<1>3. [chip EXCEPT !.words = more] = ChipOf(chip.mode, chip.pointer, more)
  BY WordsPart, Zenon
<1>4. [chip EXCEPT !.words = Append(@, word)] = [chip EXCEPT !.words = more]
  BY Zenon DEF more
<1>5. Became([chip EXCEPT !.words = more], chip.mode, chip.pointer, more)
  BY <1>1, <1>2, <1>3, ChipType, Zenon
<1> QED
  BY <1>4, <1>5, Zenon DEF more

\* What the EEPROM makes of a byte, told by the mode it is in.
LEMMA HearingFacts ==
  ASSUME chip \in Chip, NEW byte
  PROVE  /\ chip.mode \in {"idle", "read"} => Hearing(byte) = chip
         /\ chip.mode = "control" =>
              /\ Acknowledges /\ byte = 174 =>
                   Became(Hearing(byte), "address", chip.pointer, chip.words)
              /\ Acknowledges /\ byte = 175 =>
                   Became(Hearing(byte), "read", chip.pointer, chip.words)
              /\ ~Acknowledges \/ byte \notin {174, 175} =>
                   Became(Hearing(byte), "idle", chip.pointer, chip.words)
         /\ chip.mode = "address" /\ byte \in 0..(NbWords - 1) =>
              Became(Hearing(byte), "data", byte, chip.words)
         /\ chip.mode = "data" /\ byte \in Nat =>
              Became(Hearing(byte), "data", chip.pointer, Append(chip.words, byte))
<1>1. chip.mode \in {"idle", "read"} => Hearing(byte) = chip
  BY DEF Hearing
<1>2. ASSUME chip.mode = "control"
      PROVE  Hearing(byte) = [chip EXCEPT !.mode =
               IF Acknowledges /\ byte = 174 THEN "address"
               ELSE IF Acknowledges /\ byte = 175 THEN "read" ELSE "idle"]
  BY <1>2 DEF Hearing, MCP79411_EEPROM_W, MCP79411_EEPROM_R
<1>3. chip.mode = "address" =>
        Hearing(byte) = [chip EXCEPT !.mode = "data", !.pointer = byte]
  BY DEF Hearing
<1>4. chip.mode = "data" => Hearing(byte) = [chip EXCEPT !.words = Append(@, byte)]
  BY DEF Hearing
<1>5. chip.pointer \in 0..(NbWords - 1) /\ chip.words \in Seq(Nat)
  BY DEF Chip
<1>6. ASSUME NEW m \in Mode
      PROVE  Became([chip EXCEPT !.mode = m], m, chip.pointer, chip.words)
  BY <1>5, ModePart, ChipType, Zenon
<1>7. ASSUME byte \in 0..(NbWords - 1)
      PROVE  Became([chip EXCEPT !.mode = "data", !.pointer = byte],
                    "data", byte, chip.words)
  <2> DEFINE c == [chip EXCEPT !.mode = "data"]
  <2>1. "data" \in Mode
    BY DEF Mode
  <2>2. Became(c, "data", chip.pointer, chip.words)
    BY <1>6, <2>1, Zenon
  <2> HIDE DEF c
  <2>3. [c EXCEPT !.pointer = byte] = ChipOf("data", byte, chip.words)
    BY <2>2, PointerPart, Zenon DEF Became
  <2>4. Became([c EXCEPT !.pointer = byte], "data", byte, chip.words)
    BY <1>5, <1>7, <2>1, <2>3, ChipType, Zenon
  <2> QED
    BY <2>4, Zenon DEF c
<1>8. chip.mode = "control" =>
        /\ Acknowledges /\ byte = 174 =>
             Became(Hearing(byte), "address", chip.pointer, chip.words)
        /\ Acknowledges /\ byte = 175 =>
             Became(Hearing(byte), "read", chip.pointer, chip.words)
        /\ ~Acknowledges \/ byte \notin {174, 175} =>
             Became(Hearing(byte), "idle", chip.pointer, chip.words)
  BY <1>2, <1>6 DEF Mode
<1> QED
  BY <1>1, <1>3, <1>4, <1>7, <1>8, WordFacts

\* What the operation that comes next does.
LEMMA OperationStep ==
  ASSUME Transaction, NEW s \in Seq(Operation), NEW name, NEW k,
         Doing(name, s, k)
  PROVE  LET o == s[k].op IN
         /\ o # "stop" => UNCHANGED vars /\ call' = name
         /\ \/ o \in {"start", "restart", "write", "data", "read"}
            \/ o = "poll" /\ Acknowledges
            => script' = Tail(script)
         /\ o = "poll" /\ ~Acknowledges => script' = <<Op("start")>> \o script
         /\ o \in {"start", "restart"} =>
              /\ received' = received
              /\ chip' = [chip EXCEPT !.mode = "control", !.words = <<>>]
         /\ o \in {"write", "poll"} => received' = received /\ chip' = Hearing(s[k].byte)
         /\ o = "data" =>
              received' = received /\ chip' = Hearing(systeme_info[Layout[s[k].byte]])
         /\ o = "read" =>
              \E word \in OnBus : /\ received' = Append(received, word)
                                  /\ chip' = [chip EXCEPT !.words = Append(@, word)]
         /\ o = "stop" => ClockStarted \/ RecordRead \/ TemperatureRead \/ PageSent
<1>1. call = name /\ script # <<>> /\ Head(script) = s[k]
  BY RestFacts DEF Doing
<1>2. \A op : IsNext(op) <=> s[k].op = op
  BY <1>1 DEF IsNext
<1>3. CASE i2c_start \/ i2c_reStart
  BY <1>1, <1>2, <1>3 DEF i2c_start, i2c_reStart
<1>4. CASE i2c_write
  BY <1>1, <1>2, <1>4 DEF i2c_write
<1>5. CASE WaitForEeprom
  BY <1>1, <1>2, <1>5 DEF WaitForEeprom
<1>6. CASE i2c_read
  BY <1>1, <1>2, <1>6 DEF i2c_read
<1>7. CASE ClockStarted \/ RecordRead \/ TemperatureRead \/ PageSent
  BY <1>1, <1>2, <1>7 DEF ClockStarted, RecordRead, TemperatureRead, PageSent, i2c_stop
<1> QED
  BY <1>3, <1>4, <1>5, <1>6, <1>7 DEF Transaction

\* A call goes on to its next operation.
LEMMA GoesOn ==
  ASSUME NEW s \in Seq(Operation), NEW name, NEW k, Doing(name, s, k), k < Len(s),
         script' = Tail(script)
  PROVE  k + 1 \in 1..Len(s) /\ script' = Rest(s, k + 1)
BY RestFacts DEF Doing

\* Nothing of the clock's start reaches the record, whatever a reset left the EEPROM
\* in, and the record is read next.
LEMMA ClockStep ==
  ASSUME chip \in Chip, NEW k \in 1..15, ClockStarting(k), Transaction
  PROVE  BusInv' /\ UNCHANGED vars
<1> DEFINE s == I2C_InitMCP79411
           o == s[k].op
<1>1. /\ Doing("init", s, k) /\ s \in Seq(Operation) /\ Len(s) = 5 /\ k \in 1..5
      /\ at = "boot"
  BY ClockScript DEF ClockStarting, Doing
<1>2. s' = s
  BY DEF I2C_InitMCP79411
<1>3. /\ k = 1 => o = "start"
      /\ k \in {2, 3, 4} => o = "write"
      /\ k = 5 => o = "stop"
      /\ k = 2 => s[k].byte = 222
  BY <1>1, ClockScript
<1> HIDE DEF s
<1>4. ASSUME k < 5, chip' \in Chip, k = 1 => chip'.mode = "control",
             k > 1 => chip'.mode = "idle", o # "stop", script' = Tail(script)
      PROVE  BusInv' /\ UNCHANGED vars
  <2>1. /\ UNCHANGED vars /\ call' = "init"
        /\ k + 1 \in 1..5 /\ script' = Rest(s, k + 1)
    BY <1>1, <1>4, OperationStep, GoesOn
  <2>2. Doing("init", s, k + 1)' /\ at' = "boot"
    BY <1>1, <1>2, <2>1 DEF Doing, vars, ram
  <2>3. ClockStarting(k + 1)'
    BY <1>4, <2>1, <2>2 DEF ClockStarting, s
  <2>4. k + 1 \in 1..15
    BY <2>1
  <2> QED
    BY <1>4, <2>1, <2>3, <2>4 DEF BusInv
<1>5. CASE k = 1
  <2>1. script' = Tail(script) /\ chip' = [chip EXCEPT !.mode = "control", !.words = <<>>]
    BY <1>1, <1>3, <1>5, OperationStep
  <2> QED
    BY <1>3, <1>4, <1>5, <2>1, StartFacts DEF Became
<1>6. CASE k \in {2, 3, 4}
  <2>1. script' = Tail(script) /\ chip' = Hearing(s[k].byte)
    BY <1>1, <1>3, <1>6, OperationStep
  <2>2. /\ k = 2 => chip.mode = "control"
        /\ k # 2 => chip.mode = "idle"
    BY <1>6 DEF ClockStarting
  <2>3. chip' \in Chip /\ chip'.mode = "idle"
    BY <1>3, <1>6, <2>1, <2>2, HearingFacts DEF Became
  <2> QED
    BY <1>3, <1>4, <1>6, <2>1, <2>3
<1>7. CASE k = 5
  <2>1. ClockStarted
    BY <1>1, <1>3, <1>7, OperationStep
    DEF Doing, RecordRead, TemperatureRead, PageSent, i2c_stop
  <2>2. chip.mode = "idle"
    BY <1>7 DEF ClockStarting
  <2>3. UNCHANGED <<pending, sent>> /\ chip' = Idle
    BY <2>1, <2>2 DEF ClockStarted, i2c_stop, ChipStopped
  <2>4. UNCHANGED vars
    BY <2>1, <2>3 DEF ClockStarted, vars, eeprom
  <2>5. chip' \in Chip
    BY <2>3 DEF Idle, Chip, NbWords
  <2>6. RecordReading(1)'
    <3>1. call' = "read" /\ script' = I2C_ReadSEEPROM /\ received' = <<>>
      BY <2>1 DEF ClockStarted, Calls
    <3>2. I2C_ReadSEEPROM' = I2C_ReadSEEPROM
      BY DEF I2C_ReadSEEPROM
    <3>3. Doing("read", I2C_ReadSEEPROM, 1)'
      BY <3>1, <3>2, ReadScript, RestOfAll DEF Doing
    <3>4. at' = "boot"
      BY <1>1, <2>4 DEF vars, ram
    <3> QED
      BY <3>1, <3>3, <3>4 DEF RecordReading
  <2> QED
    BY <2>4, <2>5, <2>6 DEF BusInv
<1> QED
  BY <1>1, <1>5, <1>6, <1>7

\* A word after those before it, in the order of the record.
LEMMA WordsInOrder ==
  ASSUME NEW r \in [Field -> Nat], NEW a \in Nat, NEW n \in Nat, a + n < NbWords
  PROVE  /\ WordsFrom(r, a, n) \in Seq(Nat) /\ Len(WordsFrom(r, a, n)) = n
         /\ r[Layout[a + n + 1]] \in Nat
         /\ Append(WordsFrom(r, a, n), r[Layout[a + n + 1]]) = WordsFrom(r, a, n + 1)
<1> DEFINE f == WordsFrom(r, a, n)
           g == WordsFrom(r, a, n + 1)
           word == r[Layout[a + n + 1]]
<1>1. \A i \in 1..NbWords : Layout[i] \in Field
  BY DEF NbWords, Layout, Field
<1>2. \A i \in 1..NbWords : r[Layout[i]] \in Nat
  BY <1>1
<1>3. NbWords = 9
  BY DEF NbWords
<1>4. a + n + 1 \in 1..NbWords /\ \A i \in 1..(n + 1) : a + i \in 1..NbWords
  BY <1>3
<1>5. f \in Seq(Nat) /\ Len(f) = n
  <2>1. \A i \in 1..n : r[Layout[a + i]] \in Nat
    BY <1>2, <1>4
  <2> QED
    BY <2>1 DEF WordsFrom
<1>6. g \in Seq(Nat) /\ Len(g) = n + 1
  <2>1. n + 1 \in Nat /\ \A i \in 1..(n + 1) : r[Layout[a + i]] \in Nat
    BY <1>2, <1>4
  <2> QED
    BY <2>1 DEF WordsFrom
<1>7. word \in Nat
  BY <1>2, <1>4
<1>8. /\ \A i \in 1..n : g[i] = f[i]
      /\ g[n + 1] = word
  <2>1. a + (n + 1) = a + n + 1 /\ n + 1 \in 1..(n + 1)
        /\ \A i \in 1..n : i \in 1..(n + 1)
    OBVIOUS
  <2> QED
    BY <2>1 DEF WordsFrom
<1> HIDE DEF f, g, word
<1>9. /\ Append(f, word) \in Seq(Nat) /\ Len(Append(f, word)) = n + 1
      /\ \A i \in 1..n : Append(f, word)[i] = f[i]
      /\ Append(f, word)[n + 1] = word
  BY <1>5, <1>7
<1>10. \A i \in 1..(n + 1) : Append(f, word)[i] = g[i]
  <2>1. \A i \in 1..(n + 1) : i \in 1..n \/ i = n + 1
    OBVIOUS
  <2> QED
    BY <1>8, <1>9, <2>1
<1>11. Append(f, word) = g
  BY <1>6, <1>9, <1>10
<1> QED
  BY <1>5, <1>7, <1>11 DEF f, g, word

\* What the program has read of the record is what the memory holds.
LEMMA RecordFound ==
  ASSUME TypeOK, received = WordsFrom(memory, 0, NbWords)
  PROVE  [f \in Field |-> WordRead(f)] = memory
<1>1. ASSUME NEW f \in Field PROVE WordRead(f) = memory[f]
  <2>1. \E i \in 1..NbWords : Layout[i] = f
    <3>1. /\ Layout[1] = "nbr_game_all_time" /\ Layout[2] = "nbr_game_session"
          /\ Layout[3] = "best_time_score" /\ Layout[4] = "last_time_score"
          /\ Layout[5] = "LM92_Temp" /\ Layout[6] = "DS18B20_Stepper_1"
          /\ Layout[7] = "DS18B20_Stepper_2" /\ Layout[8] = "sys_brightness"
          /\ Layout[9] = "Magic"
      BY DEF Layout
    <3>2. \A i \in 1..9 : i \in 1..NbWords
      BY DEF NbWords
    <3> QED
      BY <3>1, <3>2 DEF Field
  <2> DEFINE j == CHOOSE i \in 1..NbWords : Layout[i] = f
  <2>2. j \in 1..NbWords /\ Layout[j] = f
    BY <2>1
  <2> HIDE DEF j
  <2>3. received[j] = memory[Layout[j]]
    <3>1. 0 + j = j
      BY <2>2 DEF NbWords
    <3> QED
      BY <2>2, <3>1 DEF WordsFrom
  <2> QED
    BY <2>2, <2>3 DEF j, WordRead
<1>2. [f \in Field |-> WordRead(f)] = [f \in Field |-> memory[f]]
  BY <1>1
<1> QED
  BY <1>2 DEF TypeOK

\* Byte by byte the record is read as it is in the memory.
LEMMA RecordStep ==
  ASSUME TypeOK, chip \in Chip, NEW k \in 1..15, RecordReading(k), Transaction
  PROVE  BusInv' /\ (UNCHANGED vars \/ Check_If_Memory_exist)
<1> DEFINE s == I2C_ReadSEEPROM
           o == s[k].op
<1>1. /\ Doing("read", s, k) /\ s \in Seq(Operation) /\ Len(s) = 15
      /\ at = "boot" /\ s[1] = Op("start")
  BY ReadScript DEF RecordReading
<1>2. s' = s
  BY DEF I2C_ReadSEEPROM
<1>3. /\ k = 1 => o = "start"
      /\ k = 2 => o = "poll" /\ s[k].byte = 174
      /\ k = 3 => o = "write" /\ s[k].byte = 0
      /\ k = 4 => o = "restart"
      /\ k = 5 => o = "write" /\ s[k].byte = 175
      /\ k \in 6..14 => o = "read"
      /\ k = 15 => o = "stop"
  BY ReadScript DEF Op
<1> HIDE DEF s
<1>4. ASSUME k < 15
      PROVE  UNCHANGED vars /\ call' = "read" /\ at' = "boot"
  <2>1. o # "stop"
    BY <1>3, <1>4
  <2> QED
    BY <1>1, <2>1, OperationStep DEF vars, ram
<1>5. ASSUME k < 15, script' = Tail(script)
      PROVE  k + 1 \in 1..15 /\ Doing("read", s, k + 1)'
  <2>1. k + 1 \in 1..15 /\ script' = Rest(s, k + 1)
    BY <1>1, <1>5, GoesOn
  <2> QED
    BY <1>1, <1>2, <1>4, <1>5, <2>1 DEF Doing
<1>6. ASSUME NEW n \in 1..15, RecordReading(n)', chip' \in Chip, k < 15
      PROVE  BusInv' /\ UNCHANGED vars
  BY <1>4, <1>6 DEF BusInv
<1>7. CASE k = 1
  <2>1. /\ script' = Tail(script) /\ received' = received
        /\ chip' = [chip EXCEPT !.mode = "control", !.words = <<>>]
    BY <1>1, <1>3, <1>7, OperationStep
  <2>2. Became(chip', "control", chip.pointer, <<>>)
    BY <2>1, StartFacts
  <2>3. RecordReading(2)'
    BY <1>4, <1>5, <1>7, <2>1, <2>2 DEF RecordReading, Became, s
  <2> QED
    BY <1>6, <1>7, <2>2, <2>3 DEF Became
<1>8. CASE k = 2 /\ Acknowledges
  <2>1. script' = Tail(script) /\ received' = received /\ chip' = Hearing(174)
    BY <1>1, <1>3, <1>8, OperationStep
  <2>2. Became(chip', "address", chip.pointer, chip.words)
    BY <1>8, <2>1, HearingFacts DEF RecordReading
  <2>3. pending' = {}
    BY <1>4, <1>8 DEF Acknowledges, vars, eeprom
  <2>4. RecordReading(3)'
    BY <1>4, <1>5, <1>8, <2>1, <2>2, <2>3 DEF RecordReading, Became, s
  <2> QED
    BY <1>6, <1>8, <2>2, <2>4 DEF Became
<1>9. CASE k = 2 /\ ~Acknowledges
  <2>1. /\ script' = <<Op("start")>> \o script /\ received' = received
        /\ chip' = Hearing(174)
    BY <1>1, <1>3, <1>9, OperationStep
  <2>2. Became(chip', "idle", chip.pointer, chip.words)
    BY <1>9, <2>1, HearingFacts DEF RecordReading
  <2>3. script' = Rest(s, 1)
    <3>1. <<Op("start")>> \o Rest(s, 2) = Rest(s, 1)
      <4>1. Len(s) > 1
        BY <1>1
      <4> QED
        BY <1>1, <4>1, RestAfterPoll, Zenon
    <3> QED
      BY <1>1, <1>9, <2>1, <3>1, Zenon DEF Doing
  <2>4. Doing("read", s, 1)'
    BY <1>1, <1>2, <1>4, <1>9, <2>3 DEF Doing
  <2>5. RecordReading(1)'
    BY <1>4, <1>9, <2>1, <2>4 DEF RecordReading, s
  <2> QED
    BY <1>6, <1>9, <2>2, <2>5 DEF Became
<1>10. CASE k = 3
  <2>1. script' = Tail(script) /\ received' = received /\ chip' = Hearing(0)
    BY <1>1, <1>3, <1>10, OperationStep
  <2>2. 0 \in 0..(NbWords - 1)
    BY DEF NbWords
  <2>3. Became(chip', "data", 0, chip.words)
    BY <1>10, <2>1, <2>2, HearingFacts DEF RecordReading
  <2>4. pending' = {}
    BY <1>4, <1>10 DEF RecordReading, vars, eeprom
  <2>5. RecordReading(4)'
    BY <1>4, <1>5, <1>10, <2>1, <2>3, <2>4 DEF RecordReading, Became, s
  <2> QED
    BY <1>6, <1>10, <2>3, <2>5 DEF Became
<1>11. CASE k = 4
  <2>1. /\ script' = Tail(script) /\ received' = received
        /\ chip' = [chip EXCEPT !.mode = "control", !.words = <<>>]
    BY <1>1, <1>3, <1>11, OperationStep
  <2>2. Became(chip', "control", chip.pointer, <<>>)
    BY <2>1, StartFacts
  <2>3. pending' = {}
    BY <1>4, <1>11 DEF RecordReading, vars, eeprom
  <2>4. RecordReading(5)'
    BY <1>4, <1>5, <1>11, <2>1, <2>2, <2>3 DEF RecordReading, Became, s
  <2> QED
    BY <1>6, <1>11, <2>2, <2>4 DEF Became
<1>12. CASE k = 5
  <2>1. script' = Tail(script) /\ received' = received /\ chip' = Hearing(175)
    BY <1>1, <1>3, <1>12, OperationStep
  <2>2. Became(chip', "read", chip.pointer, chip.words)
    BY <1>12, <2>1, HearingFacts DEF RecordReading, Acknowledges
  <2>3. pending' = {}
    BY <1>4, <1>12 DEF RecordReading, vars, eeprom
  <2>4. received' = <<>> /\ chip'.words = <<>> /\ chip'.pointer = 0
    BY <1>12, <2>1, <2>2 DEF RecordReading, Became
  <2>5. WordsFrom(memory', 0, 6 - 6) = <<>>
    <3>1. 6 - 6 = 0 /\ 1..0 = {}
      OBVIOUS
    <3> QED
      BY <3>1 DEF WordsFrom
  <2>6. RecordReading(6)'
    BY <1>4, <1>5, <1>12, <2>2, <2>1, <2>3, <2>4, <2>5 DEF RecordReading, Became, s
  <2> QED
    BY <1>6, <1>12, <2>2, <2>6 DEF Became
<1>13. CASE k \in 6..14
  <2>1. PICK word \in OnBus :
          /\ script' = Tail(script) /\ received' = Append(received, word)
          /\ chip' = [chip EXCEPT !.words = Append(@, word)]
    BY <1>1, <1>3, <1>13, OperationStep
  <2>2. /\ chip.mode = "read" /\ chip.pointer = 0 /\ chip.words = received
        /\ received = WordsFrom(memory, 0, k - 6) /\ pending = {}
    BY <1>13 DEF RecordReading
  <2>3. k - 6 \in Nat /\ 0 + (k - 6) < NbWords /\ (k - 6) + 1 = (k + 1) - 6 /\ 0 \in Nat
    BY <1>13 DEF NbWords
  <2>4. /\ Len(received) = k - 6
        /\ memory[Layout[0 + (k - 6) + 1]] \in Nat
        /\ Append(received, memory[Layout[0 + (k - 6) + 1]])
             = WordsFrom(memory, 0, (k - 6) + 1)
    <3>1. memory \in [Field -> Nat]
      BY DEF TypeOK
    <3> QED
      BY <2>2, <2>3, <3>1, WordsInOrder
  <2>5. word = memory[Layout[0 + (k - 6) + 1]]
    BY <1>13, <2>1, <2>2, <2>4 DEF OnBus
  <2>6. received' = WordsFrom(memory, 0, (k + 1) - 6)
    BY <2>1, <2>3, <2>4, <2>5, Zenon
  <2>7. word \in Nat
    BY <2>4, <2>5, Zenon
  <2>8. Became(chip', "read", 0, received')
    BY <2>1, <2>2, <2>7, WordFacts
  <2>9. pending' = {} /\ memory' = memory
    BY <1>4, <1>13, <2>2 DEF vars, eeprom
  <2>10. k < 15 /\ k + 1 \in 1..15 /\ ~(k + 1 \in {2, 5}) /\ k + 1 # 3 /\ k + 1 # 4
         /\ ~(k + 1 <= 6) /\ ~(k + 1 \in 2..6)
    BY <1>13
  <2>11. RecordReading(k + 1)'
    BY <1>4, <1>5, <2>1, <2>6, <2>8, <2>9, <2>10 DEF RecordReading, Became, s
  <2> QED
    BY <1>6, <2>8, <2>10, <2>11 DEF Became
<1>14. CASE k = 15
  <2>1. RecordRead
    <3>1. ClockStarted \/ RecordRead \/ TemperatureRead \/ PageSent
      BY <1>1, <1>3, <1>14, OperationStep
    <3>2. call = "read"
      BY <1>1 DEF Doing
    <3> QED
      BY <3>1, <3>2 DEF ClockStarted, TemperatureRead, PageSent, i2c_stop
  <2>2. /\ chip.mode = "read" /\ pending = {}
        /\ received = WordsFrom(memory, 0, 15 - 6)
    BY <1>14 DEF RecordReading
  <2>3. UNCHANGED <<pending, sent>> /\ chip' = Idle
    BY <2>1, <2>2 DEF RecordRead, i2c_stop, ChipStopped
  <2>4. 15 - 6 = NbWords
    BY DEF NbWords
  <2>5. [f \in Field |-> WordRead(f)] = memory
    BY <2>2, <2>4, RecordFound
  <2>6. Check_If_Memory_exist
    BY <1>1, <2>1, <2>2, <2>3, <2>5
    DEF RecordRead, Check_If_Memory_exist, Acknowledges, Answer, eeprom
  <2>7. chip' \in Chip
    BY <2>3 DEF Idle, Chip, NbWords
  <2>8. Resting'
    BY <2>1 DEF RecordRead, Returns, Calls, Resting
  <2> QED
    BY <2>6, <2>7, <2>8 DEF BusInv
<1> QED
  BY <1>7, <1>8, <1>9, <1>10, <1>11, <1>12, <1>13, <1>14

\* The thermometer's answer is what comes into the record, and the EEPROM takes no
\* part in it, whatever it is doing.
LEMMA TemperatureStep ==
  ASSUME chip \in Chip, NEW k \in 1..15, TemperatureReading(k), Transaction
  PROVE  BusInv' /\ (UNCHANGED vars \/ \E t \in Temperatures : ReadTemperature(t))
<1> DEFINE s == LM92_GetTemperature
           o == s[k].op
<1>1. /\ Doing("temperature", s, k) /\ s \in Seq(Operation) /\ Len(s) = 7 /\ k \in 1..7
      /\ at \in {"run", "over"}
  BY TemperatureScript DEF TemperatureReading, Doing
<1>2. s' = s
  BY DEF LM92_GetTemperature
<1>3. /\ k = 1 => o = "start"
      /\ k \in {2, 3, 5} => o = "write"
      /\ k = 2 => s[k].byte = 146
      /\ k = 4 => o = "restart"
      /\ k = 5 => s[k].byte = 147
      /\ k = 6 => o = "read"
      /\ k = 7 => o = "stop"
  BY <1>1, TemperatureScript
<1> HIDE DEF s
<1>4. ASSUME k < 7
      PROVE  UNCHANGED vars /\ call' = "temperature" /\ at' \in {"run", "over"}
  <2>1. o # "stop"
    BY <1>1, <1>3, <1>4
  <2> QED
    BY <1>1, <2>1, OperationStep DEF vars, ram
<1>5. ASSUME k < 7, script' = Tail(script)
      PROVE  k + 1 \in 1..7 /\ Doing("temperature", s, k + 1)'
  <2>1. k + 1 \in 1..7 /\ script' = Rest(s, k + 1)
    BY <1>1, <1>5, GoesOn
  <2> QED
    BY <1>1, <1>2, <1>4, <1>5, <2>1 DEF Doing
<1>6. ASSUME NEW n \in 1..15, TemperatureReading(n)', chip' \in Chip, k < 7
      PROVE  BusInv' /\ UNCHANGED vars
  BY <1>4, <1>6 DEF BusInv
<1>7. CASE k \in {1, 4}
  <2>1. /\ script' = Tail(script) /\ received' = received
        /\ chip' = [chip EXCEPT !.mode = "control", !.words = <<>>]
    BY <1>1, <1>3, <1>7, OperationStep
  <2>2. Became(chip', "control", chip.pointer, <<>>)
    BY <2>1, StartFacts
  <2>3. k + 1 \in 1..15 /\ TemperatureReading(k + 1)'
    BY <1>4, <1>5, <1>7, <2>1, <2>2 DEF TemperatureReading, Became, s
  <2> QED
    BY <1>6, <1>7, <2>2, <2>3 DEF Became
<1>8. CASE k \in {2, 3, 5}
  <2>1. script' = Tail(script) /\ received' = received /\ chip' = Hearing(s[k].byte)
    BY <1>1, <1>3, <1>8, OperationStep
  <2>2. /\ k \in {2, 5} => chip.mode = "control" /\ s[k].byte \notin {174, 175}
        /\ k = 3 => chip.mode = "idle"
    BY <1>3, <1>8 DEF TemperatureReading
  <2>3. chip' \in Chip /\ chip'.mode = "idle"
    BY <1>8, <2>1, <2>2, HearingFacts DEF Became
  <2>4. k + 1 \in 1..15 /\ TemperatureReading(k + 1)'
    BY <1>4, <1>5, <1>8, <2>1, <2>3 DEF TemperatureReading, s
  <2> QED
    BY <1>6, <1>8, <2>3, <2>4
<1>9. CASE k = 6
  <2>1. PICK word \in OnBus :
          /\ script' = Tail(script) /\ received' = Append(received, word)
          /\ chip' = [chip EXCEPT !.words = Append(@, word)]
    BY <1>1, <1>3, <1>9, OperationStep
  <2>2. chip.mode = "idle" /\ received = <<>> /\ call = "temperature"
    BY <1>1, <1>9 DEF TemperatureReading, Doing
  <2>3. word \in Temperatures /\ word \in Nat
    BY <2>1, <2>2, EepromAssumption DEF OnBus
  <2>4. chip' \in Chip /\ chip'.mode = "idle"
    BY <2>1, <2>2, <2>3, WordFacts DEF Became
  <2>5. received' = <<word>>
    BY <2>1, <2>2
  <2>6. TemperatureReading(7)'
    BY <1>4, <1>5, <1>9, <2>1, <2>3, <2>4, <2>5 DEF TemperatureReading, s
  <2> QED
    BY <1>6, <1>9, <2>4, <2>6
<1>10. CASE k = 7
  <2>1. TemperatureRead
    <3>1. ClockStarted \/ RecordRead \/ TemperatureRead \/ PageSent
      BY <1>1, <1>3, <1>10, OperationStep
    <3>2. call = "temperature"
      BY <1>1 DEF Doing
    <3> QED
      BY <3>1, <3>2 DEF ClockStarted, RecordRead, PageSent, i2c_stop
  <2>2. PICK t \in Temperatures : received = <<t>>
    BY <1>10 DEF TemperatureReading
  <2>3. chip.mode = "idle"
    BY <1>10 DEF TemperatureReading
  <2>4. UNCHANGED <<pending, sent>> /\ chip' = Idle
    BY <2>1, <2>3 DEF TemperatureRead, i2c_stop, ChipStopped
  <2>5. ReadTemperature(t)
    <3>1. received[1] = t
      BY <2>2
    <3> QED
      BY <1>1, <2>1, <2>4, <3>1 DEF TemperatureRead, ReadTemperature, eeprom
  <2>6. chip' \in Chip
    BY <2>4 DEF Idle, Chip, NbWords
  <2>7. Resting'
    BY <1>1, <2>1 DEF TemperatureRead, Returns, Calls, Resting
  <2> QED
    BY <2>5, <2>6, <2>7 DEF BusInv
<1> QED
  BY <1>1, <1>7, <1>8, <1>9, <1>10

\* The page is taken whole, and as it is in the record.
LEMMA PageTaken ==
  ASSUME TypeOK, ChipStopped, chip.mode = "data",
         chip.pointer = EEPROM_PAGE_SIZE * pageIndex,
         chip.words = WordsFrom(systeme_info, EEPROM_PAGE_SIZE * pageIndex,
                                wordsToWriteInPage(pageIndex))
  PROVE  pending' = Page(pageIndex) /\ sent' = systeme_info /\ chip' = Idle
<1> DEFINE n == wordsToWriteInPage(pageIndex)
           taken(i) == Layout[chip.pointer + i]
<1>1. n \in 1..2 /\ DOMAIN chip.words = 1..n
  BY PageScript DEF TypeOK, WordsFrom
<1>2. chip.words # <<>>
  BY <1>1
<1>3. /\ pending' = {taken(i) : i \in DOMAIN chip.words}
      /\ sent' = [f \in Field |->
           IF f \in pending'
           THEN chip.words[CHOOSE i \in DOMAIN chip.words : taken(i) = f]
           ELSE systeme_info[f]]
      /\ chip' = Idle
  BY <1>2, Zenon DEF ChipStopped
<1>4. pending' = Page(pageIndex)
  <2>1. pending' = {taken(i) : i \in 1..n}
    BY <1>1, <1>3
  <2> QED
    BY <2>1, Zenon DEF Page
<1>5. ASSUME NEW f \in Field PROVE sent'[f] = systeme_info[f]
  <2> DEFINE j == CHOOSE i \in DOMAIN chip.words : taken(i) = f
  <2>1. CASE f \in pending'
    <3>1. j \in DOMAIN chip.words /\ taken(j) = f
      BY <1>3, <2>1, Zenon
    <3>2. sent'[f] = chip.words[j]
      BY <1>3, <2>1, Zenon
    <3> HIDE DEF j
    <3>3. chip.words[j] = systeme_info[taken(j)]
      BY <1>1, <3>1, Zenon DEF WordsFrom
    <3> QED
      BY <3>1, <3>2, <3>3, Zenon
  <2>2. CASE f \notin pending'
    BY <1>3, <2>2, Zenon
  <2> QED
    BY <2>1, <2>2
<1>6. sent' = [f \in Field |-> sent'[f]]
  BY <1>3
<1>7. [f \in Field |-> sent'[f]] = systeme_info
  BY <1>5 DEF TypeOK
<1> QED
  BY <1>3, <1>4, <1>6, <1>7, Zenon

\* Byte by byte a page is sent when the one before is programmed, and no other way.
LEMMA PageStep ==
  ASSUME TypeOK, chip \in Chip, NEW k \in 1..15, PageSending(k), Transaction
  PROVE  BusInv' /\ (UNCHANGED vars \/ SendPage)
<1> DEFINE s == PageTransfer(pageIndex)
           n == wordsToWriteInPage(pageIndex)
           first == EEPROM_PAGE_SIZE * pageIndex
           o == s[k].op
<1>1. /\ Doing("page", s, k) /\ s \in Seq(Operation) /\ Len(s) = n + 4 /\ k \in 1..(n + 4)
      /\ at = "save" /\ s[1] = Op("start") /\ pageIndex \in 0..LastPage
      /\ n \in 1..2 /\ first + n <= NbWords
  BY PageScript DEF PageSending, Doing, TypeOK
<1>2. /\ k = 1 => o = "start"
      /\ k = 2 => o = "poll" /\ s[k].byte = 174
      /\ k = 3 => o = "write" /\ s[k].byte = first
      /\ k \in 4..(n + 3) => o = "data" /\ s[k].byte = first + (k - 3)
      /\ k = n + 4 => o = "stop"
  BY <1>1, PageScript DEF Op
<1>3. first \in Nat /\ first \in 0..(NbWords - 1)
  BY <1>1, Pages DEF EEPROM_PAGE_SIZE, NbWords
<1>4. pageIndex' = pageIndex => s' = s
  BY DEF PageTransfer, Transfer, wordsToWriteInPage
<1> HIDE DEF s, n, first
<1>5. ASSUME k < n + 4
      PROVE  UNCHANGED vars /\ call' = "page" /\ at' = "save" /\ s' = s
  <2>1. o # "stop"
    BY <1>1, <1>2, <1>5
  <2>2. UNCHANGED vars /\ call' = "page"
    BY <1>1, <2>1, OperationStep
  <2> QED
    BY <1>1, <1>4, <2>2 DEF vars, ram
<1>6. ASSUME k < n + 4, script' = Tail(script)
      PROVE  k + 1 \in 1..(n + 4) /\ Doing("page", s, k + 1)'
  <2>1. k + 1 \in 1..(n + 4) /\ script' = Rest(s, k + 1)
    BY <1>1, <1>6, GoesOn
  <2> QED
    BY <1>1, <1>5, <1>6, <2>1 DEF Doing
<1>7. ASSUME NEW m \in 1..15, PageSending(m)', chip' \in Chip, k < n + 4
      PROVE  BusInv' /\ UNCHANGED vars
  BY <1>5, <1>7 DEF BusInv
<1>8. CASE k = 1
  <2>1. /\ script' = Tail(script)
        /\ chip' = [chip EXCEPT !.mode = "control", !.words = <<>>]
    BY <1>1, <1>2, <1>8, OperationStep
  <2>2. Became(chip', "control", chip.pointer, <<>>)
    BY <2>1, StartFacts
  <2>3. k < n + 4
    BY <1>1, <1>8
  <2>4. PageSending(2)'
    BY <1>5, <1>6, <1>8, <2>1, <2>2, <2>3 DEF PageSending, Became, s
  <2> QED
    BY <1>7, <2>2, <2>3, <2>4 DEF Became
<1>9. CASE k = 2 /\ Acknowledges
  <2>1. script' = Tail(script) /\ chip' = Hearing(174)
    BY <1>1, <1>2, <1>9, OperationStep
  <2>2. Became(chip', "address", chip.pointer, chip.words)
    BY <1>9, <2>1, HearingFacts DEF PageSending
  <2>3. k < n + 4
    BY <1>1, <1>9
  <2>4. pending' = {}
    BY <1>5, <1>9, <2>3 DEF Acknowledges, vars, eeprom
  <2>5. PageSending(3)'
    BY <1>5, <1>6, <1>9, <2>1, <2>2, <2>3, <2>4 DEF PageSending, Became, s
  <2> QED
    BY <1>7, <2>2, <2>3, <2>5 DEF Became
<1>10. CASE k = 2 /\ ~Acknowledges
  <2>1. script' = <<Op("start")>> \o script /\ chip' = Hearing(174)
    BY <1>1, <1>2, <1>10, OperationStep
  <2>2. Became(chip', "idle", chip.pointer, chip.words)
    BY <1>10, <2>1, HearingFacts DEF PageSending
  <2>3. k < n + 4 /\ Len(s) > 1 /\ 1 \in 1..Len(s)
    BY <1>1, <1>10
  <2>4. <<Op("start")>> \o Rest(s, 2) = Rest(s, 1)
    BY <1>1, <2>3, RestAfterPoll, Zenon
  <2>5. script' = Rest(s, 1)
    BY <1>1, <1>10, <2>1, <2>4, Zenon DEF Doing
  <2>6. Doing("page", s, 1)'
    BY <1>5, <2>3, <2>5 DEF Doing
  <2>7. PageSending(1)'
    BY <1>5, <2>3, <2>6 DEF PageSending, s
  <2> QED
    BY <1>7, <2>2, <2>3, <2>7 DEF Became
<1>11. CASE k = 3
  <2>1. script' = Tail(script) /\ chip' = Hearing(first)
    BY <1>1, <1>2, <1>11, OperationStep
  <2>2. Became(chip', "data", first, chip.words)
    BY <1>3, <1>11, <2>1, HearingFacts DEF PageSending
  <2>3. k < n + 4
    BY <1>1, <1>11
  <2>4. pending' = {} /\ pageIndex' = pageIndex /\ chip.words = <<>>
    BY <1>5, <1>11, <2>3 DEF PageSending, vars, eeprom, ram
  <2>5. WordsFrom(systeme_info', EEPROM_PAGE_SIZE * pageIndex', 4 - 4) = <<>>
    <3>1. 4 - 4 = 0 /\ 1..0 = {}
      OBVIOUS
    <3> QED
      BY <3>1 DEF WordsFrom
  <2>6. PageSending(4)'
    BY <1>5, <1>6, <1>11, <2>1, <2>2, <2>3, <2>4, <2>5 DEF PageSending, Became, s, first
  <2> QED
    BY <1>7, <2>2, <2>3, <2>6 DEF Became
<1>12. CASE k \in 4..(n + 3)
  <2> DEFINE word == systeme_info[Layout[first + (k - 4) + 1]]
  <2>1. script' = Tail(script) /\ chip' = Hearing(word)
    <3>1. first + (k - 3) = first + (k - 4) + 1
      BY <1>1, <1>3, <1>12
    <3> QED
      BY <1>1, <1>2, <1>12, <3>1, OperationStep
  <2>2. /\ chip.mode = "data" /\ chip.pointer = first /\ pending = {}
        /\ chip.words = WordsFrom(systeme_info, first, k - 4)
    BY <1>12 DEF PageSending, first
  <2>3. /\ k - 4 \in Nat /\ (k - 4) + 1 = k - 3 /\ (k + 1) - 4 = k - 3
        /\ first + (k - 4) < NbWords /\ k < n + 4
    BY <1>1, <1>3, <1>12 DEF NbWords
  <2>4. /\ word \in Nat
        /\ Append(chip.words, word) = WordsFrom(systeme_info, first, (k + 1) - 4)
    <3>1. systeme_info \in [Field -> Nat]
      BY DEF TypeOK
    <3>2. /\ word \in Nat
          /\ Append(WordsFrom(systeme_info, first, k - 4), word)
               = WordsFrom(systeme_info, first, (k - 4) + 1)
      BY <1>3, <2>3, <3>1, WordsInOrder
    <3>3. (k - 4) + 1 = (k + 1) - 4
      BY <2>3
    <3> QED
      BY <2>2, <3>2, <3>3, Zenon
  <2> HIDE DEF word
  <2>5. Became(chip', "data", first, Append(chip.words, word))
    BY <2>1, <2>2, <2>4, HearingFacts
  <2>6. pending' = {} /\ pageIndex' = pageIndex /\ systeme_info' = systeme_info
    BY <1>5, <2>2, <2>3 DEF vars, eeprom, ram
  <2>7. /\ k + 1 \in 1..15 /\ k + 1 # 2 /\ k + 1 # 3 /\ k + 1 > 3 /\ k + 1 > 2
        /\ k + 1 \notin {2, 3}
    BY <1>1, <1>12
  <2>8. PageSending(k + 1)'
    BY <1>5, <1>6, <2>1, <2>3, <2>4, <2>5, <2>6, <2>7 DEF PageSending, Became, s, first
  <2> QED
    BY <1>7, <2>3, <2>5, <2>7, <2>8 DEF Became
<1>13. CASE k = n + 4
  <2>1. PageSent
    <3>1. ClockStarted \/ RecordRead \/ TemperatureRead \/ PageSent
      BY <1>1, <1>2, <1>13, OperationStep
    <3>2. call = "page"
      BY <1>1 DEF Doing
    <3> QED
      BY <3>1, <3>2 DEF ClockStarted, RecordRead, TemperatureRead, i2c_stop
  <2>2. k > 3 /\ k > 2 /\ k - 4 = n
    BY <1>1, <1>13
  <2>3. /\ chip.mode = "data" /\ chip.pointer = first /\ pending = {}
        /\ chip.words = WordsFrom(systeme_info, first, n)
    BY <2>2 DEF PageSending, first
  <2>4. pending' = Page(pageIndex) /\ sent' = systeme_info /\ chip' = Idle
    BY <2>1, <2>3, PageTaken DEF PageSent, i2c_stop, first, n
  <2>5. SendPage
    BY <1>1, <2>1, <2>3, <2>4
    DEF PageSent, SaveReturns, SaveGoesOn, SendPage, Acknowledges
  <2>6. chip' \in Chip
    BY <2>4 DEF Idle, Chip, NbWords
  <2>7. CASE pageIndex = LastPage
    <3>1. Resting'
      BY <2>1, <2>7 DEF PageSent, SaveReturns, Returns, Calls, Resting
    <3> QED
      BY <2>5, <2>6, <3>1 DEF BusInv
  <2>8. CASE pageIndex # LastPage
    <3>1. /\ pageIndex' = pageIndex + 1 /\ at' = "save"
          /\ call' = "page" /\ script' = PageTransfer(pageIndex + 1)
      BY <1>1, <2>1, <2>8 DEF PageSent, SaveGoesOn, Calls
    <3>2. pageIndex + 1 \in 0..LastPage
      BY <1>1, <2>8, Pages
    <3>3. PageSending(1)'
      <4>1. PageTransfer(pageIndex)' = PageTransfer(pageIndex + 1)
        BY <3>1 DEF PageTransfer, Transfer, wordsToWriteInPage
      <4>2. /\ PageTransfer(pageIndex + 1) \in Seq(Operation)
            /\ 1 \in 1..Len(PageTransfer(pageIndex + 1))
        BY <3>2, PageScript
      <4>3. Doing("page", PageTransfer(pageIndex), 1)'
        BY <3>1, <4>1, <4>2, RestOfAll DEF Doing
      <4> QED
        BY <3>1, <4>3 DEF PageSending
    <3> QED
      BY <2>5, <2>6, <3>3 DEF BusInv
  <2> QED
    BY <2>7, <2>8
<1>14. k = 1 \/ k = 2 \/ k = 3 \/ k \in 4..(n + 3) \/ k = n + 4
  BY <1>1
<1> QED
  BY <1>8, <1>9, <1>10, <1>11, <1>12, <1>13, <1>14

\* A save starts with the first of its pages.
LEMMA SaveStarts ==
  ASSUME chip' \in Chip, at' = "save", pageIndex' = 0, Calls("page", PageTransfer(0))
  PROVE  BusInv'
<1>1. PageTransfer(0) \in Seq(Operation) /\ 1 \in 1..Len(PageTransfer(0))
  <2> DEFINE n == wordsToWriteInPage(0)
  <2>1. 0 \in 0..LastPage
    BY Pages
  <2>2. /\ PageTransfer(0) \in Seq(Operation) /\ Len(PageTransfer(0)) = n + 4
        /\ n \in 1..2
    BY <2>1, PageScript, Zenon
  <2> HIDE DEF n
  <2> QED
    BY <2>2
<1>2. PageTransfer(pageIndex)' = PageTransfer(0)
  BY DEF PageTransfer, Transfer, wordsToWriteInPage
<1>3. Doing("page", PageTransfer(pageIndex), 1)'
  BY <1>1, <1>2, RestOfAll DEF Calls, Doing
<1>4. PageSending(1)'
  BY <1>3 DEF PageSending
<1> QED
  BY <1>4 DEF BusInv

\* The program starts with the clock.
LEMMA ClockStarts ==
  ASSUME chip' \in Chip, at' = "boot", Calls("init", I2C_InitMCP79411)
  PROVE  BusInv'
<1>1. I2C_InitMCP79411' = I2C_InitMCP79411
  BY DEF I2C_InitMCP79411
<1>2. Doing("init", I2C_InitMCP79411, 1)'
  BY <1>1, ClockScript, RestOfAll DEF Calls, Doing
<1>3. ClockStarting(1)'
  BY <1>2 DEF ClockStarting
<1> QED
  BY <1>3 DEF BusInv

\* What happens off the bus changes nothing of a transfer under way: at the end of a
\* cycle there is none to the memory, or it has still to be acknowledged.
LEMMA OffBus ==
  ASSUME BusInv, UNCHANGED <<systeme_info, pageIndex, at, bus>>,
         pending # {} \/ UNCHANGED <<memory, pending>>
  PROVE  BusInv'
<1>1. /\ systeme_info' = systeme_info /\ pageIndex' = pageIndex
      /\ at' = at /\ call' = call /\ script' = script /\ received' = received
      /\ chip' = chip
  BY DEF bus
<1>2. CASE Resting
  BY <1>1, <1>2 DEF Resting, BusInv
<1>3. ASSUME NEW k \in 1..15, ClockStarting(k) PROVE BusInv'
  <2>1. I2C_InitMCP79411' = I2C_InitMCP79411
    BY DEF I2C_InitMCP79411
  <2>2. ClockStarting(k)'
    BY <1>1, <1>3, <2>1 DEF ClockStarting, Doing
  <2> QED
    BY <1>1, <2>2 DEF BusInv
<1>4. ASSUME NEW k \in 1..15, RecordReading(k) PROVE BusInv'
  <2>1. I2C_ReadSEEPROM' = I2C_ReadSEEPROM
    BY DEF I2C_ReadSEEPROM
  <2>2. k \in {1, 2} \/ (memory' = memory /\ pending' = pending)
    BY <1>4 DEF RecordReading
  <2>3. RecordReading(k)'
    BY <1>1, <1>4, <2>1, <2>2 DEF RecordReading, Doing
  <2> QED
    BY <1>1, <2>3 DEF BusInv
<1>5. ASSUME NEW k \in 1..15, TemperatureReading(k) PROVE BusInv'
  <2>1. LM92_GetTemperature' = LM92_GetTemperature
    BY DEF LM92_GetTemperature
  <2>2. TemperatureReading(k)'
    BY <1>1, <1>5, <2>1 DEF TemperatureReading, Doing
  <2> QED
    BY <1>1, <2>2 DEF BusInv
<1>6. ASSUME NEW k \in 1..15, PageSending(k) PROVE BusInv'
  <2>1. PageTransfer(pageIndex)' = PageTransfer(pageIndex)
    BY <1>1 DEF PageTransfer, Transfer, wordsToWriteInPage
  <2>2. k \in {1, 2} \/ pending' = pending
    BY <1>6 DEF PageSending
  <2>3. PageSending(k)'
    BY <1>1, <1>6, <2>1, <2>2 DEF PageSending, Doing
  <2> QED
    BY <1>1, <2>3 DEF BusInv
<1> QED
  BY <1>2, <1>3, <1>4, <1>5, <1>6 DEF BusInv

\* Every step on the bus is a step of the record or none, and leaves the bus as a step
\* of the record may find it.
LEMMA BusStep ==
  ASSUME TypeOK, BusInv, [BusNext]_busVars
  PROVE  BusInv' /\ [Next]_vars
<1>1. CASE Transaction
  <2>1. ~Resting
    BY <1>1
    DEF Transaction, Resting, i2c_start, i2c_reStart, i2c_write, WaitForEeprom, i2c_read,
        ClockStarted, RecordRead, TemperatureRead, PageSent, i2c_stop, IsNext
  <2>2. PICK k \in 1..15 : \/ ClockStarting(k) \/ RecordReading(k)
                           \/ TemperatureReading(k) \/ PageSending(k)
    BY <2>1 DEF BusInv
  <2>3. BusInv' /\ (\/ UNCHANGED vars \/ Check_If_Memory_exist \/ SendPage
                    \/ \E t \in Temperatures : ReadTemperature(t))
    BY <1>1, <2>2, ClockStep, RecordStep, TemperatureStep, PageStep DEF BusInv
  <2> QED
    BY <2>3 DEF Next
<1>2. CASE Application
  <2>1. Resting /\ chip \in Chip
    BY <1>2
    DEF Application, Busy, BusInv, ClockStarting, RecordReading, TemperatureReading,
        PageSending, Doing
  <2>2. CASE (LoseGame \/ \E t \in Times : WinGame(t)) /\ UNCHANGED bus
    <3>1. at' = "over" /\ call' = call /\ script' = script /\ chip' = chip
      BY <2>2 DEF LoseGame, WinGame, bus
    <3>2. BusInv'
      BY <2>1, <3>1 DEF Resting, BusInv
    <3> QED
      BY <2>2, <3>2 DEF Next
  <2>3. CASE /\ CloseGame \/ \E b \in Brightnesses : SaveSettings(b)
             /\ Calls("page", PageTransfer(0)) /\ UNCHANGED chip
    <3>1. at' = "save" /\ pageIndex' = 0
      BY <2>3 DEF CloseGame, SaveSettings, StartSave
    <3>2. BusInv'
      BY <2>1, <2>3, <3>1, SaveStarts
    <3> QED
      BY <2>3, <3>2 DEF Next
  <2>4. CASE /\ at \in {"run", "over"}
             /\ Calls("temperature", LM92_GetTemperature) /\ UNCHANGED <<vars, chip>>
    <3>1. LM92_GetTemperature' = LM92_GetTemperature
      BY DEF LM92_GetTemperature
    <3>2. Doing("temperature", LM92_GetTemperature, 1)' /\ received' = <<>>
      BY <2>4, <3>1, TemperatureScript, RestOfAll DEF Calls, Doing
    <3>3. at' = at /\ chip' = chip
      BY <2>4 DEF vars, ram
    <3>4. TemperatureReading(1)'
      BY <2>4, <3>2, <3>3 DEF TemperatureReading
    <3>5. BusInv'
      BY <2>1, <3>3, <3>4 DEF BusInv
    <3> QED
      BY <2>4, <3>5
  <2> QED
    BY <1>2, <2>2, <2>3, <2>4 DEF Application
<1>3. CASE WriteCycleEnds /\ UNCHANGED bus
  <2>1. BusInv'
    BY <1>3, OffBus DEF WriteCycleEnds, ram
  <2> QED
    BY <1>3, <2>1 DEF Next
<1>4. CASE Reboots
  <2>1. chip' \in Chip
    <3>1. Idle \in Chip
      BY DEF Idle, Chip, NbWords
    <3> QED
      BY <1>4, <3>1 DEF Reboots, BusInv
  <2>2. at' = "boot"
    BY <1>4 DEF Reboots, PowerCut, Reset, Restart
  <2>3. BusInv'
    BY <1>4, <2>1, <2>2, ClockStarts DEF Reboots
  <2> QED
    BY <1>4, <2>3 DEF Reboots, Next
<1>5. CASE UNCHANGED busVars
  <2>1. UNCHANGED vars /\ UNCHANGED bus
    BY <1>5 DEF busVars
  <2>2. UNCHANGED <<systeme_info, pageIndex, at, memory, pending>>
    BY <2>1 DEF vars, ram, eeprom
  <2> QED
    BY <2>1, <2>2, OffBus
<1> QED
  BY <1>1, <1>2, <1>3, <1>4, <1>5 DEF BusNext

\* The bus starts with the clock, and with it the record.
LEMMA BusStart ==
  ASSUME BusInit
  PROVE  TypeOK /\ BusInv
<1>1. TypeOK
  BY EepromTypeInit DEF BusInit
<1>2. chip \in Chip
  BY DEF BusInit, Idle, Chip, NbWords
<1>3. ClockStarting(1)
  BY ClockScript, RestOfAll DEF BusInit, Init, ClockStarting, Doing
<1> QED
  BY <1>1, <1>2, <1>3 DEF BusInv

\* Byte by byte, with its polls, the thermometer's transfers and the resets in the
\* middle of them, the bus does to the record what Eeprom does in one step: BusKeepsRecord
\* without its fairness.
THEOREM BusImplementsEeprom == BusSpec => Init /\ [][Next]_vars
<1>1. BusInit => Init
  BY DEF BusInit
<1>2. BusInit => TypeOK /\ BusInv
  BY BusStart
<1>3. TypeOK /\ BusInv /\ [BusNext]_busVars => TypeOK' /\ BusInv' /\ [Next]_vars
  BY BusStep, EepromTypeStep
<1> QED
  BY <1>1, <1>2, <1>3, PTL DEF BusSpec

\* Magic is found only if some save had sent every page, whatever the resets in the
\* middle of a transfer.
THEOREM BusMagicMeansSaved == BusSpec => []MagicMeansSaved
BY BusImplementsEeprom, StepsMagic, PTL DEF RecordSteps

\* A save whose last byte was sent left the whole record in the memory.
THEOREM BusSavedWhole == BusSpec => []SavedWhole
BY BusImplementsEeprom, StepsSaved, PTL DEF RecordSteps

\* The record counts every game but for one a cut, in the middle of a byte or not.
THEOREM BusGamesAccounted == BusSpec => []GamesAccounted
BY BusImplementsEeprom, StepsAccounted, PTL DEF RecordSteps

\* No transfer that is abandoned makes a valid record invalid or loses its games.
THEOREM BusCountNeverForgotten == BusSpec => CountNeverForgotten
BY BusImplementsEeprom, StepsCount, PTL DEF RecordSteps
=============================================================================
