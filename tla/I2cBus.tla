------------------------------- MODULE I2cBus -------------------------------
(***************************************************************************)
(* The I2C bus under the record (Mc32_I2cUtilCCS.c, Mc32gestI2cSeeprom.c,  *)
(* LM92.c): the EEPROM, the clock in the same MCP79411 and the thermometer *)
(* share it.  A call is the script of the bus operations it has left; the  *)
(* EEPROM answers from what it has heard since the last start condition,   *)
(* and it may be programming, cut off or left in the middle of a transfer  *)
(* by a reset at any operation.  Together with the program this implements *)
(* module Eeprom, where a page is one step and the record is read in one.  *)
(***************************************************************************)
EXTENDS Eeprom, Integers

VARIABLES
  call,      \* the I2C function under way, "none" outside
  script,    \* the operations it has left
  received,  \* the words it has read
  chip       \* what the EEPROM makes of the transfer

bus == <<call, script, received, chip>>
busVars == <<vars, bus>>

MCP79411_RTCC_W == 222
MCP79411_EEPROM_R == 175
MCP79411_EEPROM_W == 174
LM92_W == 146
LM92_R == 147

\* A transfer counts words: pointer is the address it gave, words what the EEPROM
\* has taken or given since.
Chip == [mode : {"idle", "control", "address", "data", "read"},
         pointer : 0..NbWords - 1, words : Seq(Nat)]
Idle == [mode |-> "idle", pointer |-> 0, words |-> <<>>]
-----------------------------------------------------------------------------
\* The calls.
Op(name) == [op |-> name, byte |-> 0]
Write(byte) == [op |-> "write", byte |-> byte]
WriteUntilAck(byte) == [op |-> "poll", byte |-> byte]
WriteWord(index) == [op |-> "data", byte |-> index]

I2C_InitMCP79411 ==
  <<Op("start"), Write(MCP79411_RTCC_W), Write(0), Write(128), Op("stop")>>

\* The address is sent by a write that goes on as a read after a new start.
I2C_ReadSEEPROM ==
  <<Op("start"), WriteUntilAck(MCP79411_EEPROM_W), Write(0),
    Op("restart"), Write(MCP79411_EEPROM_R)>>
    \o [i \in 1..NbWords |-> Op("read")] \o <<Op("stop")>>

Transfer(address, page) ==
  <<Op("start"), WriteUntilAck(MCP79411_EEPROM_W), Write(address)>>
    \o [i \in 1..wordsToWriteInPage(page) |-> WriteWord(EEPROM_PAGE_SIZE * page + i)]
    \o <<Op("stop")>>

\* Mutant: the pages are sent from the last to the first.
DescendingTransfer(page) ==
  Transfer(EEPROM_PAGE_SIZE * (LastPage - page), LastPage - page)

\* Mutant: the address is not advanced.
TransferInPlace(page) == Transfer(0, page)

\* One turn of I2C_WriteSEEPROM's loop.
PageTransfer(page) == Transfer(EEPROM_PAGE_SIZE * page, page)

LM92_GetTemperature ==
  <<Op("start"), Write(LM92_W), Write(0), Op("restart"), Write(LM92_R),
    Op("read"), Op("stop")>>

Calls(name, operations) ==
  call' = name /\ script' = operations /\ received' = <<>>
Returns == Calls("none", <<>>)
Busy == call # "none"
-----------------------------------------------------------------------------
\* What the EEPROM makes of a byte: its own address counts only when it is not
\* programming, and after another it listens to nothing until the next start.
Hearing(byte) ==
  CASE chip.mode = "control" ->
         [chip EXCEPT !.mode =
            IF Acknowledges /\ byte = MCP79411_EEPROM_W THEN "address"
            ELSE IF Acknowledges /\ byte = MCP79411_EEPROM_R THEN "read"
            ELSE "idle"]
    [] chip.mode = "address" -> [chip EXCEPT !.mode = "data", !.pointer = byte]
    [] chip.mode = "data" -> [chip EXCEPT !.words = Append(@, byte)]
    [] OTHER -> chip

\* What a read finds on the bus: the memory, the thermometer, or nothing.
OnBus ==
  IF chip.mode = "read" THEN {memory[Layout[chip.pointer + Len(chip.words) + 1]]}
  ELSE IF call = "temperature" THEN Temperatures
  ELSE {Blank}

\* A stop starts the programming of what was taken.
ChipStopped ==
  /\ chip' = Idle
  /\ IF chip.mode = "data" /\ chip.words # <<>>
     THEN LET taken(i) == Layout[chip.pointer + i] IN
          /\ pending' = {taken(i) : i \in DOMAIN chip.words}
          /\ sent' = [f \in Field |->
               IF f \in pending'
               THEN chip.words[CHOOSE i \in DOMAIN chip.words : taken(i) = f]
               ELSE systeme_info[f]]   \* of no account, as in module Eeprom
     ELSE UNCHANGED <<pending, sent>>
-----------------------------------------------------------------------------
\* The operations of Mc32_I2cUtilCCS.c, each waited for to its end.
IsNext(op) == script # <<>> /\ Head(script).op = op

i2c_start ==
  /\ IsNext("start")
  /\ chip' = [chip EXCEPT !.mode = "control", !.words = <<>>]
  /\ script' = Tail(script)
  /\ UNCHANGED <<vars, call, received>>

i2c_reStart ==
  /\ IsNext("restart")
  /\ chip' = [chip EXCEPT !.mode = "control", !.words = <<>>]
  /\ script' = Tail(script)
  /\ UNCHANGED <<vars, call, received>>

\* The acknowledge of these bytes is not looked at.
i2c_write ==
  /\ IsNext("write") \/ IsNext("data")
  /\ LET byte == Head(script).byte IN
     chip' = Hearing(IF IsNext("data") THEN systeme_info[Layout[byte]] ELSE byte)
  /\ script' = Tail(script)
  /\ UNCHANGED <<vars, call, received>>

\* Mutant: the acknowledge is not waited for.
WriteOnce ==
  /\ IsNext("poll")
  /\ chip' = Hearing(Head(script).byte)
  /\ script' = Tail(script)
  /\ UNCHANGED <<vars, call, received>>

\* Without an acknowledge the bus is started once more, with no stop between.
WaitForEeprom ==
  /\ IsNext("poll")
  /\ chip' = Hearing(Head(script).byte)
  /\ script' = IF Acknowledges THEN Tail(script) ELSE <<Op("start")>> \o script
  /\ UNCHANGED <<vars, call, received>>

i2c_read ==
  /\ IsNext("read")
  /\ \E word \in OnBus :
       /\ received' = Append(received, word)
       /\ chip' = [chip EXCEPT !.words = Append(@, word)]
  /\ script' = Tail(script)
  /\ UNCHANGED <<vars, call>>

\* The last operation of every call, which returns.
i2c_stop(function) == IsNext("stop") /\ call = function /\ ChipStopped
-----------------------------------------------------------------------------
ClockStarted ==
  /\ i2c_stop("init")
  /\ Calls("read", I2C_ReadSEEPROM)
  /\ UNCHANGED <<ram, memory, history>>

WordRead(f) == received[CHOOSE i \in 1..NbWords : Layout[i] = f]

RecordRead ==
  /\ i2c_stop("read")
  /\ Returns
  /\ systeme_info' = Restored([f \in Field |-> WordRead(f)])
  /\ at' = "run"
  /\ UNCHANGED <<pageIndex, memory, history>>

TemperatureRead ==
  /\ i2c_stop("temperature")
  /\ Returns
  /\ systeme_info' = [systeme_info EXCEPT !["LM92_Temp"] = received[1]]
  /\ UNCHANGED <<pageIndex, at, memory, history>>

SaveGoesOn(page) ==
  /\ pageIndex' = page
  /\ Calls("page", PageTransfer(page))
  /\ UNCHANGED <<at, saved, current>>

SaveReturns ==
  /\ at' = "run" /\ pageIndex' = 0 /\ saved' = TRUE /\ current' = TRUE
  /\ Returns

\* Mutant: the loop stops before the page that is not full.
FullPageSent ==
  /\ i2c_stop("page")
  /\ IF pageIndex = LastPage - 1 THEN SaveReturns ELSE SaveGoesOn(pageIndex + 1)
  /\ UNCHANGED <<systeme_info, memory, closed, cuts>>

\* Mutant: the page index is never advanced.
SamePageSent ==
  /\ i2c_stop("page")
  /\ SaveGoesOn(pageIndex)
  /\ UNCHANGED <<systeme_info, memory, closed, cuts>>

PageSent ==
  /\ i2c_stop("page")
  /\ IF pageIndex = LastPage THEN SaveReturns ELSE SaveGoesOn(pageIndex + 1)
  /\ UNCHANGED <<systeme_info, memory, closed, cuts>>

Transaction ==
  \/ i2c_start \/ i2c_reStart \/ i2c_write \/ WaitForEeprom \/ i2c_read
  \/ ClockStarted \/ RecordRead \/ TemperatureRead \/ PageSent
-----------------------------------------------------------------------------
BusInit ==
  /\ Init
  /\ call = "init" /\ script = I2C_InitMCP79411 /\ received = <<>>
  /\ chip = Idle

\* The main loop between two calls, and the calls it makes.
Application ==
  /\ ~Busy
  /\ \/ (LoseGame \/ \E t \in Times : WinGame(t)) /\ UNCHANGED bus
     \/ /\ CloseGame \/ \E b \in Brightnesses : SaveSettings(b)
        /\ Calls("page", PageTransfer(0)) /\ UNCHANGED chip
     \/ /\ at \in {"run", "over"}
        /\ Calls("temperature", LM92_GetTemperature) /\ UNCHANGED <<vars, chip>>

\* The program starts again, in the middle of a transfer or not; after a reset
\* of the processor alone the EEPROM still listens.
Reboots ==
  /\ \/ PowerCut /\ chip' = Idle
     \/ Reset /\ UNCHANGED chip
  /\ Calls("init", I2C_InitMCP79411)

BusNext ==
  \/ Transaction
  \/ Application
  \/ WriteCycleEnds /\ UNCHANGED bus
  \/ Reboots

\* The hardware ends what it is waited for; nothing is assumed of the player or of
\* the power.
BusSpec ==
  /\ BusInit /\ [][BusNext]_busVars
  /\ WF_busVars(Transaction)
  /\ WF_busVars(WriteCycleEnds /\ UNCHANGED bus)
-----------------------------------------------------------------------------
\* Byte by byte, with the polls that are not acknowledged, the thermometer read
\* while the EEPROM is programming and transfers abandoned half-way by a reset, the
\* bus does to the record what module Eeprom says in one step: pages are taken
\* whole, in order, and never while the one before is being programmed; the
\* record is read whole; and a save always comes to its end
\* (Mc32gestI2cSeeprom.c:57-90, 105-131).
BusKeepsRecord == Spec
=============================================================================
