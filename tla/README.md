# Verification of the arcade cabinet's firmware

The firmware runs a ball game on a PIC32MX: two vertical rods, each lifted by a stepper
motor, carry a bar on which a ball rolls; two joysticks move the rods, two ball sensors end
the game. This directory models it in TLA+, checks the models with TLC and proves the
theorems that matter most with TLAPS.

Source paths below are relative to `src/firmware/src/`.

## The system

### Who runs when

| context | code | does |
|---|---|---|
| main loop | `main.c:70`, `system_tasks.c:72`, `app.c:230` `APP_Tasks` | one pass after another: watches the end switches until calibrated, then serves the request in `appData.state` |
| timer 1, priority 2, 1 ms | `system_interrupt.c:87` | counts; places the requests for the menu (or the joysticks' calibration) and the joystick readings; plays a tick of sound |
| timer 2, priority 1, 25 µs | `system_interrupt.c:135` | moves both motors by at most one step; places the request for a joystick action |
| timer 3, priority 1 | `system_interrupt.c:162` | gives the sound DAC its other level, over SPI 1 |
| INT2, INT3, priority 1 | `system_interrupt.c:172, 183` | ball sensors: `menu_state` from IN_PROGRESS to WON or LOST |

Nothing is locked. Timer 1 preempts everything; the others preempt the main loop only. All
communication is through shared variables: `appData.state` (a one-place mailbox from the
timers to the main loop), one `STEPPER_DATA` per motor (main loop and timer 2), `menu_state`
(main loop and sensors), `Joystick_Data` (flags from one handler to another), `Sound_Data`
(main loop and timer 1). The display is on SPI 2 and the DAC on SPI 1, so that they share no
bus, but each shares its bus with an instance of the SPI driver, which knows nothing of it;
the EEPROM, the clock and the thermometer share the I2C bus, which only the main loop
uses.

### Components

| component | state | operations | what makes it correct |
|---|---|---|---|
| stepper motors, `Ges_Stepper.c` | `STEPPER_DATA` x 2, `s_tiltLimitBlocked` | `APP_Ges_stepper`, `APP_Stepper_Stop`, `APP_Move_To/Up/Down`, `APP_Move_Calibration` | a stop is final; the tilt never exceeds its limit; moves end; the count is where the rod is; rods keep off their switches |
| motor calibration, `app.c:152, 242` | `calib_state`, `calibration_Moteur_status` | one pass of the switches and `Stepper_RunCalibration` | it ends, measures the true course, leaves nothing pending |
| scheduler, `app.c:230`, timers | `appData.state`, counters, calibration flags | the two timers, the handlers of `APP_Tasks` | no request is lost or overwritten; nothing is served before calibration; the handlers always come back |
| menu, `Ges_Menu.c:22` | `menu_state`, `in_game`, the time, `systeme_info` | a tick per menu state, the sensors | every game counted once, saved, credited with its own time; joysticks in charge exactly in a game |
| settings, `Ges_Menu.c:199` | `setting_state`, `modification_state`, `menu_plus/minus`, brightness | a tick | what is used is what was saved; no change left open |
| joysticks, `Ges_Adc.c`, `Mc32DriverAdc.c` | thresholds, counters, gesture flags | `ADC_TO_SPEED`, `Scan_X_AXIS`, `ADC_TO_DIG` | a rod has a speed only while its stick is out; gestures only when held, and soon after |
| EEPROM record, `Mc32gestI2cSeeprom.c`, over `Mc32_I2cUtilCCS.c` | the record, its `Magic`, the transfer under way | write by pages, read, validity check | what a save that was cut leaves is a valid record that loses one game at most |
| sound, `AD5620.c` | `Sound_Data`, current note, amplifier | a tick, the period of timer 3, the DAC word | a tune is played whole, from its start and at its pitch; silence follows |
| display, `Mc32Max7219.c`, `Ges_Menu.c` | eight registers of the MAX7219 | what each tick of a menu writes | the player can tell the setting he is on |
| SPI driver, `drv_spi_static*.c` | job pool and queues, two instances, their FIFOs | queue a job, a pass of the tasks, the old blocking exchange | jobs end, once and in order; no symbol and no element is lost |
| timer driver, `drv_tmr_static.c` | running flag, registers, interrupt | start, stop, clock, counter, period, the getters | stopped is quiet; what is answered is true |
| output compares, `drv_oc_static.c` | two pins and their compare value | start, stop, set | every step is a pulse of its own |
| thermometer, delays, input capture, start-up | none that anything depends on | | not modelled, but for the thermometer's part of the I2C bus |

### What is hard

* An interrupt between any two accesses of a function of the main loop
  (`APP_Stepper_Stop`, `Stepper_RequestMoveTo`, `APP_Move_Calibration`).
* A test and a store of the mailbox with a higher-priority interrupt in between.
* One interrupt that moves two rods which limit each other.
* Two different fields, `Stepper_Direction` and the direction pin, for one direction.
* Sensors that end a game in the middle of a tick of the menu.
* Gestures that stay latched from one menu to the next.
* Statements in sequence that should be one: count and save, time and start of a game.
* A power cut or a reset between two pages of a save, or between two bytes of one, and a
  page that arrives after it.
* A timer's interrupt between two register accesses of the call that stops or starts it.
* A pool of jobs shared by two instances, which callbacks fill while jobs end, over buses
  that other writers use too.
* Digits rewritten one or two at a time over what another screen left.
* Counters of eight bits and thresholds of sixteen that wrap.

`PROJECT.json` lists each such place as a hazard with the properties that cover it, or why
none does yet.

## The modules

```
Stepper ──┬── Calibration ── MCCalibration     Settings ── Menu ── Display   Menu (refines) Session
          └── Play ───────── MCPlay            Eeprom ── I2cBus              I2cBus (refines) Eeprom
                                               Scheduler ── Pace
Joystick ─┬── Panel ──┬── MCPanel              SpiQueue ── SpiDriver ── MCSpi (refines) SpiService
Sound ────┘           │
Timers ── Pulses ─────┘

StepperProofs ── CalibrationProofs, PlayProofs       EepromProofs (of Eeprom and I2cBus)
PanelProofs        TimersProofs (of Timers and Pulses)        MenuProofs (of Menu and Display)
LoopProofs (of Scheduler, Pace and SpiDriver)
```

**Stepper** holds both `STEPPER_DATA`, the direction pins and the real heights of the rods.
`APP_Ges_stepper` is the whole timer-2 interrupt, motor 2 first and motor 1 seeing its step
(`DeltaSeen`). Each function of the main loop is cut at every access the interrupt can fall
between; `pc`, `cur` and `target` say where it is. `APP_Stepper_Stop` is three stores;
`Stepper_RequestMoveTo` is its guard (`RequestAccepted`), `MovePlan`, `MoveTilt`,
`MoveRequest`; `APP_Move_Calibration` is its guard, `MoveCalibration`, `MoveRequest`. The two
stores of `MovePlan` and of `MoveCalibration` are one step each, since the interrupt reads
neither field of a motor in STBY with nothing pending; where the motor can be otherwise the
request that follows is made of the same values. A pulse moves the rod the way the *pin*
says and the count the way `Stepper_Direction` says. `StepperSpec` lets any caller call
anything in any order; it is the abstract specification that `Calibration` and `Play`
implement by restricting the calls.

**Calibration** adds the pass of `app.c:242-254`: switches of motor 2 then motor 1 are read
(`ReadSwitches`), each motor is treated (`RunStop`, `RunSearch`, `RunSkip`, and the steps of
the function called), the status is computed (`EndOfPass`). A switch is pressed when the rod
is at or beyond it. It starts where `APP_STATE_INIT` leaves the motors; what the first pass
did before that is overwritten there. `LockstepSpec` is the same program when no interrupt
falls inside a pass.

**Play** is what happens to the motors afterwards: the joystick readings that rewrite
`Stepper_Direction` and `speed`, the joystick moves, and the ticks of the menu that stop the
rods or send them somewhere. `Scheduled` begins a handler with no request pending: the
joystick action is requested by the very interrupt that has just taken requests, and a
timer-1 period is 40 of timer 2's, begins just before one, and its handlers read a
thermometer over I2C or four ADC channels before they come to a motor. One case is left out:
in the one pass where `app.c:266` sends the rods home, a reading may follow before the
request is taken; both directions are then down, as is any direction it may store but UP.

**Settings** and **Menu** are `Gestion_Menu_Setting` and `Gestion_Menu`. A tick is one step,
except that it is cut where a sensor can fall between its switch on `menu_state` and its
store (`StartGame`/`GameStarted`, `ProgressTick`/`StopGame` or `GoOn`). The time is a number
of ticks. `started` and `played` are history variables: no action's guard but the bounds
reads them. **Session** says what is promised: games one after the other, each over once,
counted and saved when closed.

**Scheduler** has both timers with their counters. Timer 1 is one step, since nothing
preempts it; timer 2 is a step up to its test and another for its store. The main loop
(`MotorPass`, `GlobalStatus`, `Switch` and a handler per request) takes a step only when
timer 2's interrupt is over. Whether a pass of the calibration is its last, or a menu tick
starts or ends a game, is left open here: those are the other modules' matter. Of the
joysticks it has the lower of `Scan_X_AXIS`' two counters (`held`), which is all a gesture
depends on, and whether a flag is up (`gesture`); Joystick has both counters.

**Pace** adds to Scheduler two histories, the ticks of the menu since the last gesture and the
requests for one that were lost since. A request is lost when it is due while another waits
or is served, or when timer 2 stores over it (`Timer2Store`). It answers what Settings takes
for granted: how many ticks there are between two gestures.

**Eeprom** is the record and its copy. `Layout` is `SYS_INFO`, a word per field, so that a
page of 8 bytes is two words and the fifth page holds `Magic` alone. A page is one step
(`SendPage`): the MCP79411 keeps what it is sent until the stop condition, so a cut before it
changes nothing; then it programs the page on its own (`WriteCycleEnds`) and acknowledges
nothing meanwhile, which is what both functions wait for. `PowerCut` loses the page being
programmed, `Reset`, of the processor alone, does not. The EEPROM is modelled from how the
code uses it: a page is programmed whole or not at all. Temperatures, games and settings are
the writers of the record; nothing writes it during a save, which holds the main loop, and no
interrupt touches it. That is why a save is one step in **Menu**. The next game is closed
several ticks of 201 ms after a save, the write cycle takes 5 ms: `CloseGame` waits for it.

**Display** is the MAX7219 under Menu: every tick of the menus and of the settings writes its
digits (`DisplayTick` is `Gestion_Menu` and what it shows). A digit is its segments, from the
code's own font, which has no `s` and no `M`; any numeral is `NUMERAL`. `SET_DEFAULT`,
`SET_TIME` and `SEE_TIME` write one or two digits over what was there, so that what is read
depends on the way to the screen.

**I2cBus** is under Eeprom: a page, a read, the start of the clock and the thermometer's
reading are scripts of bus operations (`I2C_ReadSEEPROM`, `PageTransfer`, ...), taken one a
step; the EEPROM acknowledges, takes and gives words by what it has heard since the last
start condition. A script is abandoned by a reset anywhere. `BusKeepsRecord` says that it
implements Eeprom, fairness included: Eeprom's `SendPage` is the stop condition of a page,
its reading of the record that of the read.

**Joystick** has `ADC_TO_SPEED` by its four returns, with thresholds modulo `Word`, and
`Scan_X_AXIS` with its two counters modulo `CounterWord`. **Sound** has the sequencer
(`Play_Sound_1_Tick`), the writers of a tune (`AskTune` in a handler, which no tick can cut;
`WriteFirstTune` store by store, as `app.c:259` is outside any handler) and the DAC's level.
**Panel** puts the two under the mailbox of the scheduler: `AskTasks` is the part of timer
1's interrupt that also plays a tick.

**Timers** is one instance of the timer driver, any of the three. A call is the list of its
register accesses (`StartCall`, `StopCall`, `ClockSetCall`), taken one a step, between which
the counter may end its period and the interrupt be served. **Pulses** adds an output compare
on the counter of timer 2, its pin, and the step of a motor made by that timer's handler.

**SpiQueue** has the pool and the queues of the SPI driver as they are kept, by links between
elements and by counts, which wrap (`SizeWord`). **SpiDriver** runs both instances over it: a
pass of the tasks in the steps of `drv_spi_static_tasks.c`, sends and receives of
`drv_spi_static_ebm_tasks.c`, clients that queue from the main loop and from callbacks, the
FIFOs shifting beside it, and the blocking exchange (`BufferAddWriteRead2` and the like). Both
buses have another writer: timer 3's interrupt writes the DAC on SPI 1 and never reads an
answer (`spi_write1`), the application writes the display on SPI 2 and empties the receive
FIFO, answers of the driver's job included (`spi_write2`); `disturbed` is a history of the
buses they have written on. A pass goes on with the job its error step has ended: if symbols
are left to receive it reads through a NULL job (`drv_spi_static_tasks.c:97-102`), and `fault`
ends the behaviour; if none are left `Finish` ends the job and frees its element once more, as
the code does. **SpiService** is what clients are promised: a line of jobs for each bus.

Definitions whose comment starts with "Mutant" are no part of a specification: each is the
definition below it with a plausible mistake, for testing that a property notices.

## The runs

| run | module, cfg | checks | states |
|---|---|---|---|
| `calibration` | MCCalibration | `DoneIsAtRest`, `NoRunaway`, `CourseIsMeasured`, `CountFollowsRod`, `TiltNeverForced`, `CalibrationEnds` hold, and `LevelCompletes`: level rods are calibrated completely | 322 000 |
| `calibration_jam` | MCCalibration, MCCalibrationJam | `CalibrationCompletes` **fails** | |
| `play` | MCPlay | `StopIsFinal`, `TiltWithinLimit`, `MovesEnd` hold | 1 100 000 |
| `play_drift` | MCPlay, MCPlayDrift | `MarginKept` **fails** | |
| `menu` | Display, MCMenu | `GamesCounted`, `ScoresSaved`, `JoysticksOnlyInGame`, `TimeIsOfThisGame`, `SettingsClosed`, `ScreenTellsSetting`, `GamesEnd` hold, and `SessionKept`, the refinement of Session | 1 381 000 |
| `eeprom` | I2cBus, MCEeprom | `MagicMeansSaved`, `SavedWhole`, `GamesAccounted`, `CountNeverForgotten`, `SavesEnd` hold, and `BusKeepsRecord`, the refinement of Eeprom | 397 000 |
| `scheduler` | Pace, MCScheduler | `HandlerOwnsState`, `CalibratedFirst`, `BackToWait`, `GesturesApart` hold | 3 771 000 |
| `scheduler_race` | Scheduler, MCSchedulerRace | `RequestsKept` **fails** | |
| `panel` | MCPanel | `SpeedFollowsStick`, `GestureMeant`, `GesturePrompt`, `TuneWhole`, `SilenceComes`, `StatusTellsTruth`, `StoppedIsQuiet`, `StepsArePulses` hold | 375 000 |
| `tune_pitch` | MCPanel, MCTunePitch | `TunesAtPitch` **fails** | |
| `spi` | MCSpi | `PoolSound`, `SymbolsBalanced`, `JobsEnd` hold, and `JobsInOrder`, the refinement of SpiService | 443 000 |
| `spi_empty_job` | MCSpi, MCSpiEmpty | `PoolSound` **fails** with empty jobs | |

Three are checked with what is built on them: `menu` runs Menu with the display on it, `eeprom`
runs Eeprom with the bus under it, `scheduler` runs Scheduler with Pace on it. Two put side by
side what shares nothing: `calibration` runs `Spec` and, from level rods, `LockstepSpec`;
`panel` runs the sticks, the tunes, or the timers and outputs. Every module has
a type invariant; those of Calibration, Play, Scheduler, Menu, Eeprom, Panel, Timers and Pulses
are proved and are in no run, those of the SPI driver are part of `PoolSound` and
`SymbolsBalanced`.

What the passing runs show that one might not expect:

* `panel`: the first tick of a tune sounds the note the tune before was at, since the
  frequency is set before the flag is looked at (`AD5620.c:118-160`); `TuneWhole` is about what
  follows. It compares the periods heard with those asked for, but for the notes no period of
  16 bits has: that those are wrong is `tune_pitch`'s matter. The two counters of the gesture
  are reset only together, so one of them may have wrapped just before the other stick goes
  out: a gesture may take two holds, never three (`GesturePrompt`). With a centre below the dead zone `lower_stop` wraps and a rod on its way
  up is not stopped by a stick at rest; `SpeedFollowsStick` excludes such a centre, which a
  stick that rests near the middle of its range does not have.
* The timers, in `panel`: `StepsArePulses` rests on the compare value 0
  (`drv_oc_static.c:66`): with the pulse width there instead, a counter that is set back could
  leave the pin up over the next step. Two exceptions are excluded by history variables: a client that sets the compare value
  (`changed`), and a handler so late that a tick waits when it raises the pin (`clean`).
* `spi`: a client of one bus can be refused by the other's reserve only. An instance loses no
  answer and ends every job as long as nothing else has written on its bus, which is true of
  neither bus of this firmware once it runs: a write to the DAC leaves an answer too many,
  which may overrun the receive FIFO and end a job in error; a write to the display throws
  answers away, and the job that waits for them may never end. `JobsEnd` and the balance in
  `SymbolsBalanced` say so by their condition (`Undisturbed`, `disturbed`); `PoolSound` and
  `JobsInOrder` have none and hold on disturbed buses too. The firmware queues no job, so
  nothing of this happens to it today.
* `menu`: the digits always tell the ten settings apart although some rewrite one digit only.

### What the failing runs show

* `calibration_jam`: the tilt limit applies to calibration moves too (`Ges_Stepper.c:414`),
  against `Ges_Stepper.h:54`, and it is measured with a count that means nothing yet for a
  rod that has not found its bottom switch. Both rods count from 8000 at power-on, wherever
  they stand, and the limit is 3751 steps. Once the lower rod has found its bottom it counts
  up from 0 while the other still comes down, so that both change the difference of the
  counts the same way; if it reaches the limit before the second rod is down, the first may
  not go up and the second may not go down, for ever. With the rods at heights a < b, moving
  alike, that is when 2b - a > 11751, for instance 8000 and 10000. The run finds it from
  rods that stand one limit apart. `CalibrationEnds`, checked in `calibration`, says that
  this is the only way not to end.
* `play_drift`: a reading of the joysticks rewrites the direction of a move under way;
  the pin is not changed, so the rod goes on and the count turns back. From then on the
  margin is kept by the count and not by the rod.
* `scheduler_race`: timer 1 between lines 148 and 149 of `system_interrupt.c`.
* `tune_pitch`: the period of a note is 5 MHz over its frequency, stored in 16 bits
  (`AD5620.c:96-98`), so that no note under 76.3 Hz is heard as asked. The menu asks for such
  notes: 20, 40 and 60 Hz on entering the settings (`Ges_Menu.c:47-49`), which sound at 94, 84
  and 281 Hz; 65.4 and 41.2 Hz for a lost game (`:133-134`), at 458 and 90 Hz; 50 Hz
  (`:223`), at 145 Hz. The run has the code's own register and the first of these tunes.
* `spi_empty_job`: nothing refuses a job of no bytes. If the overflow flag of its bus is set
  when its pass comes to the errors, the error step ends it and frees its element
  (`drv_spi_static.c:402`, `774`), and the pass, finding nothing to receive, ends it again
  (`drv_spi_static_tasks.c:108-134`): the callbacks run twice, the element is linked to itself
  in the free list, `numFreeElements` is one too many and `numAlloc` one too few. `PoolSound`
  is the property that says so; everything the passing run and the proofs say of the SPI
  driver supposes that no client queues an empty job (`NoEmptyJob`).

### Bounds, and why they are enough

* `calibration`: courses 6 and 5 with a limit of 3 and one-step search moves: the rods can
  meet the limit, reach their switches in either order, and overshoot. Ten starting
  positions: level at each of six heights, both at the top, crossed, one up and one down.
  From the level ones the interrupt may also be kept out of the passes (`lockstep`).
* `play`: courses of 3 with a margin of 1 leave two positions each to be sent to, above and
  below, and a limit of 1 is met at once. `MaxDrift` = 2 bounds how far a rewritten
  direction may take the count from the rod: one reversed step. `MaxSpeed` = 1. The drift
  run has 6, 5, 2 and 4 instead.
* `menu`: two games, so that one can inherit from the one before; two ticks a game, so that a
  sensor can fall before, between and after; three levels of brightness.
  `TicksPerGesture` = 4 is the code's own proportion: a gesture is 50 readings of 21 ms,
  a tick of the menu 201 ms, hence five requests (`GesturesApart`), which leave four ticks when
  one is lost. That no more than one of five is lost is assumed. The menu's turns are over
  long before the next request. Both timers run on the 40 MHz clock, so that 201 ms are 1340
  joystick actions of six periods of 25 us, and a request for the menu always comes at the
  same point between two of them, some 75 us after the one before was asked for. `SettingsClosed`
  rests on that proportion: with 3 it fails, in a game of seven ticks in which three gestures
  were left up. Games that long are too many for this run; `DisplaySettingsClosed` proves them
  for every rate from 4 on. The ten settings are the code's, each with its screen.
* `eeprom`: the record has its real pages. Two cuts, so that a save that was cut can be
  followed by another cut one; three games, so that a life that starts again from nothing
  would be seen to have lost more than its cuts. Two durations, two levels of brightness.
  The scripts of the bus have all their operations; bytes of a page go by words.
* `scheduler`: periods of 4, 2 and 1 interrupts, the menu's counter going from 1 to 4, for 201, 21
  and 6: every relative phase of the counters occurs, as in the real one. `Samples` = 2 for 20.
  A hold of 5 readings is the shortest for which `PaceAssumption` gives two requests (with 4 the
  property fails), as 50 is the shortest for five with the real periods. The histories stop
  at `MenuTicks`, beyond which nothing is said of them.
* `panel`: a converter of ten values with a dead zone of 2 and a hysteresis of 1, two centres,
  thresholds modulo 16; a hold of two readings with counters modulo 5, so that a counter wraps
  before the other has begun and after (the code has 50 and 256, and `JoystickAssumption`
  keeps two holds below the modulus). Tunes of one, three and four notes after a first one of
  two, one note beyond the period register. For the timers a counter of two bits and a first
  period of 2 meet every phase of a call; values 1 and 7 are below and above the period, 7
  beyond the register. Four calls: one that starts, one that interferes, one that stops, one
  that starts again. Index 3 has no instance. Sticks, tunes and timers share only the turns of
  the main loop, so a behaviour of MCPanel varies one of the three (`part`).
* `tune_pitch`: the modulus of the register, the first period and the tunes are the code's.
* `spi`: three elements for two buses with a reserve of one and a limit of two reach every
  refusal; FIFOs of one symbol are shorter than a job, so that a job takes several passes, and
  jobs have answers to keep, to throw away and both. A behaviour has either clients that
  configure bus 1 and no other writer, or one of the other writers, which writes once
  (`others`): that one write falls before, within or after any job. The proofs have both
  writers and any number of writes. `SizeWord` = 8 is beyond every count
  (`QueueAssumption`) but lets one that goes below 0 wrap.

### Fairness

The main loop never stops (`main.c:70`) and takes a step whenever it can: weak fairness of
`MainLoop`, `Gestion_Menu` (served for ever by the scheduler, which is `BackToWait`). The
timer runs for ever: weak fairness of `Interrupt`, and strong fairness of `BetweenPasses`,
which is enabled again in every pass. In `Scheduler` the main loop stands still while timer 2's
interrupt is between its two steps, so it is enabled again and again rather than for ever:
strong fairness of `APP_Tasks`; an interrupt that has begun ends: weak fairness of
`JoystickStore`. In `Eeprom` the loop of a save goes on and the device ends what it
programs, without which `I2C_WriteSEEPROM` waits for ever: weak fairness of `SendPage` and
`WriteCycleEnds`, none of the power; in `I2cBus` of `Transaction`, the program's next operation
of the bus, and `WriteCycleEnds`. In `Panel` the main loop runs (weak fairness of `MainLoop`,
`FirstTuneStep`), and timer 1, whose request is dropped when another is placed, finds the
mailbox free again and again, since a handler is over before it next asks: strong fairness of
`AskTasks`. In `SpiDriver` the turns of the main loop go on and each bus shifts: weak fairness of
both, none of clients, of the DAC or of the display. Nothing is assumed of the player, of gestures or of the ball.

## What is proved

For every value of the constants that satisfies the named assumptions
(`StepperAssumption`, `CalibrationAssumption`, `PlayAssumption`, `SchedulerAssumption`,
`SettingsAssumption`, `MenuAssumption`, `DisplayAssumption`, `EepromAssumption`,
`PaceAssumption`, `JoystickAssumption`, `SoundAssumption`, `TimersAssumption`, `PulsesAssumption`,
`QueueAssumption`, `DriverAssumption`).

* **StepperProofs**. `StepperTypeCorrect` is inductive as it stands. `StepperStopIsFinal`
  needs that in the middle of a stop the request is already gone (`stop_state`), else the
  interrupt could take it after the last store. `StepperTiltNeverForced` is a property of
  one interrupt: `InterruptTilt` splits on which of the two motors pulses, the second being
  checked against the tilt the first leaves.
* **CalibrationProofs**. `CalibrationImplementsStepper`: every step of the calibration is a
  step of Stepper or leaves its variables alone, so what is proved of any caller carries
  over. `CalibrationDoneIsAtRest` and `CalibrationCountFollowsRod` both follow from
  `CalibInv` (in Calibration.tla): a motor that moves, or is about to, looks for a
  switch and has the direction and the pin that lead to it. Without the clauses on `pc` it
  is not inductive, since the function under way could be of another motor or phase.
  `CalibrationNoRunaway` and `CalibrationCourseIsMeasured` follow from `RodInv`: how far a rod
  is past its switch and what its motor still has to do (`Left`: the rest of a move and a
  request) never add up to more than `Overshoot`, and to one search move less between a read
  that found the switch open and the move it leads to. They hold for every length of the
  search moves, one step in the code, where the rods overshoot by two steps at most.
* **PlayProofs**. The same refinement, and `PlayTiltWithinLimit`: the bound itself, which
  holds initially since the two courses differ by less than the limit (`PlayAssumption`),
  and is kept because no step but the interrupt changes a count.
* **LoopProofs**, of the main loop and of the SPI driver it polls.
  `SchedulerHandlerOwnsState` is strengthened by: timer 2 is about to store only when no
  handler has begun. `SchedulerCalibratedFirst` is strengthened by
  `GateInv`: a reading of the joysticks is taken only once the calibrations are over, and
  between the first one and the menu the main loop passes the top of a pass.
  Its part `SchedulerCentreIsMean` needs that the readings taken are those the counter of the
  handler's turns has allowed, until the centre is due.
  `PaceGesturesApart` compares two clocks that one timer drives: `ReadingsTime`, a period for
  each reading since the last gesture and what its counter shows, and `RequestsTime`, the same
  of the menu's requests. Every tick adds one to the second and at most one to the first, a
  lost reading takes from the first only, and a lost request is counted, so the first is never
  more than `AdcPeriod` ahead (`PaceInv`); a hold of `HoldReadings` is then as long as
  `PaceAssumption` says. With the code's constants, 201 * 4 + 210 + 20 < 21 * 50, that is five
  requests.
  The SPI driver's pool is proved through its five lists: the free elements, and for either
  bus the jobs that wait and the one that runs. Every operation of the queue moves the first
  element of one list to the end of another (`Moved`), and `Arranged` says what the pool's
  data has to do with the lists: they are distinct, no element is on none, the links lead
  along them, heads and tails name their ends, the counts their lengths. `MovedArranged` is
  the lemma that this is kept; each of the code's operations is then one of the moves
  (`SpiPoolSound`). It takes one more part, `JobsLeft`: a job that waits or runs has something
  left to receive until the pass that ends it, so that the job an error step has ended is not
  ended again. That is where the hypothesis of the three theorems comes from, `NoEmptyJob`:
  without it they are false (`spi_empty_job`). Counts do not wrap in a sound pool
  (`QueueAssumption`: `SizeWord` beyond the pool). What a client sees is the lists without the links, and each move is a
  step of SpiService or none (`SpiJobsInOrder`). `SpiSymbolsBalanced` needs more than itself
  (`SpiInv`): a job that waits has as much to send as to receive (`WaitingBalanced`), since
  it starts so; what the main loop has read of a bus it is treating still holds
  (`LoopCounts`), all this as long as nothing else has written on the bus (`disturbed`); and in the middle of an exchange its own counters say what is on the bus.
* **MenuProofs**. `MenuTypeCorrect` comes first. A tick is cut where the sensors may fall,
  so the key is `MidGame`: while a tick sets a game up or goes on with one, the game may have
  been ended but not closed. With it `GamesCounted` and `ScoresSaved` are inductive, and
  `MenuImplementsSession` maps every step to a step of Session or a stutter. `OwnGame` is
  the common strengthening of `JoysticksOnlyInGame` and `TimeIsOfThisGame`: it says of every
  moment outside the set-up of a game what they say between two ticks.
  `DisplaySettingsClosed` rests on `Apart`: flags left up in a game may meet anywhere but in
  the settings, because the gesture that closes the game was made at most three ticks before
  the tick that takes all of them down, and the next gesture takes four
  (`SettingsAssumption`). The intensity is that of the settings (`Shining`), as no text
  reaches its register and no brightness is above the chip's (`DisplayAssumption`).
  `DisplayScreenTellsSetting` follows from `ScreenInv`, which says of every moment in the
  settings that they have just been announced, with no number on the digits, or that a tick
  has shown the setting the player is on (`Screened`). A tick rewrites some of the digits and
  leaves others, so `SettingDigits` is proved of any digits at all, provided they hold no
  number where the setting has none; that they do not is `Closed` and the fact that a setting
  does not move while it is open.
* **EepromProofs**. `IInv` has three parts. `MagicLast`: Magic leaves with the last page, so
  no page of a first save that is cut can bring it. `CountFollows`: the count in the memory
  is that in the RAM, or one less until the first page of a save has arrived; without the
  page on its way (`pending`, `sent`) it is not inductive, since a reset leaves it to arrive
  after the RAM is gone. `GamesBounded`: either count is that of the games closed but for one
  a cut, and a life with no valid record has lost all its games to cuts. `EepromSavedWhole`
  follows from `PagesKept`, that every page below `pageIndex` is the record's, in the memory
  or on its way. These are proved of any steps of Eeprom (`RecordSteps`, its specification
  without the fairness), since I2cBus keeps to them: `BusImplementsEeprom`, from which
  `BusMagicMeansSaved` and its three sisters. Its invariant `BusInv` says of each call which
  operation comes next (`Doing`), what the EEPROM takes the next byte for, and that the words
  it has taken are the record's (`PageSending`), those it has given the memory's
  (`RecordReading`). From the acknowledged poll on nothing is being programmed, else the end
  of a write cycle could change the memory under a read. Of what an abandoned transfer left,
  nothing is assumed: the first start condition takes it away (`ClockStarting`).
* **PanelProofs**. `PanelSpeedFollowsStick` is a property of one reading, split on the four
  returns of `ADC_TO_SPEED`; it needs `CentredIsStill`, that a centred stick has no speed.
  `PanelGestureMeant` and `PanelGesturePrompt` relate the code's counters, which wrap, to how
  long each stick has really been out (`GestureInv`): they agree until two holds, which are
  below the modulus, and a counter that has wrapped belongs to a stick that has been out for
  that long. `PanelTuneWhole` needs what `TuneInv` says between two ticks: the table holds the
  tune asked for last, unless the first one is still being written, when nothing has been
  heard; and while the amplifier is on `current_note` tells how much of the tune was heard. Of a
  note that does not fit the period register it says nothing: `TunesAtPitch` does, and fails.
* **TimersProofs**. `NextSteps` first reduces the 36 entry points of three instances to seven
  kinds of step of one. `CallInv` says what holds after each access of each call, told by the
  accesses that are left: within a call running flag, interrupt and timer disagree, and what
  is left is what brings them together. It is not enough that a call started well: what
  `ClockSet` resumes by was read before the interrupt could fall. From it
  `TimersStoppedIsQuiet` and `TimersStatusTellsTruth`, and, as an output's calls and a motor's
  steps leave the timer alone, `PulsesTimer`. `PulsesStepsArePulses`: a pin that is up has
  seen no end of a period (`PulseInv`), as it would have fallen there.

Only model-checked: everything under fairness (`CalibrationEnds`, `LevelCompletes`,
`MovesEnd`, `GamesEnd`, `BackToWait`, `SavesEnd`, `SilenceComes`, `JobsEnd`, and
the fairness in `BusKeepsRecord`), which is beyond the prover. Every invariant and every
action property of the passing runs is proved.

## What is not modelled

* Start-up code (`system_init.c`, clocks, ports, `sys_devcon`): straight-line register
  set-up, run once, with no state of its own. The priorities it sets are what Scheduler,
  Stepper and Menu assume. Exceptions: `system_exceptions.c` stops in a loop.
* Delays: waiting on the core timer. Input capture: nothing reads it.
* The digits of a number on the display (`sprintf` of counts, times and temperatures), the
  lamp, the time of day, and the thermometer's conversion to degrees.
* The bits of a byte on the I2C bus: a reset while the EEPROM holds the data line is not
  distinguished from one between two bytes.
* What a job of the SPI driver carries, and 16- and 32-bit symbols: the generated code has
  8-bit ones only.
* `DRV_TMR_Alarm*` and other entry points of the mappings that do nothing.
* The menu starts from a record found in the EEPROM: on a fresh device the brightness in use is
  the saved one from the first save on.
* Positions and the counts of games are unbounded numbers: the 32 bits they have are out of
  reach of any use of the cabinet.
* Stepper: `APP_Stepper_Init`, `Stepper_SetEnable` and `Stepper_Done_moving`, which nothing
  calls or reads, and the tilt angle in degrees.

## Plan

Done: all modules above and their proofs. What is left:

1. `held` of Scheduler as the lower of Joystick's two counters, proved as a refinement; it
   rests on the definitions now.
2. The time the handlers take, from which would follow how many requests for the menu can be
   lost in a row.
