----------------------------- MODULE LoopProofs -----------------------------
(***************************************************************************)
(* What holds of the two things the turns of the main loop drive: the      *)
(* scheduler, for every period of its counters and wherever the two timers *)
(* fall, and the SPI driver with its pool, for every pool, reserve, FIFO   *)
(* and set of transfers.  The two share no variable.                       *)
(***************************************************************************)
EXTENDS Pace, SpiDriver, SequenceTheorems, FiniteSetTheorems, TLAPS


(***************************************************************************)
(* The interrupt of timer 2 is about to store only when it found the state *)
(* to be WAIT, which no handler of the main loop then has begun.           *)
(***************************************************************************)
OwnInv ==
  /\ HandlerOwnsState
  /\ timer2 = "store" => at \notin Handler

\* No step of a timer takes the request from a handler.
LEMMA OwnStep ==
  ASSUME OwnInv, [Next]_vars
  PROVE  OwnInv'
<1> USE DEF OwnInv, HandlerOwnsState, Handler
<1>1. CASE IntHandlerDrvTmrInstance0
  BY <1>1 DEF IntHandlerDrvTmrInstance0, Requested
<1>2. CASE IntHandlerDrvTmrInstance1
  BY <1>2 DEF IntHandlerDrvTmrInstance1
<1>3. CASE JoystickStore
  BY <1>3 DEF JoystickStore
<1>4. CASE MotorPass \/ GlobalStatus
  BY <1>4 DEF MotorPass, GlobalStatus, MainAt, timers
<1>5. CASE Switch
  BY <1>5 DEF Switch, MainAt, timers
<1>6. CASE Initialise \/ Tasks \/ Calibrate \/ ReadAdc \/ JoystickAction
  BY <1>6 DEF Initialise, Tasks, Calibrate, ReadAdc, Gesture, NoGesture,
              JoystickAction, Serve, MainAt, timers
<1>7. CASE UNCHANGED vars
  BY <1>7 DEF vars, timers
<1> QED
  BY <1>1, <1>2, <1>3, <1>4, <1>5, <1>6, <1>7 DEF Next, APP_Tasks, Interrupts

\* While a handler runs the request is its own.
THEOREM SchedulerHandlerOwnsState == Spec => []HandlerOwnsState
<1>1. Init => OwnInv
  BY DEF Init, OwnInv, HandlerOwnsState, Handler
<1>2. OwnInv /\ [Next]_vars => OwnInv'
  BY OwnStep
<1>3. OwnInv => HandlerOwnsState
  BY DEF OwnInv
<1> QED
  BY <1>1, <1>2, <1>3, PTL DEF Spec
-----------------------------------------------------------------------------
(***************************************************************************)
(* Calibration.  The flags only ever rise, so a request placed by a timer  *)
(* that saw calibration_status_test is still good when it is served; and   *)
(* between the first reading of the joysticks and the next menu the main   *)
(* loop goes through the top of a pass, where do_this_once rises.          *)
(***************************************************************************)
GateInv ==
  /\ calibration_status_test =>
       calibration_ADC_status /\ calibration_Moteur_status
  /\ state \in {"TASKS", "READ_ADC"} => calibration_status_test
  /\ held # 0 \/ gesture =>
       /\ calibration_status_test
       /\ do_this_once \/ at = "top"
  /\ in_game => do_this_once

\* No step opens a gate before its time.
LEMMA GateStep ==
  ASSUME HandlerOwnsState, GateInv, [Next]_vars
  PROVE  GateInv'
<1> USE DEF GateInv
<1>1. CASE IntHandlerDrvTmrInstance0
  BY <1>1 DEF IntHandlerDrvTmrInstance0, Requested, calibration, joysticks
<1>2. CASE IntHandlerDrvTmrInstance1
  BY <1>2 DEF IntHandlerDrvTmrInstance1, calibration, joysticks
<1>3. CASE JoystickStore
  BY <1>3 DEF JoystickStore, calibration, joysticks
<1>4. CASE MotorPass
  <2>1. do_this_once' <=> do_this_once \/ calibration_status_test
    BY <1>4, Zenon DEF MotorPass
  <2>2. calibration_Moteur_status => calibration_Moteur_status'
    BY <1>4, Zenon DEF MotorPass
  <2>3. /\ UNCHANGED <<state, calibration_ADC_status, calibration_status_test,
                      held, gesture, in_game>>
        /\ at' # "top"
    BY <1>4 DEF MotorPass, joysticks
  <2> QED
    BY <2>1, <2>2, <2>3, Zenon
<1>5. CASE GlobalStatus
  BY <1>5 DEF GlobalStatus, MainAt, joysticks
<1>6. CASE Switch
  BY <1>6 DEF Switch, MainAt, calibration, joysticks
<1>7. CASE Initialise \/ JoystickAction
  BY <1>7 DEF Initialise, JoystickAction, Serve, calibration, joysticks
<1>8. CASE Tasks
  <2>1. UNCHANGED <<calibration_ADC_status, calibration_Moteur_status,
                    calibration_status_test, do_this_once>>
    BY <1>8 DEF Tasks, calibration
  <2>2. at # "top" /\ at' = "top" /\ state' \notin {"TASKS", "READ_ADC"}
    BY <1>8 DEF Tasks, Serve, MainAt
  <2>3. /\ in_game' = in_game \/ in_game' = FALSE \/ in_game' = gesture
        /\ gesture' = gesture \/ gesture' = FALSE
    BY <1>8, Zenon DEF Tasks
  <2>4. held' = held
    BY <1>8 DEF Tasks
  <2>5. gesture' => gesture
    BY <2>3, Zenon
  <2>6. in_game' => in_game \/ gesture
    BY <2>3, Zenon
  <2>7. held' # 0 \/ gesture' => held # 0 \/ gesture
    BY <2>4, <2>5, Zenon
  <2> QED
    BY <2>1, <2>2, <2>6, <2>7, Zenon
<1>9. CASE Calibrate
  BY <1>9 DEF Calibrate, Serve
<1>10. CASE ReadAdc
  <2>1. state = "READ_ADC"
    BY <1>10 DEF ReadAdc, Gesture, NoGesture, Serve, MainAt, HandlerOwnsState, Handler
  <2>2. at' = "top" /\ state' \notin {"TASKS", "READ_ADC"}
    BY <1>10 DEF ReadAdc, Gesture, NoGesture, Serve
  <2>3. UNCHANGED <<calibration, in_game>>
    BY <1>10, Zenon DEF ReadAdc, Gesture, NoGesture
  <2>4. calibration_status_test
    BY <2>1
  <2> QED
    BY <2>2, <2>3, <2>4, Zenon DEF calibration
<1>11. CASE UNCHANGED vars
  BY <1>11 DEF vars, calibration, joysticks
<1> QED
  BY <1>1, <1>2, <1>3, <1>4, <1>5, <1>6, <1>7, <1>8, <1>9, <1>10, <1>11
  DEF Next, APP_Tasks, Interrupts
-----------------------------------------------------------------------------
(***************************************************************************)
(* The types.  The flags are the work of the first-order prover, the       *)
(* counters of the arithmetic one.                                         *)
(***************************************************************************)
Flags ==
  /\ calibration_ADC_status \in BOOLEAN /\ calibration_Moteur_status \in BOOLEAN
  /\ calibration_status_test \in BOOLEAN
  /\ do_this_once \in BOOLEAN /\ in_game \in BOOLEAN /\ gesture \in BOOLEAN

Counters ==
  /\ state \in Handler \union {"WAIT"}
  /\ ctr_tasks \in 0..TasksPeriod
  /\ ctr_read_adc \in 0..AdcPeriod
  /\ cpt_joystick_action \in 0..JoyPeriod
  /\ timer2 \in {"idle", "store"}
  /\ at \in Handler \union {"top", "status", "switch"}
  /\ compteur_moyenne_adc \in 0..255
  /\ centre \in 0..255
  /\ held \in 0..(HoldReadings - 1)

\* No step takes a flag out of its range.
LEMMA FlagsStep ==
  ASSUME Flags, [Next]_vars
  PROVE  Flags'
<1> USE DEF Flags
<1>1. CASE MotorPass
  BY <1>1, Zenon DEF MotorPass, joysticks
<1>2. CASE GlobalStatus
  BY <1>2, Zenon DEF GlobalStatus, joysticks
<1>3. CASE Tasks
  BY <1>3, Zenon DEF Tasks, calibration
<1>4. CASE Calibrate
  BY <1>4, Zenon DEF Calibrate
<1>5. CASE Initialise
  BY <1>5, Zenon DEF Initialise, calibration, joysticks
<1>6. CASE UNCHANGED <<calibration, in_game, gesture>>
  BY <1>6, Zenon DEF calibration
<1>7. CASE Switch \/ NoGesture \/ JoystickAction \/ Interrupts \/ UNCHANGED vars
  BY <1>6, <1>7, Zenon
  DEF Switch, NoGesture, JoystickAction, Interrupts, IntHandlerDrvTmrInstance0,
      IntHandlerDrvTmrInstance1, JoystickStore, joysticks, vars
<1>8. CASE Gesture
  BY <1>8, Zenon DEF Gesture, calibration
<1> QED
  BY <1>1, <1>2, <1>3, <1>4, <1>5, <1>7, <1>8 DEF Next, APP_Tasks, ReadAdc

\* No step takes a counter or the request out of its range.
LEMMA CountersStep ==
  ASSUME Counters, [Next]_vars
  PROVE  Counters'
<1> USE SchedulerAssumption DEF Counters, Handler
<1>1. CASE IntHandlerDrvTmrInstance0
  BY <1>1 DEF IntHandlerDrvTmrInstance0, Requested, joysticks
<1>2. CASE IntHandlerDrvTmrInstance1
  BY <1>2 DEF IntHandlerDrvTmrInstance1, joysticks
<1>3. CASE JoystickStore
  BY <1>3 DEF JoystickStore, joysticks
<1>4. CASE MotorPass \/ GlobalStatus \/ Switch
  BY <1>4 DEF MotorPass, GlobalStatus, Switch, MainAt, timers, joysticks
<1>5. CASE Initialise \/ Tasks \/ JoystickAction
  <2>1. UNCHANGED <<timers, compteur_moyenne_adc, centre>>
        /\ state' = "WAIT" /\ at' = "top"
    BY <1>5 DEF Initialise, Tasks, JoystickAction, Serve, joysticks
  <2>2. held' = held
    BY <1>5 DEF Initialise, Tasks, JoystickAction, joysticks
  <2> QED
    BY <2>1, <2>2 DEF timers
<1>6. CASE Calibrate
  <2>1. (compteur_moyenne_adc + 1) % 256 \in 0..255
    OBVIOUS
  <2> QED
    BY <1>6, <2>1 DEF Calibrate, Serve, timers
<1>7. CASE ReadAdc
  <2>1. held' \in 0..(HoldReadings - 1)
    BY <1>7 DEF ReadAdc, Gesture, NoGesture
  <2> QED
    BY <1>7, <2>1 DEF ReadAdc, Gesture, NoGesture, Serve, timers
<1>8. CASE UNCHANGED vars
  BY <1>8 DEF vars, timers, joysticks
<1> QED
  BY <1>1, <1>2, <1>3, <1>4, <1>5, <1>6, <1>7, <1>8
  DEF Next, APP_Tasks, Interrupts

\* The types of the scheduler: no counter of a timer passes its period.
THEOREM SchedulerTypeCorrect == Spec => []TypeOK
<1>1. Init => Flags
  BY Zenon DEF Init, Flags
<1>2. Init => Counters
  BY SchedulerAssumption DEF Init, Counters, Handler
<1>3. Flags /\ Counters /\ [Next]_vars => Flags' /\ Counters'
  BY FlagsStep, CountersStep, Zenon
<1>4. Flags /\ Counters => TypeOK
  BY Zenon DEF Flags, Counters, TypeOK
<1> QED
  BY <1>1, <1>2, <1>3, <1>4, PTL DEF Spec
-----------------------------------------------------------------------------
(***************************************************************************)
(* Until the centre is taken the counter has not passed Samples: the first *)
(* run of the handler that finds it there takes it.                        *)
(***************************************************************************)
CentreInv ==
  /\ compteur_moyenne_adc \in 0..255
  /\ ~calibration_ADC_status => compteur_moyenne_adc <= Samples
  /\ CentreIsMean

\* The centre of the joysticks is the mean of exactly Samples readings, for every
\* number of them.
THEOREM SchedulerCentreIsMean == Spec => []CentreIsMean
<1>1. Init => CentreInv
  BY SchedulerAssumption DEF Init, CentreInv, CentreIsMean
<1>2. CentreInv /\ [Next]_vars => CentreInv'
  <2> SUFFICES ASSUME CentreInv, [Next]_vars PROVE CentreInv'
    OBVIOUS
  <2> USE DEF CentreInv, CentreIsMean
  <2>1. CASE Calibrate
    <3>1. CASE CentreDue
      BY <2>1, <3>1, SchedulerAssumption DEF Calibrate, CentreDue
    <3>2. CASE ~CentreDue
      <4>1. CASE compteur_moyenne_adc = 255
        BY <2>1, <3>2, <4>1, SchedulerAssumption DEF Calibrate, CentreDue
      <4>2. CASE compteur_moyenne_adc \in 0..254
        <5>1. (compteur_moyenne_adc + 1) % 256 = compteur_moyenne_adc + 1
          BY <4>2
        <5> QED
          BY <2>1, <3>2, <4>2, <5>1, SchedulerAssumption
          DEF Calibrate, CentreDue
      <4> QED
        BY <4>1, <4>2
    <3> QED
      BY <3>1, <3>2
  <2>2. CASE UNCHANGED <<compteur_moyenne_adc, centre, calibration_ADC_status>>
    BY <2>2
  <2>3. CASE MotorPass \/ GlobalStatus \/ Switch \/ Initialise \/ Tasks
             \/ ReadAdc \/ JoystickAction \/ Interrupts \/ UNCHANGED vars
    BY <2>2, <2>3
    DEF MotorPass, GlobalStatus, Switch, Initialise, Tasks, ReadAdc, Gesture,
        NoGesture, JoystickAction, Interrupts, IntHandlerDrvTmrInstance0,
        IntHandlerDrvTmrInstance1, JoystickStore, vars, calibration, joysticks
  <2> QED
    BY <2>1, <2>3 DEF Next, APP_Tasks
<1>3. CentreInv => CentreIsMean
  BY DEF CentreInv
<1> QED
  BY <1>1, <1>2, <1>3, PTL DEF Spec

\* No menu and no joystick before the calibrations are over, that of the joysticks
\* with a true mean, and no game before the rods were sent to their origin.
THEOREM SchedulerCalibratedFirst == Spec => []CalibratedFirst
<1>1. Init => GateInv
  BY DEF Init, GateInv
<1>2. HandlerOwnsState /\ GateInv /\ [Next]_vars => GateInv'
  BY GateStep
<1>3. HandlerOwnsState /\ GateInv /\ CentreIsMean => CalibratedFirst
  BY DEF HandlerOwnsState, GateInv, CalibratedFirst, Handler
<1> QED
  BY <1>1, <1>2, <1>3, SchedulerHandlerOwnsState, SchedulerCentreIsMean, PTL
  DEF Spec
-----------------------------------------------------------------------------
(***************************************************************************)
(* The pace of the gestures.  Since the last one, the readings taken or    *)
(* requested and what their counter shows tell the time at most, the       *)
(* requests for the menu and what theirs shows tell it at least: one timer *)
(* drives both, a lost reading only takes from the first, and a lost       *)
(* request for the menu is counted.  The two start up to AdcPeriod apart.  *)
(***************************************************************************)
One(request) == IF state = request THEN 1 ELSE 0
Readings == held + One("READ_ADC")
Requests == ticks + dropped + One("TASKS")

ReadingsTime == ReadingPeriod * Readings + ctr_read_adc
RequestsTime == MenuPeriod * Requests + ctr_tasks

PaceInv ==
  /\ ticks \in 0..MenuTicks /\ dropped \in 0..MenuTicks
  /\ \/ ticks = MenuTicks \/ dropped = MenuTicks
     \/ ReadingsTime <= RequestsTime + AdcPeriod

\* What an inductive step of the pace may use of the scheduler.
SchedulerInv == Flags /\ Counters /\ OwnInv /\ GateInv

LEMMA SchedulerInvInit == Init => SchedulerInv
<1>1. Init => Flags
  BY Zenon DEF Init, Flags
<1>2. Init => Counters /\ OwnInv /\ GateInv
  BY SchedulerAssumption
  DEF Init, Counters, OwnInv, GateInv, HandlerOwnsState, Handler
<1> QED
  BY <1>1, <1>2, Zenon DEF SchedulerInv

LEMMA SchedulerInvStep == SchedulerInv /\ [Next]_vars => SchedulerInv'
BY FlagsStep, CountersStep, OwnStep, GateStep, Zenon DEF SchedulerInv, OwnInv

\* The pace watches the scheduler and does nothing to it.
LEMMA PaceOfScheduler == [PaceNext]_paceVars => [Next]_vars
BY Zenon DEF PaceNext, Timer1, Timer2Store, MenuTick, GestureMade, ReadingOnly, Others,
             Next, APP_Tasks, Interrupts, ReadAdc, paceVars

\* The periods, and what one more of each takes.
LEMMA Periods ==
  /\ ReadingPeriod \in Nat /\ ReadingPeriod = AdcPeriod + 1
  /\ MenuPeriod \in Nat /\ MenuPeriod = TasksPeriod + 1 - TasksRestart
  /\ \A n \in Int : /\ ReadingPeriod * n \in Int /\ MenuPeriod * n \in Int
                    /\ ReadingPeriod * (n + 1) = ReadingPeriod * n + ReadingPeriod
                    /\ MenuPeriod * (n + 1) = MenuPeriod * n + MenuPeriod
  /\ \A n \in Nat : MenuPeriod * n \in Nat
  /\ ReadingPeriod * 0 = 0
<1>1. /\ ReadingPeriod \in Nat /\ ReadingPeriod = AdcPeriod + 1
      /\ MenuPeriod \in Nat /\ MenuPeriod = TasksPeriod + 1 - TasksRestart
  BY SchedulerAssumption DEF ReadingPeriod, MenuPeriod
<1>2. ASSUME NEW p \in Nat, NEW n \in Int
      PROVE  p * n \in Int /\ p * (n + 1) = p * n + p
  OBVIOUS
<1>3. ASSUME NEW p \in Nat, NEW n \in Nat PROVE p * n \in Nat /\ p * 0 = 0
  OBVIOUS
<1> QED
  BY <1>1, <1>2, <1>3

\* A hold that has not begun has taken no time.
LEMMA NoReadings ==
  ASSUME NEW n \in Nat, NEW reading \in 0..AdcPeriod, NEW tick \in 0..TasksPeriod
  PROVE  ReadingPeriod * 0 + reading <= MenuPeriod * n + tick + AdcPeriod
<1>1. MenuPeriod * n \in Nat /\ ReadingPeriod * 0 = 0
  BY Periods
<1> QED
  BY <1>1, SchedulerAssumption

\* A tick of timer 1 is one more on either side, or a reading or a request is lost.
LEMMA PaceTimer1 ==
  ASSUME SchedulerInv, PaceInv, Timer1
  PROVE  PaceInv'
<1>1. Counters /\ Counters'
  BY SchedulerInvStep, PaceOfScheduler, Zenon DEF SchedulerInv, PaceNext
<1>2. /\ ticks \in 0..MenuTicks /\ dropped \in 0..MenuTicks
      /\ ticks' = ticks /\ dropped' \in {dropped, Upped(dropped)}
  BY DEF PaceInv, Timer1
<1>3. dropped' \in 0..MenuTicks
  BY <1>2, PaceAssumption DEF Upped
<1>4. CASE Readings' = 0
  <2>1. Requests' \in Nat
    <3>1. MenuTicks \in Nat
      BY PaceAssumption
    <3>2. ticks' \in Nat /\ dropped' \in Nat
      BY <1>2, <1>3, <3>1
    <3>3. One("TASKS")' \in {0, 1}
      BY DEF One
    <3> QED
      BY <3>2, <3>3 DEF Requests
  <2>2. ReadingsTime' <= RequestsTime' + AdcPeriod
    BY <1>1, <1>4, <2>1, NoReadings DEF ReadingsTime, RequestsTime, Counters
  <2> QED
    BY <1>2, <1>3, <2>2 DEF PaceInv
<1>5. CASE ticks = MenuTicks \/ dropped = MenuTicks
  BY <1>2, <1>3, <1>5, PaceAssumption DEF PaceInv, Upped
<1>6. CASE Readings' # 0 /\ ticks # MenuTicks /\ dropped # MenuTicks
  <2>1. ReadingsTime <= RequestsTime + AdcPeriod
    BY <1>6 DEF PaceInv
  <2>2. calibration_status_test
    BY <1>6
    DEF Timer1, IntHandlerDrvTmrInstance0, Requested, Readings, One, joysticks,
        SchedulerInv, GateInv
  <2>3. Readings \in Int /\ Requests \in Int
    BY <1>1, <1>2, SchedulerAssumption, PaceAssumption DEF Readings, Requests, One, Counters
  <2>4. ReadingsTime' <= ReadingsTime + 1
    <3>1. \/ Readings' = Readings /\ ctr_read_adc' <= ctr_read_adc + 1
          \/ /\ Readings' = Readings + 1
             /\ ctr_read_adc = AdcPeriod /\ ctr_read_adc' = 0
      BY <1>1, SchedulerAssumption
      DEF Timer1, IntHandlerDrvTmrInstance0, Requested, Readings, One, joysticks, Counters
    <3> HIDE DEF Readings
    <3> QED
      BY <1>1, <2>3, <3>1, Periods, SchedulerAssumption DEF ReadingsTime, Counters
  <2>5. RequestsTime' >= RequestsTime + 1
    <3>1. \/ Requests' = Requests /\ ctr_tasks' = ctr_tasks + 1
          \/ /\ Requests' = Requests + 1
             /\ ctr_tasks = TasksPeriod /\ ctr_tasks' = TasksRestart
      BY <1>1, <1>2, <1>6, <2>2, SchedulerAssumption, PaceAssumption
      DEF Timer1, IntHandlerDrvTmrInstance0, Requested, Requests, One, Upped, Counters
    <3> HIDE DEF Requests
    <3> QED
      BY <1>1, <2>3, <3>1, Periods, SchedulerAssumption DEF RequestsTime, Counters
  <2>6. ReadingsTime' <= RequestsTime' + AdcPeriod
    <3>1. /\ ReadingsTime \in Int /\ RequestsTime \in Int
          /\ ReadingsTime' \in Int /\ RequestsTime' \in Int
      BY <1>1, <1>2, <1>3, <2>3, Periods, SchedulerAssumption, PaceAssumption
      DEF ReadingsTime, RequestsTime, Readings, Requests, One, Counters
    <3>2. \A a, b, c, d, k \in Int :
            a <= b + k /\ c <= a + 1 /\ d >= b + 1 => c <= d + k
      OBVIOUS
    <3>3. AdcPeriod \in Int
      BY SchedulerAssumption
    <3> QED
      BY <2>1, <2>4, <2>5, <3>1, <3>2, <3>3, Zenon
  <2> QED
    BY <1>2, <1>3, <2>6 DEF PaceInv
<1> QED
  BY <1>4, <1>5, <1>6

\* As many of a period are no longer than more of it.
LEMMA Longer ==
  ASSUME NEW p \in Nat, NEW m \in Int, NEW n \in Int, m <= n
  PROVE  p * m \in Int /\ p * n \in Int /\ p * m <= p * n
<1>1. n - m \in Nat /\ p * (n - m) \in Nat
  OBVIOUS
<1>2. p * n = p * m + p * (n - m)
  OBVIOUS
<1> QED
  BY <1>1, <1>2

\* Away from timer 1 no reading and no time is gained, and no request is forgotten.
LEMMA PaceKept ==
  ASSUME Counters, Counters', PaceInv,
         UNCHANGED <<ctr_tasks, ctr_read_adc>>,
         ticks' \in {ticks, Upped(ticks)}, dropped' \in {dropped, Upped(dropped)},
         Readings' <= Readings,
         ticks # MenuTicks /\ dropped # MenuTicks => Requests' >= Requests
  PROVE  PaceInv'
<1>1. /\ ticks' \in 0..MenuTicks /\ dropped' \in 0..MenuTicks
      /\ ticks = MenuTicks => ticks' = MenuTicks
      /\ dropped = MenuTicks => dropped' = MenuTicks
  BY PaceAssumption DEF PaceInv, Upped
<1>2. CASE ticks = MenuTicks \/ dropped = MenuTicks
  BY <1>1, <1>2 DEF PaceInv
<1>3. CASE ticks # MenuTicks /\ dropped # MenuTicks
  <2>1. MenuTicks \in Nat
    BY PaceAssumption
  <2>2. /\ ticks \in Int /\ dropped \in Int /\ ticks' \in Int /\ dropped' \in Int
    BY <1>1, <2>1 DEF PaceInv
  <2>3. /\ Requests \in Int /\ Requests' \in Int
    BY <2>2 DEF Requests, One
  <2>4. /\ Readings \in Int /\ Readings' \in Int
    BY SchedulerAssumption DEF Readings, One, Counters
  <2> HIDE DEF Readings, Requests
  <2>5. /\ ReadingPeriod * Readings' \in Int /\ ReadingPeriod * Readings \in Int
        /\ ReadingPeriod * Readings' <= ReadingPeriod * Readings
    BY <2>4, Longer, Periods
  <2>6. /\ MenuPeriod * Requests' \in Int /\ MenuPeriod * Requests \in Int
        /\ MenuPeriod * Requests <= MenuPeriod * Requests'
    BY <1>3, <2>3, Longer, Periods
  <2>7. ReadingsTime <= RequestsTime + AdcPeriod
    BY <1>3 DEF PaceInv
  <2>8. /\ ctr_read_adc \in Int /\ ctr_tasks \in Int /\ AdcPeriod \in Int
        /\ ctr_read_adc' = ctr_read_adc /\ ctr_tasks' = ctr_tasks
    BY SchedulerAssumption DEF Counters
  <2>9. ReadingsTime' <= RequestsTime' + AdcPeriod
    BY <2>5, <2>6, <2>7, <2>8 DEF ReadingsTime, RequestsTime
  <2> QED
    BY <1>1, <2>9 DEF PaceInv
<1> QED
  BY <1>2, <1>3

\* The inductive step.
LEMMA PaceStep ==
  ASSUME SchedulerInv, PaceInv, [PaceNext]_paceVars
  PROVE  PaceInv'
<1>1. Counters /\ Counters' /\ OwnInv
  BY SchedulerInvStep, PaceOfScheduler, Zenon DEF SchedulerInv
<1>2. /\ held \in Int /\ MenuTicks \in Int
      /\ ticks \in 0..MenuTicks /\ dropped \in 0..MenuTicks
  BY <1>1, SchedulerAssumption, PaceAssumption DEF Counters, PaceInv
<1>3. CASE Timer1
  BY <1>3, PaceTimer1
<1>4. CASE Timer2Store
  BY <1>1, <1>2, <1>4, PaceKept
  DEF Timer2Store, JoystickStore, Readings, Requests, One, Upped, joysticks
<1>5. CASE MenuTick
  <2>1. state = "TASKS"
    BY <1>1, <1>5 DEF MenuTick, Tasks, Serve, MainAt, OwnInv, HandlerOwnsState, Handler
  <2> QED
    BY <1>1, <1>2, <1>5, <2>1, PaceKept
    DEF MenuTick, Tasks, Serve, timers, Readings, Requests, One, Upped
<1>6. CASE GestureMade
  <2>1. held' = 0 /\ ticks' = 0 /\ dropped' = 0 /\ state' = "WAIT"
    BY <1>6 DEF GestureMade, Gesture, Serve
  <2>2. Readings' = 0 /\ Requests' = 0
    BY <2>1 DEF Readings, Requests, One
  <2>3. ReadingsTime' <= RequestsTime' + AdcPeriod
    BY <1>1, <2>2, NoReadings DEF ReadingsTime, RequestsTime, Counters
  <2> QED
    BY <1>2, <2>1, <2>3 DEF PaceInv
<1>7. CASE ReadingOnly
  <2>1. state = "READ_ADC"
    BY <1>1, <1>7
    DEF ReadingOnly, NoGesture, Serve, MainAt, OwnInv, HandlerOwnsState, Handler
  <2>2. held' <= held + 1
    BY <1>1, <1>2, <1>7, SchedulerAssumption DEF ReadingOnly, NoGesture, Counters
  <2> QED
    BY <1>1, <1>2, <1>7, <2>1, <2>2, PaceKept
    DEF ReadingOnly, NoGesture, Serve, timers, Readings, Requests, One
<1>8. CASE Others
  <2>1. /\ UNCHANGED <<ctr_tasks, ctr_read_adc, held, ticks, dropped>>
        /\ state' \in {state, "WAIT"}
        /\ state' = "WAIT" => state # "TASKS"
    BY <1>1, <1>8
    DEF Others, IntHandlerDrvTmrInstance1, MotorPass, GlobalStatus, Switch, Initialise,
        Calibrate, JoystickAction, Serve, MainAt, OwnInv, HandlerOwnsState, Handler,
        timers, joysticks
  <2> QED
    BY <1>1, <1>2, <2>1, PaceKept DEF Readings, Requests, One
<1>9. CASE UNCHANGED paceVars
  BY <1>9
  DEF paceVars, vars, timers, joysticks, PaceInv, ReadingsTime, RequestsTime, Readings,
      Requests, One
<1> QED
  BY <1>3, <1>4, <1>5, <1>6, <1>7, <1>8, <1>9 DEF PaceNext

\* A reading that makes a gesture ends a hold, and the hold has seen the menu asked
\* for.
LEMMA GestureStep ==
  ASSUME SchedulerInv, PaceInv, GestureMade
  PROVE  ticks + dropped >= MenuTicks
<1>1. Counters /\ OwnInv
  BY Zenon DEF SchedulerInv
<1>2. MenuTicks \in Int /\ ticks \in 0..MenuTicks /\ dropped \in 0..MenuTicks
  BY PaceAssumption DEF PaceInv
<1>3. Readings = HoldReadings /\ Requests = ticks + dropped
  <2>1. state = "READ_ADC"
    BY <1>1
    DEF GestureMade, Gesture, Serve, MainAt, OwnInv, HandlerOwnsState, Handler
  <2>2. held + 1 = HoldReadings
    BY <1>1, SchedulerAssumption DEF GestureMade, Gesture, Counters
  <2> QED
    BY <1>2, <2>1, <2>2 DEF Readings, Requests, One
<1>4. CASE ticks = MenuTicks \/ dropped = MenuTicks
  BY <1>2, <1>4
<1>5. CASE ticks # MenuTicks /\ dropped # MenuTicks
  <2> DEFINE n == ticks + dropped
  <2>1. ReadingPeriod * HoldReadings + ctr_read_adc
          <= MenuPeriod * n + ctr_tasks + AdcPeriod
    BY <1>3, <1>5 DEF PaceInv, ReadingsTime, RequestsTime
  <2>2. n \in Int
    BY <1>2
  <2> HIDE DEF n
  <2>3. ASSUME n <= MenuTicks - 1 PROVE FALSE
    <3>1. /\ MenuPeriod * n \in Int /\ MenuPeriod * (MenuTicks - 1) \in Int
          /\ MenuPeriod * n <= MenuPeriod * (MenuTicks - 1)
      <4>1. MenuTicks - 1 \in Int /\ MenuPeriod \in Nat
        BY <1>2, Periods
      <4> QED
        BY <2>2, <2>3, <4>1, Longer, Zenon
    <3>2. ReadingPeriod * HoldReadings \in Int
      <4>1. HoldReadings \in Int
        BY SchedulerAssumption
      <4> QED
        BY <4>1, Periods
    <3>3. /\ ctr_read_adc \in 0..AdcPeriod /\ ctr_tasks \in 0..TasksPeriod
          /\ AdcPeriod \in Int /\ TasksPeriod \in Int
      BY <1>1, SchedulerAssumption DEF Counters
    <3>4. MenuPeriod * (MenuTicks - 1) + TasksPeriod + AdcPeriod
            < ReadingPeriod * HoldReadings
      BY PaceAssumption
    <3> QED
      BY <2>1, <3>1, <3>2, <3>3, <3>4
  <2>4. n >= MenuTicks
    BY <1>2, <2>2, <2>3
  <2> QED
    BY <2>4 DEF n
<1> QED
  BY <1>4, <1>5

\* Two gestures are at least MenuTicks requests for the menu apart, ticks or lost ones,
\* for every period of the counters and every length of the hold that allows it.
THEOREM PaceGesturesApart == PaceSpec => GesturesApart
<1>1. PaceInit => SchedulerInv /\ PaceInv
  <2>1. ASSUME PaceInit PROVE PaceInv
    <3>1. Readings = 0 /\ Requests = 0 /\ ctr_read_adc = 0 /\ ctr_tasks = 0
      BY <2>1 DEF PaceInit, Init, Readings, Requests, One
    <3>2. ReadingsTime <= RequestsTime + AdcPeriod
      BY <3>1, NoReadings, SchedulerAssumption DEF ReadingsTime, RequestsTime
    <3>3. ticks \in 0..MenuTicks /\ dropped \in 0..MenuTicks
      BY <2>1, PaceAssumption DEF PaceInit
    <3> QED
      BY <3>2, <3>3 DEF PaceInv
  <2> QED
    BY <2>1, SchedulerInvInit DEF PaceInit
<1>2. SchedulerInv /\ PaceInv /\ [PaceNext]_paceVars => SchedulerInv' /\ PaceInv'
  BY PaceStep, SchedulerInvStep, PaceOfScheduler
<1>3. SchedulerInv /\ PaceInv /\ [PaceNext]_paceVars
        => [GestureMade => ticks + dropped >= MenuTicks]_paceVars
  BY GestureStep
<1> QED
  BY <1>1, <1>2, <1>3, PTL DEF PaceSpec, GesturesApart
-----------------------------------------------------------------------------

\* Among positions of a bounded list that have a property one is the first.
LEMMA FirstPosition ==
  ASSUME NEW N \in Nat, NEW T \in SUBSET (1..N), T # {}
  PROVE  \E x \in T : \A y \in T : ~(y < x)
<1> DEFINE R == StrictSubsetOrdering(1..N)
           C == {S \in SUBSET (1..N) : \E x \in T : S = 1..x}
<1>1. IsWellFoundedOn(R, SUBSET (1..N))
  <2>1. IsFiniteSet(1..N)
    BY FS_Interval
  <2>2. FiniteSubsetsOf(1..N) = SUBSET (1..N)
    BY <2>1, FS_Subset DEF FiniteSubsetsOf
  <2> QED
    BY <2>2, FS_StrictSubsetOrderingWellFounded
<1>2. C \subseteq SUBSET (1..N)
  OBVIOUS
<1>3. C # {}
  <2>1. PICK x \in T : TRUE
    OBVIOUS
  <2>2. 1..x \in C
    OBVIOUS
  <2> QED
    BY <2>2
<1>4. \E S \in C : \A U \in C : ~(<<U, S>> \in R)
  <2> HIDE DEF R, C
  <2> QED
    BY <1>1, <1>2, <1>3, WFMin
<1>5. ASSUME NEW x \in T, NEW y \in T, y < x
      PROVE  <<1..y, 1..x>> \in R
  BY <1>5 DEF StrictSubsetOrdering
<1> HIDE DEF R
<1>6. PICK S \in C : \A U \in C : ~(<<U, S>> \in R)
  BY <1>4
<1>7. PICK x \in T : S = 1..x
  OBVIOUS
<1>8. ASSUME NEW y \in T PROVE ~(y < x)
  <2>1. 1..y \in C
    OBVIOUS
  <2> QED
    BY <1>5, <1>6, <1>7, <2>1
<1> QED
  BY <1>8
-----------------------------------------------------------------------------
\* What follows position n - 1 of a list: its element n or the end.
After(s, n) == IF n <= Len(s) THEN s[n] ELSE NULL

\* The links from a head on make the list s.
Linked(next, head, s) ==
  /\ head = After(s, 1)
  /\ \A i \in 1..Len(s) : next[s[i]] = After(s, i + 1)

\* The walk along the links of a list finds its elements and then nothing.
LEMMA WalkIs ==
  ASSUME NEW m, NEW head, NEW s \in Seq(Element), Linked(m.pNext, head, s)
  PROVE  Walk(m, head) = [n \in 1..PoolSize |-> After(s, n)]
<1> USE QueueAssumption
<1> DEFINE Step(f, n) ==
      IF n = 1 THEN head
      ELSE IF f[n - 1] = NULL THEN NULL ELSE m.pNext[f[n - 1]]
           g == [n \in 1..PoolSize |-> After(s, n)]
           w == Walk(m, head)
<1>1. Len(s) \in Nat /\ \A n \in 1..Len(s) : s[n] # NULL
  BY LenProperties, ElementOfSeq DEF Element, NULL
<1>2. g = [n \in 1..PoolSize |-> Step(g, n)]
  <2>1. ASSUME NEW n \in 1..PoolSize
        PROVE  After(s, n) = Step(g, n)
    <3>1. CASE n = 1
      BY <3>1 DEF Linked
    <3>2. CASE n # 1 /\ n - 1 <= Len(s)
      BY <3>2, <1>1 DEF Linked, After
    <3>3. CASE n # 1 /\ ~(n - 1 <= Len(s))
      BY <3>3, <1>1 DEF After
    <3> QED
      BY <3>1, <3>2, <3>3
  <2> QED
    BY <2>1
<1>3. w = [n \in 1..PoolSize |-> Step(w, n)]
  <2>1. w = CHOOSE f : f = [n \in 1..PoolSize |-> Step(f, n)]
    BY DEF Walk
  <2> HIDE DEF w, g
  <2> QED
    BY <2>1, <1>2
<1>4. \A n \in 1..PoolSize : w[n] = g[n]
  <2> DEFINE T == {n \in 1..PoolSize : w[n] # g[n]}
  <2>1. SUFFICES ASSUME T # {} PROVE FALSE
    OBVIOUS
  <2>2. PICK n \in T : \A k \in T : ~(k < n)
    BY <2>1, FirstPosition
  <2>3. n \in 1..PoolSize /\ w[n] # g[n]
    OBVIOUS
  <2>4. w[n] = Step(w, n) /\ g[n] = Step(g, n)
    <3> HIDE DEF w, g, Step
    <3> QED
      BY <1>2, <1>3, <2>3
  <2>5. n # 1 => w[n - 1] = g[n - 1]
    BY <2>2, <2>3
  <2> HIDE DEF w, g
  <2> QED
    BY <2>3, <2>4, <2>5
<1> QED
  <2> HIDE DEF Step
  <2>1. w = [n \in 1..PoolSize |-> w[n]]
    <3> HIDE DEF w
    <3> QED
      BY <1>3
  <2>2. w = g
    <3> HIDE DEF w
    <3> QED
      BY <1>4, <2>1
  <2> QED
    BY <2>2

\* A list that fits in the pool is what a chain of its links yields.
LEMMA ChainIs ==
  ASSUME NEW m, NEW head, NEW s \in Seq(Element), Len(s) <= PoolSize,
         Linked(m.pNext, head, s)
  PROVE  Chain(m, head) = s
<1> DEFINE w == [n \in 1..PoolSize |-> After(s, n)]
           IsLength(k) == \A n \in 1..PoolSize : w[n] # NULL <=> n <= k
           length == CHOOSE k \in 0..PoolSize : IsLength(k)
<1>1. /\ Len(s) \in Nat /\ PoolSize \in Nat
      /\ \A n \in 1..Len(s) : s[n] # NULL
  BY QueueAssumption, LenProperties, ElementOfSeq DEF Element, NULL
<1>2. Chain(m, head) = [n \in 1..length |-> w[n]]
  <2>1. Walk(m, head) = w
    BY WalkIs
  <2> HIDE DEF w
  <2> QED
    BY <2>1 DEF Chain
<1>3. IsLength(Len(s))
  BY <1>1 DEF After
<1>4. ASSUME NEW k \in 0..PoolSize, IsLength(k)
      PROVE  k = Len(s)
  <2>1. Len(s) \in 0..PoolSize
    BY <1>1
  <2>2. \A n \in 1..PoolSize : n <= k <=> n <= Len(s)
    BY <1>3, <1>4
  <2> QED
    BY <2>1, <2>2, <1>1
<1>5. length = Len(s)
  <2> HIDE DEF IsLength
  <2>1. Len(s) \in 0..PoolSize
    BY <1>1
  <2> QED
    BY <2>1, <1>3, <1>4
<1>6. \A n \in 1..Len(s) : w[n] = s[n]
  BY <1>1 DEF After
<1>7. s = [n \in 1..Len(s) |-> s[n]]
  BY LenProperties
<1> HIDE DEF w, length
<1> QED
  BY <1>2, <1>5, <1>6, <1>7
-----------------------------------------------------------------------------
\* The five lists the elements are in, the element running on a bus being one of
\* one element: free, waiting on each bus, running on each bus.
Place == 0..4
FreePlace == 0
WaitPlace(b) == 1 + b
RunPlace(b) == 3 + b

Lists == [Place -> Seq(Element)]

\* No element is at two positions, every element is at one.
Distinct(q) ==
  \A x, y \in Place : \A i \in 1..Len(q[x]), j \in 1..Len(q[y]) :
    q[x][i] = q[y][j] => x = y /\ i = j
Covering(q) ==
  \A e \in Element : \E x \in Place : \E i \in 1..Len(q[x]) : q[x][i] = e

\* The links in the elements make the lists.
Linking(next, q) ==
  \A x \in Place : \A i \in 1..Len(q[x]) : next[q[x][i]] = After(q[x], i + 1)

LastIn(s) == IF Len(s) = 0 THEN NULL ELSE s[Len(s)]

\* The elements of the reserve a bus has not drawn yet.
Undrawn(m, b) ==
  IF m.queue[b].numAlloc < m.queue[b].numReserved
  THEN m.queue[b].numReserved - m.queue[b].numAlloc ELSE 0

\* The manager's heads, tails and counts are those of the lists.
Tells(m, q) ==
  /\ m.pFreeElementHead = After(q[FreePlace], 1)
  /\ m.pFreeElementTail = LastIn(q[FreePlace])
  /\ m.numFreeElements = Len(q[FreePlace])
  /\ \A b \in Bus :
       /\ m.queue[b].pHead = After(q[WaitPlace(b)], 1)
       /\ m.queue[b].pTail = LastIn(q[WaitPlace(b)])
       /\ m.queue[b].numAlloc = Len(q[WaitPlace(b)]) + Len(q[RunPlace(b)])

\* Each element is counted once, and what a bus has not drawn of its reserve is
\* kept free for it.
Counted(m) ==
  /\ \A b \in Bus : /\ m.queue[b].numAlloc <= maxElements
                    /\ m.queue[b].numReserved \in {0, reserveElements}
  /\ m.numFreeElements + m.queue[0].numAlloc + m.queue[1].numAlloc = PoolSize
  /\ m.numReserveElements = Undrawn(m, 0) + Undrawn(m, 1)
  /\ m.numReserveElements <= m.numFreeElements

Arranged(m, q) ==
  /\ m \in ManagerData /\ q \in Lists
  /\ Distinct(q) /\ Covering(q)
  /\ Linking(m.pNext, q)
  /\ Tells(m, q)
  /\ Counted(m)

\* The lists of the pool and of the jobs that run.
ListsOf(m, current) ==
  [x \in Place |->
     IF x = FreePlace THEN Chain(m, m.pFreeElementHead)
     ELSE IF x \in {WaitPlace(0), WaitPlace(1)}
     THEN Chain(m, m.queue[x - 1].pHead)
     ELSE IF current[x - 3] = NULL THEN <<>> ELSE <<current[x - 3]>>]

Current == [b \in Bus |-> obj[b].currentJob]
AllLists == ListsOf(pool, Current)

PassStep == {"boot", "open", "app", "tasks", "starting", "send", "errors",
             "dropping", "receive", "ending"}
DataType ==
  job \in [Element -> Job] /\ obj \in [Bus -> Object] /\ hw \in [Bus -> Hardware]
LoopType ==
  \/ loop \in [bus : Bus, step : PassStep, job : Pointer]
  \/ loop \in [bus : Bus, step : {"exchange"}, job : {NULL}, size : Nat,
               txcounter : Nat, rxcounter : Nat]

\* Where the main loop is says which job it has in hand.
LoopHolds ==
  LET current == obj[loop.bus].currentJob IN
  /\ loop.step \in {"starting", "send", "errors", "dropping", "ending"} =>
       loop.job # NULL /\ current = loop.job
  /\ loop.step = "receive" => loop.job # NULL /\ current \in {NULL, loop.job}
  /\ loop.step = "exchange" => current = NULL

\* The queues are created in turn, empty, before there is anything to queue.
Created ==
  /\ loop.step \in {"boot", "open"} =>
       \A b \in Bus :
         obj[b].currentJob = NULL /\ ~obj[b].sel /\ IsEmpty(pool, b)
  /\ \A b \in Bus : pool.queue[b].numReserved =
       IF loop.step = "boot" /\ b >= loop.bus THEN 0 ELSE reserveElements

\* The jobs that wait, and what a job has left to send and to receive.
Waiters(q) ==
  {e \in Element : \E b \in Bus : \E i \in 1..Len(q[WaitPlace(b)]) :
                     q[WaitPlace(b)][i] = e}
ToSend(j) == j.dataLeftToTx + j.dummyLeftToTx
ToGet(j) == j.dataLeftToRx + j.dummyLeftToRx

\* Until the pass that ends it a job has something left to receive, so that a
\* job the error step has ended is not ended again.
JobsLeft ==
  /\ \A e \in Waiters(AllLists) : ToGet(job[e]) # 0
  /\ \A b \in Bus : obj[b].currentJob # NULL /\ ~AtStep(b, "ending") =>
                     ToGet(job[obj[b].currentJob]) # 0
  /\ loop.step = "receive" => ToGet(job[loop.job]) # 0

PoolInv ==
  /\ DataType /\ LoopType /\ LoopHolds /\ Created
  /\ Arranged(pool, AllLists)
  /\ JobsLeft

\* The slave of an ended job is released if its client told how to.
Selected ==
  \A b \in Bus : obj[b].currentJob = NULL /\ obj[b].operationEnded => ~obj[b].sel

\* A job that waits has as much to send as to receive.
WaitingBalanced == \A e \in Waiters(AllLists) : ToSend(job[e]) = ToGet(job[e])

\* What a bus nothing else has written on sends and receives, as in
\* SymbolsBalanced.
Flow(o, h, j) ==
  /\ ~h.rov
  /\ o.currentJob = NULL => h.tx + h.rx = 0
  /\ o.currentJob # NULL => /\ h.tx + h.rx = o.symbolsInProgress
                            /\ h.tx + h.rx <= FifoSize
                            /\ ToSend(j) + (h.tx + h.rx) = ToGet(j)
BusFlows(b) ==
  b \notin disturbed /\ ~AtStep(b, "exchange") =>
    Flow(obj[b], hw[b], job[obj[b].currentJob])
Flows == \A b \in Bus : BusFlows(b)

\* What the main loop knows in the middle of a pass or of an exchange.
LoopCounts ==
  LET b == loop.bus IN
  /\ loop.step = "starting" => obj[b].symbolsInProgress = 0
  /\ loop.step = "dropping" => hw[b].rov
  /\ loop.step = "ending" => ToGet(job[loop.job]) = 0
  /\ loop.step = "exchange" =>
       /\ loop.rxcounter <= loop.txcounter /\ loop.txcounter <= loop.size
       /\ b \notin disturbed =>
            ~hw[b].rov /\ hw[b].tx + hw[b].rx = loop.txcounter - loop.rxcounter
                       /\ hw[b].tx + hw[b].rx <= FifoSize

SpiInv ==
  /\ PoolInv /\ Selected /\ WaitingBalanced /\ Flows /\ LoopCounts
  /\ disturbed \subseteq SharedBus
-----------------------------------------------------------------------------
\* What the pool's operators do to the lists: the first element of one goes to
\* the end of another.
Moved(q, x, y) ==
  [q EXCEPT ![x] = Tail(q[x]), ![y] = Append(q[y], q[x][1])]

\* Where the element at position i of list z of Moved(q, x, y) came from.
Origin(q, x, y, z, i) ==
  IF z = x THEN <<x, i + 1>>
  ELSE IF z = y /\ i = Len(q[y]) + 1 THEN <<x, 1>>
  ELSE <<z, i>>

\* Position by position, the lists after a move.
LEMMA MovedPositions ==
  ASSUME NEW q \in Lists, NEW x \in Place, NEW y \in Place, x # y, Len(q[x]) # 0
  PROVE  LET r == Moved(q, x, y) IN
         /\ r \in Lists
         /\ \A z \in Place : Len(r[z]) \in Nat /\ Len(q[z]) \in Nat
         /\ q[x][1] \in Element
         /\ Len(r[x]) = Len(q[x]) - 1
         /\ \A i \in 1..Len(r[x]) : r[x][i] = q[x][i + 1]
         /\ Len(r[y]) = Len(q[y]) + 1
         /\ \A i \in 1..Len(q[y]) : r[y][i] = q[y][i]
         /\ r[y][Len(q[y]) + 1] = q[x][1]
         /\ \A z \in Place \ {x, y} : r[z] = q[z]
<1> DEFINE r == Moved(q, x, y)
<1>1. \A z \in Place : q[z] \in Seq(Element)
  BY DEF Lists
<1>2. Len(q[x]) \in Nat \ {0} /\ q[x] # <<>> /\ q[x][1] \in Element
  <2>1. Len(q[x]) \in Nat /\ q[x] # <<>>
    BY <1>1, LenProperties, EmptySeq
  <2> QED
    BY <2>1, <1>1, ElementOfSeq
<1>3. /\ Tail(q[x]) \in Seq(Element) /\ Len(Tail(q[x])) = Len(q[x]) - 1
      /\ \A i \in 1..Len(Tail(q[x])) : Tail(q[x])[i] = q[x][i + 1]
  BY <1>1, <1>2, HeadTailProperties
<1>4. /\ Append(q[y], q[x][1]) \in Seq(Element)
      /\ Len(Append(q[y], q[x][1])) = Len(q[y]) + 1
      /\ \A i \in 1..Len(q[y]) : Append(q[y], q[x][1])[i] = q[y][i]
      /\ Append(q[y], q[x][1])[Len(q[y]) + 1] = q[x][1]
  <2>1. q[y] \in Seq(Element) /\ q[x][1] \in Element
    BY <1>1, <1>2
  <2> QED
    BY <2>1, AppendProperties
<1>5. /\ r[x] = Tail(q[x]) /\ r[y] = Append(q[y], q[x][1])
      /\ \A z \in Place \ {x, y} : r[z] = q[z]
  BY DEF Moved, Lists
<1>6. r \in Lists
  BY <1>3, <1>4 DEF Moved, Lists
<1>7. \A z \in Place : Len(r[z]) \in Nat /\ Len(q[z]) \in Nat
  BY <1>6, LenProperties DEF Lists
<1> HIDE DEF r
<1>8. /\ \A i \in 1..Len(r[x]) : r[x][i] = q[x][i + 1]
      /\ Len(r[x]) = Len(q[x]) - 1
  BY <1>3, <1>5
<1>9. /\ Len(r[y]) = Len(q[y]) + 1
      /\ \A i \in 1..Len(q[y]) : r[y][i] = q[y][i]
      /\ r[y][Len(q[y]) + 1] = q[x][1]
  BY <1>4, <1>5
<1> QED
  BY <1>2, <1>5, <1>6, <1>7, <1>8, <1>9 DEF r

\* Every position after the move has its origin, and no other has the same.
LEMMA MovedOrigin ==
  ASSUME NEW q \in Lists, NEW x \in Place, NEW y \in Place, x # y, Len(q[x]) # 0,
         NEW z \in Place, NEW i \in 1..Len(Moved(q, x, y)[z])
  PROVE  \E a \in Place : \E k \in 1..Len(q[a]) :
           /\ Origin(q, x, y, z, i) = <<a, k>>
           /\ Moved(q, x, y)[z][i] = q[a][k]
<1> DEFINE r == Moved(q, x, y)
<1>1. /\ \A a \in Place : Len(r[a]) \in Nat /\ Len(q[a]) \in Nat
      /\ Len(r[x]) = Len(q[x]) - 1
      /\ \A k \in 1..Len(r[x]) : r[x][k] = q[x][k + 1]
      /\ Len(r[y]) = Len(q[y]) + 1
      /\ \A k \in 1..Len(q[y]) : r[y][k] = q[y][k]
      /\ r[y][Len(q[y]) + 1] = q[x][1]
      /\ \A a \in Place \ {x, y} : r[a] = q[a]
  BY MovedPositions
<1>0. i \in 1..Len(r[z])
  OBVIOUS
<1> HIDE DEF r
<1>2. CASE z = x
  <2>1. i + 1 \in 1..Len(q[x]) /\ r[z][i] = q[x][i + 1]
    BY <1>0, <1>1, <1>2
  <2> QED
    BY <2>1, <1>2 DEF Origin, r
<1>3. CASE z = y /\ i = Len(q[y]) + 1
  <2>1. 1 \in 1..Len(q[x]) /\ r[z][i] = q[x][1]
    BY <1>0, <1>1, <1>3
  <2> QED
    BY <2>1, <1>3 DEF Origin, r
<1>4. CASE z # x /\ ~(z = y /\ i = Len(q[y]) + 1)
  <2>1. i \in 1..Len(q[z]) /\ r[z][i] = q[z][i]
    BY <1>0, <1>1, <1>4
  <2> QED
    BY <2>1, <1>4 DEF Origin, r
<1> QED
  BY <1>2, <1>3, <1>4

\* Two positions after the move do not have one origin.
LEMMA OriginUnique ==
  ASSUME NEW q, NEW x \in Place, NEW y \in Place, x # y,
         \A a \in Place : Len(q[a]) \in Nat,
         NEW z \in Place, NEW i \in Nat \ {0}, NEW w \in Place, NEW j \in Nat \ {0},
         Origin(q, x, y, z, i) = Origin(q, x, y, w, j)
  PROVE  z = w /\ i = j
BY DEF Origin

\* In distinct lists the element tells its list and its position.
LEMMA OnePosition ==
  ASSUME NEW q, Distinct(q), NEW a \in Place, NEW c \in Place,
         NEW k \in 1..Len(q[a]), NEW l \in 1..Len(q[c]), q[a][k] = q[c][l]
  PROVE  a = c /\ k = l
BY DEF Distinct

\* Distinct lists are distinct after the move.
LEMMA MovedDistinct ==
  ASSUME NEW q \in Lists, Distinct(q), NEW x \in Place, NEW y \in Place, x # y,
         Len(q[x]) # 0
  PROVE  Distinct(Moved(q, x, y))
<1> DEFINE r == Moved(q, x, y)
<1>1. \A a \in Place : Len(r[a]) \in Nat /\ Len(q[a]) \in Nat
  BY MovedPositions
<1>2. SUFFICES ASSUME NEW z \in Place, NEW w \in Place,
                      NEW i \in 1..Len(r[z]), NEW j \in 1..Len(r[w]),
                      r[z][i] = r[w][j]
               PROVE  z = w /\ i = j
  BY DEF Distinct
<1>3. PICK a \in Place : \E k \in 1..Len(q[a]) :
        Origin(q, x, y, z, i) = <<a, k>> /\ r[z][i] = q[a][k]
  BY MovedOrigin
<1>3a. PICK k \in 1..Len(q[a]) :
         Origin(q, x, y, z, i) = <<a, k>> /\ r[z][i] = q[a][k]
  BY <1>3
<1>4. PICK c \in Place : \E l \in 1..Len(q[c]) :
        Origin(q, x, y, w, j) = <<c, l>> /\ r[w][j] = q[c][l]
  BY MovedOrigin
<1>4a. PICK l \in 1..Len(q[c]) :
         Origin(q, x, y, w, j) = <<c, l>> /\ r[w][j] = q[c][l]
  BY <1>4
<1> HIDE DEF r
<1>5. a = c /\ k = l
  <2>1. q[a][k] = q[c][l]
    BY <1>2, <1>3a, <1>4a
  <2> QED
    BY <2>1, OnePosition
<1>6. i \in Nat \ {0} /\ j \in Nat \ {0}
  BY <1>1
<1>7. Origin(q, x, y, z, i) = Origin(q, x, y, w, j)
  BY <1>3a, <1>4a, <1>5
<1> QED
  BY <1>1, <1>6, <1>7, OriginUnique

\* Lists that hold every element hold every element after the move.
LEMMA MovedCovering ==
  ASSUME NEW q \in Lists, Covering(q), NEW x \in Place, NEW y \in Place, x # y,
         Len(q[x]) # 0
  PROVE  Covering(Moved(q, x, y))
<1> DEFINE r == Moved(q, x, y)
<1>1. /\ \A a \in Place : Len(r[a]) \in Nat /\ Len(q[a]) \in Nat
      /\ Len(r[x]) = Len(q[x]) - 1
      /\ \A k \in 1..Len(r[x]) : r[x][k] = q[x][k + 1]
      /\ Len(r[y]) = Len(q[y]) + 1
      /\ \A k \in 1..Len(q[y]) : r[y][k] = q[y][k]
      /\ r[y][Len(q[y]) + 1] = q[x][1]
      /\ \A a \in Place \ {x, y} : r[a] = q[a]
  BY MovedPositions
<1> HIDE DEF r
<1>2. ASSUME NEW e \in Element
      PROVE  \E z \in Place : \E i \in 1..Len(r[z]) : r[z][i] = e
  <2>0. PICK a \in Place : \E k \in 1..Len(q[a]) : q[a][k] = e
    BY DEF Covering
  <2>1. PICK k \in 1..Len(q[a]) : q[a][k] = e
    BY <2>0
  <2>2. CASE a = x /\ k = 1
    <3>1. Len(q[y]) + 1 \in 1..Len(r[y])
      BY <1>1
    <3> QED
      BY <3>1, <2>1, <2>2, <1>1
  <2>3. CASE a = x /\ k # 1
    <3>1. k - 1 \in 1..Len(r[x]) /\ r[x][k - 1] = e
      BY <2>1, <2>3, <1>1
    <3> QED
      BY <3>1
  <2>4. CASE a # x
    <3>1. k \in 1..Len(r[a]) /\ r[a][k] = e
      BY <2>1, <2>4, <1>1
    <3> QED
      BY <3>1
  <2> QED
    BY <2>2, <2>3, <2>4
<1> QED
  BY <1>2 DEF r, Covering

\* The links after a move: the element moved ends its list, the one that ended
\* it before leads to the element.
Relinked(next, q, x, y) ==
  [e \in Element |->
     IF e = q[x][1] THEN NULL
     ELSE IF e = LastIn(q[y]) THEN q[x][1]
     ELSE next[e]]

\* Relinked elements make the lists after the move.
LEMMA MovedLinking ==
  ASSUME NEW q \in Lists, Distinct(q), NEW x \in Place, NEW y \in Place, x # y,
         Len(q[x]) # 0, NEW next \in [Element -> Pointer], Linking(next, q)
  PROVE  Linking(Relinked(next, q, x, y), Moved(q, x, y))
<1> DEFINE r == Moved(q, x, y)
           link == Relinked(next, q, x, y)
<1>1. /\ \A a \in Place : Len(r[a]) \in Nat /\ Len(q[a]) \in Nat
      /\ Len(r[x]) = Len(q[x]) - 1
      /\ \A k \in 1..Len(r[x]) : r[x][k] = q[x][k + 1]
      /\ Len(r[y]) = Len(q[y]) + 1
      /\ \A k \in 1..Len(q[y]) : r[y][k] = q[y][k]
      /\ r[y][Len(q[y]) + 1] = q[x][1]
      /\ \A a \in Place \ {x, y} : r[a] = q[a]
  BY MovedPositions
<1>2. \A a \in Place : \A k \in 1..Len(q[a]) : q[a][k] \in Element
  BY ElementOfSeq DEF Lists
<1>3. 1 \in 1..Len(q[x]) /\ Len(q[x]) \in Nat
  BY <1>1
\* The element that moves.
<1>4. link[q[x][1]] = NULL
  BY <1>2, <1>3 DEF Relinked
\* The end of the list it goes to.
<1>5. ASSUME Len(q[y]) # 0
      PROVE  link[q[y][Len(q[y])]] = q[x][1]
  <2>1. Len(q[y]) \in 1..Len(q[y])
    BY <1>1, <1>5
  <2>2. q[y][Len(q[y])] # q[x][1]
    BY <1>3, <2>1, OnePosition
  <2>3. LastIn(q[y]) = q[y][Len(q[y])] /\ q[y][Len(q[y])] \in Element
    BY <1>2, <1>5, <2>1 DEF LastIn
  <2> QED
    BY <2>2, <2>3 DEF Relinked
\* Every other element.
<1>6. ASSUME NEW a \in Place, NEW k \in 1..Len(q[a]),
             ~(a = x /\ k = 1), ~(a = y /\ k = Len(q[y]))
      PROVE  link[q[a][k]] = After(q[a], k + 1)
  <2>1. q[a][k] # q[x][1]
    BY <1>3, <1>6, OnePosition
  <2>2. q[a][k] # LastIn(q[y])
    <3>1. CASE Len(q[y]) = 0
      BY <3>1, <1>2 DEF LastIn, Element, NULL
    <3>2. CASE Len(q[y]) # 0
      <4>1. Len(q[y]) \in 1..Len(q[y])
        BY <1>1, <3>2
      <4>2. q[a][k] # q[y][Len(q[y])]
        BY <1>6, <4>1, OnePosition
      <4> QED
        BY <3>2, <4>2 DEF LastIn
    <3> QED
      BY <3>1, <3>2
  <2>3. q[a][k] \in Element /\ next[q[a][k]] = After(q[a], k + 1)
    BY <1>2 DEF Linking
  <2> QED
    BY <2>1, <2>2, <2>3 DEF Relinked
<1> HIDE DEF r, link
<1>7. ASSUME NEW z \in Place, NEW i \in 1..Len(r[z])
      PROVE  link[r[z][i]] = After(r[z], i + 1)
  <2>1. CASE z = x
    <3>1. /\ i + 1 \in 1..Len(q[x]) /\ r[z][i] = q[x][i + 1]
          /\ ~(x = x /\ i + 1 = 1) /\ ~(x = y /\ i + 1 = Len(q[y]))
      BY <1>1, <1>7, <2>1
    <3>2. link[r[z][i]] = After(q[x], i + 2)
      BY <1>6, <1>7, <3>1
    <3>3. After(r[z], i + 1) = After(q[x], i + 2)
      BY <1>1, <1>7, <2>1 DEF After
    <3> QED
      BY <3>2, <3>3
  <2>2. CASE z = y /\ i = Len(q[y]) + 1
    BY <1>1, <1>4, <2>2 DEF After
  <2>3. CASE z = y /\ i = Len(q[y])
    <3>1. r[z][i] = q[y][Len(q[y])] /\ Len(q[y]) # 0
      BY <1>1, <1>7, <2>3
    <3>2. After(r[z], i + 1) = q[x][1]
      BY <1>1, <2>3 DEF After
    <3> QED
      BY <1>5, <3>1, <3>2
  <2>4. CASE z = y /\ i < Len(q[y])
    <3>1. /\ i \in 1..Len(q[y]) /\ r[z][i] = q[y][i]
          /\ ~(y = x /\ i = 1) /\ ~(y = y /\ i = Len(q[y]))
      BY <1>1, <1>7, <2>4
    <3>2. After(r[z], i + 1) = After(q[y], i + 1)
      BY <1>1, <1>7, <2>4 DEF After
    <3> QED
      BY <1>6, <3>1, <3>2
  <2>5. CASE z # x /\ z # y
    BY <1>1, <1>6, <1>7, <2>5
  <2> QED
    BY <1>1, <1>7, <2>1, <2>2, <2>3, <2>4, <2>5
<1> QED
  BY <1>7 DEF r, link, Linking
-----------------------------------------------------------------------------
\* What the manager's data says of lists that are arranged.
LEMMA ArrangedFacts ==
  ASSUME NEW m, NEW q, Arranged(m, q)
  PROVE  /\ m.pNext \in [Element -> Pointer]
         /\ m.pFreeElementHead \in Pointer /\ m.pFreeElementTail \in Pointer
         /\ m.numFreeElements \in Nat /\ m.numReserveElements \in Nat
         /\ \A b \in Bus : /\ m.queue[b] \in QueueData
                           /\ m.queue[b].pHead \in Pointer
                           /\ m.queue[b].pTail \in Pointer
                           /\ m.queue[b].numAlloc \in Nat
                           /\ m.queue[b].numReserved \in Nat
         /\ \A z \in Place : Len(q[z]) \in Nat
         /\ \A z \in Place : \A i \in 1..Len(q[z]) : q[z][i] \in Element
BY DriverAssumption, LenProperties, ElementOfSeq
DEF Arranged, ManagerData, QueueData, Lists

\* The fields that each call of the driver leaves, of the manager and of the
\* queues.
FieldsAre(n, m, b, head, tail, alloc, reserved) ==
  /\ \A c \in Bus \ {b} : n.queue[c] = m.queue[c]
  /\ n.queue[b].pHead = head /\ n.queue[b].pTail = tail
  /\ n.queue[b].numAlloc = alloc /\ n.queue[b].numReserved = reserved

\* A record with the manager's fields, each of its type, is a manager's data.
Fields == {"pNext", "pFreeElementHead", "pFreeElementTail", "numFreeElements",
           "numReserveElements", "queue"}

\* The manager's data is its five fields and two queues.
LEMMA ManagerWhole ==
  ASSUME NEW n, NEW a \in [Element -> Pointer], NEW h \in Pointer,
         NEW t \in Pointer, NEW f \in Nat, NEW r \in Nat,
         NEW k \in [Queues -> QueueData],
         n = [pNext |-> a, pFreeElementHead |-> h, pFreeElementTail |-> t,
              numFreeElements |-> f, numReserveElements |-> r, queue |-> k]
  PROVE  n \in ManagerData
BY DEF ManagerData

\* Data whose fields have their types is the manager's.
LEMMA ManagerIs ==
  ASSUME NEW n, n = [x \in DOMAIN n |-> n[x]], DOMAIN n = Fields,
         n.pNext \in [Element -> Pointer], n.pFreeElementHead \in Pointer,
         n.pFreeElementTail \in Pointer, n.numFreeElements \in Nat,
         n.numReserveElements \in Nat, n.queue \in [Queues -> QueueData]
  PROVE  n \in ManagerData
<1> DEFINE c == [pNext |-> n.pNext, pFreeElementHead |-> n.pFreeElementHead,
                 pFreeElementTail |-> n.pFreeElementTail,
                 numFreeElements |-> n.numFreeElements,
                 numReserveElements |-> n.numReserveElements,
                 queue |-> n.queue]
<1>1. n = [x \in Fields |-> n[x]]
  OBVIOUS
<1>2. c = [x \in Fields |-> n[x]]
  BY DEF Fields
<1>3. n = c
  BY <1>1, <1>2
<1> QED
  BY <1>3, ManagerWhole, Zenon

\* Counts that stay in the pool do not wrap around.
LEMMA CountsFit ==
  ASSUME NEW n \in Nat, n <= PoolSize
  PROVE  CountUp(n) = n + 1 /\ (n # 0 => CountDown(n) = n - 1)
<1> USE QueueAssumption
<1>1. ASSUME NEW k \in Nat, k < SizeWord PROVE k % SizeWord = k
  BY <1>1
<1>2. n + 1 \in Nat /\ n + 1 < SizeWord
  OBVIOUS
<1>3. n # 0 => n - 1 \in Nat /\ n - 1 < SizeWord
  OBVIOUS
<1> QED
  BY <1>1, <1>2, <1>3 DEF CountUp, CountDown

\* The fields after an element is allocated.
LEMMA AllocFields ==
  ASSUME NEW m \in ManagerData, NEW b \in Bus,
         ElementOf(m) \in Element, m.numFreeElements # 0,
         m.numFreeElements <= PoolSize, m.queue[b].numAlloc <= PoolSize,
         m.numReserveElements <= PoolSize,
         m.numReserveElements >= Undrawn(m, 0) + Undrawn(m, 1)
  PROVE  LET n == AllocElementLock(m, b)
             e == ElementOf(m) IN
         /\ n \in ManagerData
         /\ n.pNext = [m.pNext EXCEPT ![e] = NULL]
         /\ n.pFreeElementHead = m.pNext[e]
         /\ n.pFreeElementTail =
              IF m.pNext[e] = NULL THEN NULL ELSE m.pFreeElementTail
         /\ n.numFreeElements = m.numFreeElements - 1
         /\ n.numReserveElements = m.numReserveElements -
              (IF m.queue[b].numAlloc < m.queue[b].numReserved THEN 1 ELSE 0)
         /\ FieldsAre(n, m, b, m.queue[b].pHead, m.queue[b].pTail,
                      m.queue[b].numAlloc + 1, m.queue[b].numReserved)
<1> USE DriverAssumption
<1> DEFINE drawn == IF m.queue[b].numAlloc < m.queue[b].numReserved THEN 1 ELSE 0
<1>1. /\ m.numFreeElements - 1 \in Nat
      /\ m.numReserveElements - drawn \in Nat
      /\ m.queue[b].numAlloc + 1 \in Nat
  <2>1. /\ m.queue[0].numAlloc \in Nat /\ m.queue[0].numReserved \in Nat
        /\ m.queue[1].numAlloc \in Nat /\ m.queue[1].numReserved \in Nat
        /\ m.numFreeElements \in Nat /\ m.numReserveElements \in Nat
    BY DEF ManagerData, QueueData, Bus
  <2>2. drawn <= Undrawn(m, b) /\ drawn \in Nat
    BY <2>1 DEF Undrawn, Bus
  <2>3. Undrawn(m, 0) \in Nat /\ Undrawn(m, 1) \in Nat
    BY <2>1 DEF Undrawn
  <2>4. m.numReserveElements - drawn \in Nat
    <3> HIDE DEF drawn
    <3> QED
      BY <2>1, <2>2, <2>3 DEF Bus
  <2> QED
    BY <2>1, <2>4 DEF Bus
<1> DEFINE n == AllocElementLock(m, b)
           next == m.pNext[ElementOf(m)]
<1>2. /\ CountDown(m.numFreeElements) = m.numFreeElements - 1
      /\ CountUp(m.queue[b].numAlloc) = m.queue[b].numAlloc + 1
      /\ (IF m.queue[b].numAlloc < m.queue[b].numReserved
          THEN CountDown(m.numReserveElements) ELSE m.numReserveElements)
           = m.numReserveElements - drawn
  <2>1. /\ m.numFreeElements \in Nat /\ m.numReserveElements \in Nat
        /\ m.queue[b].numAlloc \in Nat
    BY DEF ManagerData, QueueData
  <2>2. m.queue[b].numAlloc < m.queue[b].numReserved => m.numReserveElements # 0
    BY <1>1, <2>1
  <2> QED
    BY <2>1, <2>2, CountsFit
<1>3. n = [m EXCEPT !.pFreeElementHead = next,
                    !.pFreeElementTail = IF next = NULL THEN NULL ELSE @,
                    !.pNext[ElementOf(m)] = NULL,
                    !.numFreeElements = m.numFreeElements - 1,
                    !.numReserveElements = m.numReserveElements - drawn,
                    !.queue[b].numAlloc = m.queue[b].numAlloc + 1]
  BY <1>2 DEF AllocElementLock, AllocElement, ManagerData, QueueData
<1> HIDE DEF n
<1>4. n \in ManagerData
  <2>1. n.pNext \in [Element -> Pointer]
    BY <1>1, <1>3 DEF ManagerData, QueueData, Pointer
  <2>2. n.queue \in [Queues -> QueueData]
    BY <1>1, <1>3 DEF ManagerData, QueueData, Pointer
  <2>3. /\ n.pFreeElementHead \in Pointer /\ n.pFreeElementTail \in Pointer
        /\ n.numFreeElements \in Nat /\ n.numReserveElements \in Nat
    BY <1>1, <1>3 DEF ManagerData, QueueData, Pointer
  <2>4. n = [x \in DOMAIN n |-> n[x]]
    BY <1>3, Zenon
  <2>5. DOMAIN n = Fields
    BY <1>3 DEF ManagerData, Fields
  <2> QED
    BY <2>1, <2>2, <2>3, <2>4, <2>5, ManagerIs
<1>5. /\ n.pNext = [m.pNext EXCEPT ![ElementOf(m)] = NULL]
      /\ n.pFreeElementHead = next
      /\ n.pFreeElementTail = IF next = NULL THEN NULL ELSE m.pFreeElementTail
      /\ n.numFreeElements = m.numFreeElements - 1
      /\ n.numReserveElements = m.numReserveElements - drawn
      /\ FieldsAre(n, m, b, m.queue[b].pHead, m.queue[b].pTail,
                   m.queue[b].numAlloc + 1, m.queue[b].numReserved)
  BY <1>3 DEF ManagerData, QueueData, FieldsAre
<1> QED
  BY <1>4, <1>5 DEF n

\* The fields after an element is put in a queue.
LEMMA EnqueueFields ==
  ASSUME NEW m \in ManagerData, NEW b \in Bus, NEW e \in Element,
         m.queue[b].pHead # NULL => m.queue[b].pTail \in Element
  PROVE  LET n == EnqueueLock(m, b, e) IN
         /\ n \in ManagerData
         /\ n.pNext = IF m.queue[b].pHead = NULL THEN m.pNext
                      ELSE [m.pNext EXCEPT ![m.queue[b].pTail] = e]
         /\ n.pFreeElementHead = m.pFreeElementHead
         /\ n.pFreeElementTail = m.pFreeElementTail
         /\ n.numFreeElements = m.numFreeElements
         /\ n.numReserveElements = m.numReserveElements
         /\ FieldsAre(n, m, b,
              IF m.queue[b].pHead = NULL THEN e ELSE m.queue[b].pHead, e,
              m.queue[b].numAlloc, m.queue[b].numReserved)
<1> USE DriverAssumption
<1>1. EnqueueLock(m, b, e) \in ManagerData
  <2> DEFINE n == EnqueueLock(m, b, e)
  <2> USE DEF EnqueueLock, Enqueue, IsEmpty
  <2>1. n.pNext \in [Element -> Pointer]
    BY DEF ManagerData, QueueData, Pointer
  <2>2. n.queue \in [Queues -> QueueData]
    BY DEF ManagerData, QueueData, Pointer
  <2>3. /\ n.pFreeElementHead \in Pointer /\ n.pFreeElementTail \in Pointer
        /\ n.numFreeElements \in Nat /\ n.numReserveElements \in Nat
    BY DEF ManagerData, QueueData, Pointer
  <2>4. n = [x \in DOMAIN n |-> n[x]]
    OBVIOUS
  <2>5. DOMAIN n = Fields
    BY DEF ManagerData, Fields
  <2> HIDE DEF n
  <2>6. n \in ManagerData
    BY <2>1, <2>2, <2>3, <2>4, <2>5, ManagerIs
  <2> QED
    BY <2>6 DEF n
<1> QED
  BY <1>1 DEF EnqueueLock, Enqueue, IsEmpty, ManagerData, QueueData, FieldsAre

\* The fields after the first element of a queue is taken.
LEMMA TakeFields ==
  ASSUME NEW m \in ManagerData, NEW b \in Bus, m.queue[b].pHead \in Element
  PROVE  LET e == m.queue[b].pHead
             n == DequeueLock(m, b) IN
         /\ n \in ManagerData
         /\ n.pNext = [m.pNext EXCEPT ![e] = NULL]
         /\ n.pFreeElementHead = m.pFreeElementHead
         /\ n.pFreeElementTail = m.pFreeElementTail
         /\ n.numFreeElements = m.numFreeElements
         /\ n.numReserveElements = m.numReserveElements
         /\ FieldsAre(n, m, b, m.pNext[e],
              IF m.pNext[e] = NULL THEN NULL ELSE m.queue[b].pTail,
              m.queue[b].numAlloc, m.queue[b].numReserved)
<1> USE DriverAssumption
<1>1. DequeueLock(m, b) \in ManagerData
  <2> DEFINE n == DequeueLock(m, b)
  <2> USE DEF DequeueLock, Dequeue
  <2>1. n.pNext \in [Element -> Pointer]
    BY DEF ManagerData, QueueData, Pointer
  <2>2. n.queue \in [Queues -> QueueData]
    BY DEF ManagerData, QueueData, Pointer
  <2>3. /\ n.pFreeElementHead \in Pointer /\ n.pFreeElementTail \in Pointer
        /\ n.numFreeElements \in Nat /\ n.numReserveElements \in Nat
    BY DEF ManagerData, QueueData, Pointer
  <2>4. n = [x \in DOMAIN n |-> n[x]]
    OBVIOUS
  <2>5. DOMAIN n = Fields
    BY DEF ManagerData, Fields
  <2> HIDE DEF n
  <2>6. n \in ManagerData
    BY <2>1, <2>2, <2>3, <2>4, <2>5, ManagerIs
  <2> QED
    BY <2>6 DEF n
<1> DEFINE n == DequeueLock(m, b)
           e == m.queue[b].pHead
<1>2. /\ n.pNext = [m.pNext EXCEPT ![e] = NULL]
      /\ n.pFreeElementHead = m.pFreeElementHead
      /\ n.pFreeElementTail = m.pFreeElementTail
      /\ n.numFreeElements = m.numFreeElements
      /\ n.numReserveElements = m.numReserveElements
  BY DEF DequeueLock, Dequeue, ManagerData
<1>3. n.queue = [m.queue EXCEPT
        ![b].pHead = m.pNext[e],
        ![b].pTail = IF m.pNext[e] = NULL THEN NULL ELSE @]
  BY DEF DequeueLock, Dequeue, ManagerData
<1>4. FieldsAre(n, m, b, m.pNext[e],
        IF m.pNext[e] = NULL THEN NULL ELSE m.queue[b].pTail,
        m.queue[b].numAlloc, m.queue[b].numReserved)
  <2> HIDE DEF n
  <2> QED
    BY <1>3 DEF ManagerData, QueueData, FieldsAre
<1> QED
  BY <1>1, <1>2, <1>4

\* The fields after an element is given back.
LEMMA FreeFields ==
  ASSUME NEW m \in ManagerData, NEW b \in Bus, NEW e \in Element,
         m.pFreeElementHead # NULL => m.pFreeElementTail \in Element,
         m.queue[b].numAlloc # 0, m.queue[b].numAlloc <= PoolSize,
         m.numFreeElements <= PoolSize, m.numReserveElements <= PoolSize
  PROVE  LET n == FreeElementLock(m, b, e) IN
         /\ n \in ManagerData
         /\ n.pNext = IF m.pFreeElementHead = NULL THEN m.pNext
                      ELSE [m.pNext EXCEPT ![m.pFreeElementTail] = e]
         /\ n.pFreeElementHead =
              IF m.pFreeElementHead = NULL THEN e ELSE m.pFreeElementHead
         /\ n.pFreeElementTail = e
         /\ n.numFreeElements = m.numFreeElements + 1
         /\ n.numReserveElements = m.numReserveElements +
              (IF m.queue[b].numAlloc <= m.queue[b].numReserved THEN 1 ELSE 0)
         /\ FieldsAre(n, m, b, m.queue[b].pHead, m.queue[b].pTail,
                      m.queue[b].numAlloc - 1, m.queue[b].numReserved)
<1> USE DriverAssumption
<1> DEFINE n == FreeElementLock(m, b, e)
           alloc == m.queue[b].numAlloc
           back == IF alloc <= m.queue[b].numReserved THEN 1 ELSE 0
<1>1. /\ alloc \in Nat /\ alloc - 1 \in Nat /\ m.queue[b].numReserved \in Nat
      /\ m.numFreeElements \in Nat /\ m.numReserveElements \in Nat
  BY DEF ManagerData, QueueData
<1>2. /\ CountDown(alloc) = alloc - 1
      /\ CountUp(m.numFreeElements) = m.numFreeElements + 1
      /\ (IF alloc - 1 < m.queue[b].numReserved
          THEN CountUp(m.numReserveElements) ELSE m.numReserveElements)
           = m.numReserveElements + back
  BY <1>1, CountsFit
<1>3. n = [m EXCEPT !.pFreeElementHead = IF @ = NULL THEN e ELSE @,
                    !.pNext = IF m.pFreeElementHead = NULL THEN @
                              ELSE [@ EXCEPT ![m.pFreeElementTail] = e],
                    !.pFreeElementTail = e,
                    !.numFreeElements = m.numFreeElements + 1,
                    !.numReserveElements = m.numReserveElements + back,
                    !.queue[b].numAlloc = alloc - 1]
  BY <1>2 DEF FreeElementLock, FreeElement, ManagerData, QueueData
<1> HIDE DEF n
<1>4. n \in ManagerData
  <2>1. n.pNext \in [Element -> Pointer]
    BY <1>1, <1>3 DEF ManagerData, QueueData, Pointer
  <2>2. n.queue \in [Queues -> QueueData]
    BY <1>1, <1>3 DEF ManagerData, QueueData, Pointer
  <2>3. /\ n.pFreeElementHead \in Pointer /\ n.pFreeElementTail \in Pointer
        /\ n.numFreeElements \in Nat /\ n.numReserveElements \in Nat
    BY <1>1, <1>3 DEF ManagerData, QueueData, Pointer
  <2>4. n = [x \in DOMAIN n |-> n[x]]
    BY <1>3, Zenon
  <2>5. DOMAIN n = Fields
    BY <1>3 DEF ManagerData, Fields
  <2> QED
    BY <2>1, <2>2, <2>3, <2>4, <2>5, ManagerIs
<1>5. /\ n.pNext = IF m.pFreeElementHead = NULL THEN m.pNext
                   ELSE [m.pNext EXCEPT ![m.pFreeElementTail] = e]
      /\ n.pFreeElementHead =
           IF m.pFreeElementHead = NULL THEN e ELSE m.pFreeElementHead
      /\ n.pFreeElementTail = e
      /\ n.numFreeElements = m.numFreeElements + 1
      /\ n.numReserveElements = m.numReserveElements + back
      /\ FieldsAre(n, m, b, m.queue[b].pHead, m.queue[b].pTail,
                   m.queue[b].numAlloc - 1, m.queue[b].numReserved)
  BY <1>3 DEF ManagerData, QueueData, FieldsAre
<1> QED
  BY <1>4, <1>5 DEF n

\* The fields after a queue is created.
LEMMA CreateFields ==
  ASSUME NEW m \in ManagerData, NEW b \in Bus
  PROVE  LET n == CreateQueue(m, b) IN
         /\ n \in ManagerData
         /\ n.pNext = m.pNext
         /\ n.pFreeElementHead = m.pFreeElementHead
         /\ n.pFreeElementTail = m.pFreeElementTail
         /\ n.numFreeElements = m.numFreeElements
         /\ n.numReserveElements = m.numReserveElements + reserveElements
         /\ FieldsAre(n, m, b, NULL, NULL, 0, reserveElements)
<1> USE DriverAssumption, QueueAssumption
<1>1. CreateQueue(m, b) \in ManagerData
  <2> DEFINE n == CreateQueue(m, b)
  <2> USE DEF CreateQueue, NoQueue
  <2>1. n.pNext \in [Element -> Pointer]
    BY DEF ManagerData, QueueData, Pointer
  <2>2. n.queue \in [Queues -> QueueData]
    BY DEF ManagerData, QueueData, Pointer
  <2>3. /\ n.pFreeElementHead \in Pointer /\ n.pFreeElementTail \in Pointer
        /\ n.numFreeElements \in Nat /\ n.numReserveElements \in Nat
    BY DEF ManagerData, QueueData, Pointer
  <2>4. n = [x \in DOMAIN n |-> n[x]]
    OBVIOUS
  <2>5. DOMAIN n = Fields
    BY DEF ManagerData, Fields
  <2> HIDE DEF n
  <2>6. n \in ManagerData
    BY <2>1, <2>2, <2>3, <2>4, <2>5, ManagerIs
  <2> QED
    BY <2>6 DEF n
<1> QED
  BY <1>1 DEF CreateQueue, NoQueue, ManagerData, QueueData, FieldsAre
-----------------------------------------------------------------------------
\* A list's two ends.
LEMMA Ends ==
  ASSUME NEW q \in Lists, NEW z \in Place
  PROVE  /\ Len(q[z]) \in Nat
         /\ After(q[z], 1) = NULL <=> Len(q[z]) = 0
         /\ Len(q[z]) # 0 =>
              /\ After(q[z], 1) = q[z][1] /\ q[z][1] \in Element
              /\ 1 \in 1..Len(q[z]) /\ Len(q[z]) \in 1..Len(q[z])
              /\ LastIn(q[z]) = q[z][Len(q[z])] /\ q[z][Len(q[z])] \in Element
              /\ LastIn(q[z]) # NULL
         /\ Len(q[z]) = 0 => LastIn(q[z]) = NULL
<1>1. q[z] \in Seq(Element)
  BY DEF Lists
<1>2. Len(q[z]) \in Nat /\ \A i \in 1..Len(q[z]) : q[z][i] \in Element
  BY <1>1, LenProperties, ElementOfSeq
<1>3. \A e \in Element : e # NULL
  BY DEF Element, NULL
<1> QED
  BY <1>2, <1>3 DEF After, LastIn

\* The heads and the tails of the lists after the move.
LEMMA MovedEnds ==
  ASSUME NEW q \in Lists, NEW x \in Place, NEW y \in Place, x # y, Len(q[x]) # 0
  PROVE  LET r == Moved(q, x, y) IN
         /\ After(r[x], 1) = After(q[x], 2)
         /\ LastIn(r[x]) = IF After(q[x], 2) = NULL THEN NULL ELSE LastIn(q[x])
         /\ After(r[y], 1) = IF After(q[y], 1) = NULL THEN q[x][1]
                             ELSE After(q[y], 1)
         /\ LastIn(r[y]) = q[x][1]
         /\ \A z \in Place \ {x, y} :
              After(r[z], 1) = After(q[z], 1) /\ LastIn(r[z]) = LastIn(q[z])
<1> DEFINE r == Moved(q, x, y)
<1>1. /\ \A a \in Place : Len(r[a]) \in Nat /\ Len(q[a]) \in Nat
      /\ Len(r[x]) = Len(q[x]) - 1
      /\ \A k \in 1..Len(r[x]) : r[x][k] = q[x][k + 1]
      /\ Len(r[y]) = Len(q[y]) + 1
      /\ \A k \in 1..Len(q[y]) : r[y][k] = q[y][k]
      /\ r[y][Len(q[y]) + 1] = q[x][1]
      /\ \A a \in Place \ {x, y} : r[a] = q[a]
  <2>1. \A a \in Place : Len(r[a]) \in Nat /\ Len(q[a]) \in Nat
    BY MovedPositions
  <2>2. Len(r[x]) = Len(q[x]) - 1 /\ \A k \in 1..Len(r[x]) : r[x][k] = q[x][k + 1]
    BY MovedPositions
  <2>3. Len(r[y]) = Len(q[y]) + 1 /\ \A k \in 1..Len(q[y]) : r[y][k] = q[y][k]
    BY MovedPositions
  <2>4. r[y][Len(q[y]) + 1] = q[x][1]
    BY MovedPositions
  <2>5. \A a \in Place \ {x, y} : r[a] = q[a]
    BY MovedPositions
  <2> QED
    BY <2>1, <2>2, <2>3, <2>4, <2>5
<1>2. \A a \in Place : \A k \in 1..Len(q[a]) : q[a][k] # NULL
  <2>1. \A a \in Place : \A k \in 1..Len(q[a]) : q[a][k] \in Element
    BY ElementOfSeq DEF Lists
  <2> QED
    BY <2>1 DEF Element, NULL
<1> HIDE DEF r
<1>0. Len(q[x]) \in Nat \ {0} /\ Len(r[x]) \in Nat
  BY <1>1
<1>3. After(r[x], 1) = After(q[x], 2)
  BY <1>1 DEF After
<1>4. After(q[x], 2) = NULL <=> Len(q[x]) = 1
  <2>1. CASE Len(q[x]) = 1
    BY <2>1 DEF After
  <2>2. CASE Len(q[x]) # 1
    <3>1. 2 <= Len(q[x]) /\ 2 \in 1..Len(q[x])
      <4>1. PICK l \in Nat \ {0} : l = Len(q[x])
        BY <1>0
      <4>2. l # 1
        BY <2>2, <4>1
      <4>3. 2 <= l /\ 2 \in 1..l
        BY <4>2
      <4> QED
        BY <4>1, <4>3
    <3>2. q[x][2] # NULL
      BY <1>2, <3>1
    <3>3. After(q[x], 2) = q[x][2]
      BY <3>1 DEF After
    <3> QED
      BY <2>2, <3>2, <3>3
  <2> QED
    BY <2>1, <2>2
<1>5. LastIn(r[x]) = IF After(q[x], 2) = NULL THEN NULL ELSE LastIn(q[x])
  <2>1. CASE Len(q[x]) = 1
    BY <1>1, <1>4, <2>1 DEF LastIn
  <2>2. CASE Len(q[x]) # 1
    <3>1. Len(r[x]) # 0 /\ Len(r[x]) \in 1..Len(r[x])
      <4>1. PICK l \in Nat \ {0} : l = Len(q[x])
        BY <1>0
      <4>2. l # 1 /\ Len(r[x]) = l - 1
        BY <1>1, <2>2, <4>1
      <4>3. l - 1 # 0 /\ l - 1 \in 1..(l - 1)
        BY <4>2
      <4> QED
        BY <4>2, <4>3
    <3>2. Len(r[x]) + 1 = Len(q[x])
      BY <1>0, <1>1
    <3>3. r[x][Len(r[x])] = q[x][Len(r[x]) + 1]
      BY <1>1, <3>1
    <3> QED
      BY <1>0, <1>4, <2>2, <3>1, <3>2, <3>3 DEF LastIn
  <2> QED
    BY <2>1, <2>2
<1>6. After(r[y], 1) = IF After(q[y], 1) = NULL THEN q[x][1] ELSE After(q[y], 1)
  <2>1. CASE Len(q[y]) = 0
    BY <1>1, <2>1 DEF After
  <2>2. CASE Len(q[y]) # 0
    BY <1>1, <1>2, <2>2 DEF After
  <2> QED
    BY <2>1, <2>2
<1>7. LastIn(r[y]) = q[x][1]
  BY <1>1 DEF LastIn
<1> QED
  BY <1>1, <1>3, <1>5, <1>6, <1>7 DEF r

\* Links, ends and counts that follow the move make a manager's data sound.
LEMMA MovedArranged ==
  ASSUME NEW m, NEW q, Arranged(m, q), NEW x \in Place, NEW y \in Place, x # y,
         Len(q[x]) # 0, NEW n \in ManagerData,
         n.pNext = Relinked(m.pNext, q, x, y),
         Tells(n, Moved(q, x, y)), Counted(n)
  PROVE  Arranged(n, Moved(q, x, y))
<1>1. /\ q \in Lists /\ Distinct(q) /\ Covering(q) /\ Linking(m.pNext, q)
      /\ m.pNext \in [Element -> Pointer]
  BY ArrangedFacts DEF Arranged
<1>2. Moved(q, x, y) \in Lists
  BY <1>1, MovedPositions
<1> QED
  BY <1>1, <1>2, MovedDistinct, MovedCovering, MovedLinking DEF Arranged

\* The counts, said of one bus and the other.
LEMMA CountedOf ==
  ASSUME NEW m \in ManagerData, NEW b \in Bus
  PROVE  Counted(m) <=>
         /\ m.queue[b].numAlloc <= maxElements
         /\ m.queue[1 - b].numAlloc <= maxElements
         /\ m.queue[b].numReserved \in {0, reserveElements}
         /\ m.queue[1 - b].numReserved \in {0, reserveElements}
         /\ m.numFreeElements + m.queue[b].numAlloc + m.queue[1 - b].numAlloc
              = PoolSize
         /\ m.numReserveElements = Undrawn(m, b) + Undrawn(m, 1 - b)
         /\ m.numReserveElements <= m.numFreeElements
<1>1. \A c \in Bus : /\ m.queue[c].numAlloc \in Nat
                     /\ m.queue[c].numReserved \in Nat
                     /\ Undrawn(m, c) \in Nat
  BY DriverAssumption DEF ManagerData, QueueData, Undrawn
<1>2. m.numFreeElements \in Nat /\ m.numReserveElements \in Nat
  BY DEF ManagerData
<1>3. 0 \in Bus /\ 1 \in Bus
  BY DEF Bus
<1>4. CASE b = 0
  BY <1>1, <1>2, <1>3, <1>4 DEF Counted, Bus
<1>5. CASE b = 1
  BY <1>1, <1>2, <1>3, <1>5 DEF Counted, Bus
<1> QED
  BY <1>4, <1>5 DEF Bus
-----------------------------------------------------------------------------
\* The places of a bus and of the other one are five different places.
LEMMA BusPlaces ==
  ASSUME NEW b \in Bus
  PROVE  /\ FreePlace \in Place /\ WaitPlace(b) \in Place /\ RunPlace(b) \in Place
         /\ FreePlace # WaitPlace(b) /\ FreePlace # RunPlace(b)
         /\ \A c \in Bus : /\ WaitPlace(b) # RunPlace(c)
                           /\ c # b => /\ WaitPlace(b) # WaitPlace(c)
                                       /\ RunPlace(b) # RunPlace(c)
         /\ 1 - b \in Bus /\ 1 - b # b
BY DEF Place, FreePlace, WaitPlace, RunPlace, Bus

\* No count of a sound pool is above its size.
LEMMA CountsBounded ==
  ASSUME NEW m \in ManagerData, NEW b \in Bus, Counted(m)
  PROVE  /\ m.numFreeElements <= PoolSize /\ m.queue[b].numAlloc <= PoolSize
         /\ m.numReserveElements <= PoolSize
<1>1. \A c \in Bus : m.queue[c].numAlloc \in Nat
  BY DriverAssumption DEF ManagerData, QueueData
<1>2. m.numFreeElements \in Nat /\ m.numReserveElements \in Nat
  BY DEF ManagerData
<1>3. 1 - b \in Bus
  BY BusPlaces
<1>4. /\ m.numFreeElements + m.queue[b].numAlloc + m.queue[1 - b].numAlloc
           = PoolSize
      /\ m.numReserveElements <= m.numFreeElements
  BY CountedOf
<1>5. PICK k \in Nat, l \in Nat : k = m.queue[b].numAlloc
                                 /\ l = m.queue[1 - b].numAlloc
  BY <1>1, <1>3
<1> QED
  BY <1>2, <1>4, <1>5, QueueAssumption

\* A job accepted: the first free element goes to the end of its bus' line.
LEMMA AddMoves ==
  ASSUME NEW m, NEW q, Arranged(m, q), NEW b \in Bus, ~AllocElementRefused(m, b)
  PROVE  LET e == ElementOf(m)
             n == EnqueueLock(AllocElementLock(m, b), b, e) IN
         /\ Len(q[FreePlace]) # 0 /\ e = q[FreePlace][1] /\ e \in Element
         /\ Arranged(n, Moved(q, FreePlace, WaitPlace(b)))
         /\ \A c \in Bus : n.queue[c].numReserved = m.queue[c].numReserved
<1> DEFINE x == FreePlace
           y == WaitPlace(b)
           e == ElementOf(m)
           a == AllocElementLock(m, b)
           n == EnqueueLock(a, b, e)
           r == Moved(q, x, y)
<1>1. /\ m \in ManagerData /\ q \in Lists /\ Distinct(q) /\ Tells(m, q)
      /\ Counted(m)
  BY DEF Arranged
<1>2. x \in Place /\ y \in Place /\ x # y
  BY BusPlaces
<1>3. Len(q[x]) # 0 /\ e = q[x][1] /\ e \in Element
  BY <1>1, <1>2, Ends DEF AllocElementRefused, ElementOf, Tells
<1>4. m.numFreeElements = Len(q[x]) /\ m.numFreeElements # 0
  BY <1>1, <1>3 DEF Tells
<1>5. /\ a \in ManagerData
      /\ a.pNext = [m.pNext EXCEPT ![e] = NULL]
      /\ a.pFreeElementHead = m.pNext[e]
      /\ a.pFreeElementTail =
           IF m.pNext[e] = NULL THEN NULL ELSE m.pFreeElementTail
      /\ a.numFreeElements = m.numFreeElements - 1
      /\ a.numReserveElements = m.numReserveElements -
           (IF m.queue[b].numAlloc < m.queue[b].numReserved THEN 1 ELSE 0)
      /\ FieldsAre(a, m, b, m.queue[b].pHead, m.queue[b].pTail,
                   m.queue[b].numAlloc + 1, m.queue[b].numReserved)
  <2>1. m.numReserveElements >= Undrawn(m, 0) + Undrawn(m, 1)
    BY <1>1 DEF Counted, ManagerData
  <2> QED
    BY <1>1, <1>3, <1>4, <2>1, CountsBounded, AllocFields
<1> HIDE DEF a
<1>6. /\ m.queue[b].pHead = After(q[y], 1) /\ m.queue[b].pTail = LastIn(q[y])
      /\ After(q[y], 1) = NULL <=> Len(q[y]) = 0
      /\ After(q[y], 1) # NULL => LastIn(q[y]) \in Element
      /\ After(q[y], 1) = NULL => LastIn(q[y]) = NULL
  BY <1>1, <1>2, Ends DEF Tells
<1>7. /\ n \in ManagerData
      /\ n.pNext = IF a.queue[b].pHead = NULL THEN a.pNext
                   ELSE [a.pNext EXCEPT ![a.queue[b].pTail] = e]
      /\ n.pFreeElementHead = a.pFreeElementHead
      /\ n.pFreeElementTail = a.pFreeElementTail
      /\ n.numFreeElements = a.numFreeElements
      /\ n.numReserveElements = a.numReserveElements
      /\ FieldsAre(n, a, b,
           IF a.queue[b].pHead = NULL THEN e ELSE a.queue[b].pHead, e,
           a.queue[b].numAlloc, a.queue[b].numReserved)
  <2>1. a.queue[b].pHead # NULL => a.queue[b].pTail \in Element
    BY <1>5, <1>6 DEF FieldsAre
  <2> HIDE DEF e
  <2> QED
    BY <1>3, <1>5, <2>1, EnqueueFields
<1> HIDE DEF n, e
<1>8. FieldsAre(n, m, b, IF After(q[y], 1) = NULL THEN e ELSE After(q[y], 1), e,
                m.queue[b].numAlloc + 1, m.queue[b].numReserved)
  BY <1>5, <1>6, <1>7 DEF FieldsAre
<1>9. n.pNext = Relinked(m.pNext, q, x, y)
  <2>1. m.pNext \in [Element -> Pointer]
    BY <1>1 DEF ManagerData
  <2>2. e # NULL
    BY <1>3 DEF Element, NULL
  <2>3. After(q[y], 1) # NULL => LastIn(q[y]) # e
    <3>1. SUFFICES ASSUME After(q[y], 1) # NULL PROVE LastIn(q[y]) # e
      OBVIOUS
    <3>2. /\ Len(q[y]) \in 1..Len(q[y]) /\ LastIn(q[y]) = q[y][Len(q[y])]
          /\ 1 \in 1..Len(q[x])
      BY <1>1, <1>2, <1>3, <3>1, Ends
    <3> QED
      BY <1>1, <1>2, <1>3, <3>2, OnePosition
  <2>4. a.queue[b].pHead = After(q[y], 1) /\ a.queue[b].pTail = LastIn(q[y])
    BY <1>5, <1>6 DEF FieldsAre
  <2>5. CASE After(q[y], 1) = NULL
    <3>1. n.pNext = [m.pNext EXCEPT ![e] = NULL] /\ LastIn(q[y]) = NULL
      BY <1>5, <1>6, <1>7, <2>4, <2>5
    <3>2. \A k \in Element : k # NULL
      BY DEF Element, NULL
    <3> QED
      BY <1>3, <2>1, <3>1, <3>2 DEF Relinked
  <2>6. CASE After(q[y], 1) # NULL
    <3>1. n.pNext = [[m.pNext EXCEPT ![e] = NULL] EXCEPT ![LastIn(q[y])] = e]
      BY <1>5, <1>7, <2>4, <2>6
    <3> QED
      BY <1>3, <1>6, <2>1, <2>3, <2>6, <3>1 DEF Relinked
  <2> QED
    BY <2>5, <2>6
<1>10. Tells(n, r)
  <2>1. /\ After(r[x], 1) = After(q[x], 2)
        /\ LastIn(r[x]) = IF After(q[x], 2) = NULL THEN NULL ELSE LastIn(q[x])
        /\ After(r[y], 1) = IF After(q[y], 1) = NULL THEN q[x][1]
                            ELSE After(q[y], 1)
        /\ LastIn(r[y]) = q[x][1]
        /\ \A z \in Place \ {x, y} :
             After(r[z], 1) = After(q[z], 1) /\ LastIn(r[z]) = LastIn(q[z])
    BY <1>1, <1>2, <1>3, MovedEnds
  <2>2. /\ Len(r[x]) = Len(q[x]) - 1 /\ Len(r[y]) = Len(q[y]) + 1
        /\ \A z \in Place \ {x, y} : Len(r[z]) = Len(q[z])
        /\ \A z \in Place : Len(q[z]) \in Nat
    BY <1>1, <1>2, <1>3, MovedPositions
  <2> HIDE DEF r
  <2>3. m.pNext[e] = After(q[x], 2)
    <3>1. 1 \in 1..Len(q[x])
      BY <1>1, <1>2, <1>3, Ends
    <3> QED
      BY <1>2, <1>3, <3>1 DEF Arranged, Linking
  <2>4. /\ n.pFreeElementHead = After(r[x], 1)
        /\ n.pFreeElementTail = LastIn(r[x])
        /\ n.numFreeElements = Len(r[x])
    BY <1>1, <1>4, <1>5, <1>7, <2>1, <2>2, <2>3 DEF Tells
  <2>5. /\ n.queue[b].pHead = After(r[y], 1)
        /\ n.queue[b].pTail = LastIn(r[y])
    BY <1>3, <1>8, <2>1 DEF FieldsAre
  <2>6. n.queue[b].numAlloc = Len(r[y]) + Len(r[RunPlace(b)])
    <3>1. Len(r[RunPlace(b)]) = Len(q[RunPlace(b)]) /\ Len(q[RunPlace(b)]) \in Nat
      BY <2>2, BusPlaces
    <3>2. m.queue[b].numAlloc = Len(q[y]) + Len(q[RunPlace(b)])
      BY <1>1 DEF Tells
    <3>3. PICK k \in Nat, l \in Nat : k = Len(q[y]) /\ l = Len(q[RunPlace(b)])
      BY <1>2, <2>2, <3>1
    <3>4. n.queue[b].numAlloc = k + l + 1 /\ Len(r[y]) = k + 1
      BY <1>8, <2>2, <3>2, <3>3 DEF FieldsAre
    <3>5. k + l + 1 = (k + 1) + l
      OBVIOUS
    <3>6. Len(r[RunPlace(b)]) = l
      BY <3>1, <3>3
    <3> QED
      BY <3>4, <3>5, <3>6, Zenon
  <2>7. ASSUME NEW c \in Bus, c # b
        PROVE  /\ n.queue[c].pHead = After(r[WaitPlace(c)], 1)
               /\ n.queue[c].pTail = LastIn(r[WaitPlace(c)])
               /\ n.queue[c].numAlloc =
                    Len(r[WaitPlace(c)]) + Len(r[RunPlace(c)])
    <3>1. WaitPlace(c) \in Place \ {x, y} /\ RunPlace(c) \in Place \ {x, y}
      BY <2>7, BusPlaces
    <3>2. n.queue[c] = m.queue[c]
      BY <1>8, <2>7 DEF FieldsAre
    <3> QED
      BY <1>1, <2>1, <2>2, <3>1, <3>2 DEF Tells
  <2> QED
    BY <2>4, <2>5, <2>6, <2>7 DEF Tells
<1>11. Counted(n)
  <2> DEFINE o == 1 - b
  <2>1. o \in Bus /\ o # b /\ n.queue[o] = m.queue[o]
    BY <1>8, BusPlaces DEF FieldsAre
  <2>2. /\ m.queue[b].numAlloc \in Nat /\ m.queue[b].numReserved \in Nat
        /\ m.numFreeElements \in Nat /\ m.numReserveElements \in Nat
        /\ m.queue[o].numAlloc \in Nat /\ Undrawn(m, o) \in Nat
    BY <2>1, <1>1, DriverAssumption DEF ManagerData, QueueData, Undrawn
  <2> HIDE DEF o
  <2>3. /\ m.queue[b].numAlloc <= maxElements
        /\ m.queue[o].numAlloc <= maxElements
        /\ m.queue[b].numReserved \in {0, reserveElements}
        /\ m.queue[o].numReserved \in {0, reserveElements}
        /\ m.numFreeElements + m.queue[b].numAlloc + m.queue[o].numAlloc = PoolSize
        /\ m.numReserveElements = Undrawn(m, b) + Undrawn(m, o)
        /\ m.numReserveElements <= m.numFreeElements
    BY <1>1, CountedOf DEF o
  <2>4. /\ m.queue[b].numAlloc # maxElements
        /\ m.queue[b].numAlloc >= m.queue[b].numReserved =>
             m.numFreeElements # m.numReserveElements
    BY DEF AllocElementRefused
  <2>5. /\ n.queue[b].numAlloc = m.queue[b].numAlloc + 1
        /\ n.queue[b].numReserved = m.queue[b].numReserved
        /\ Undrawn(n, o) = Undrawn(m, o)
        /\ n.numFreeElements = m.numFreeElements - 1
        /\ n.numReserveElements = m.numReserveElements -
             (IF m.queue[b].numAlloc < m.queue[b].numReserved THEN 1 ELSE 0)
    BY <1>5, <1>7, <1>8, <2>1 DEF FieldsAre, Undrawn
  <2>6. n.numReserveElements = Undrawn(n, b) + Undrawn(n, o)
    BY <2>2, <2>3, <2>5 DEF Undrawn
  <2>7. n.numReserveElements <= n.numFreeElements
    BY <1>4, <2>2, <2>3, <2>4, <2>5
  <2>8. n.numFreeElements + n.queue[b].numAlloc + n.queue[o].numAlloc = PoolSize
    BY <1>4, <2>1, <2>2, <2>3, <2>5
  <2>9. n.queue[b].numAlloc <= maxElements
    BY <2>2, <2>3, <2>4, <2>5, QueueAssumption
  <2>10. /\ n.queue[o].numAlloc <= maxElements
         /\ n.queue[b].numReserved \in {0, reserveElements}
         /\ n.queue[o].numReserved \in {0, reserveElements}
    BY <2>1, <2>3, <2>5
  <2> QED
    BY <1>7, <2>6, <2>7, <2>8, <2>9, <2>10, CountedOf DEF o
<1>12. \A c \in Bus : n.queue[c].numReserved = m.queue[c].numReserved
  BY <1>8 DEF FieldsAre
<1>13. Arranged(n, r)
  BY <1>2, <1>3, <1>7, <1>9, <1>10, <1>11, MovedArranged
<1> QED
  BY <1>3, <1>12, <1>13 DEF n, a, e

\* What an element given back adds to what a bus has not drawn of its reserve.
LEMMA GivenBack ==
  ASSUME NEW alloc \in Nat, NEW reserved \in Nat, alloc # 0
  PROVE  (IF alloc - 1 < reserved THEN reserved - (alloc - 1) ELSE 0) =
           (IF alloc < reserved THEN reserved - alloc ELSE 0) +
           (IF alloc <= reserved THEN 1 ELSE 0)
<1>1. CASE alloc < reserved
  BY <1>1
<1>2. CASE alloc = reserved
  BY <1>2
<1>3. CASE alloc > reserved
  BY <1>3
<1> QED
  BY <1>1, <1>2, <1>3

\* Manager data that count alike keep the counts.
LEMMA CountedAlike ==
  ASSUME NEW m, NEW n, Counted(m),
         n.numFreeElements = m.numFreeElements,
         n.numReserveElements = m.numReserveElements,
         \A c \in Bus : /\ n.queue[c].numAlloc = m.queue[c].numAlloc
                        /\ n.queue[c].numReserved = m.queue[c].numReserved
  PROVE  Counted(n)
<1>1. \A c \in Bus : Undrawn(n, c) = Undrawn(m, c)
  BY DEF Undrawn
<1>2. 0 \in Bus /\ 1 \in Bus
  BY DEF Bus
<1> QED
  BY <1>1, <1>2 DEF Counted

\* A job taken: the first element of the line of its bus runs.
LEMMA TakeMoves ==
  ASSUME NEW m, NEW q, Arranged(m, q), NEW b \in Bus, ~IsEmpty(m, b),
         Len(q[RunPlace(b)]) = 0
  PROVE  LET e == m.queue[b].pHead
             n == DequeueLock(m, b) IN
         /\ Len(q[WaitPlace(b)]) # 0 /\ e = q[WaitPlace(b)][1] /\ e \in Element
         /\ Arranged(n, Moved(q, WaitPlace(b), RunPlace(b)))
         /\ \A c \in Bus : n.queue[c].numReserved = m.queue[c].numReserved
<1> DEFINE x == WaitPlace(b)
           y == RunPlace(b)
           e == m.queue[b].pHead
           n == DequeueLock(m, b)
           r == Moved(q, x, y)
<1>1. /\ m \in ManagerData /\ q \in Lists /\ Distinct(q) /\ Tells(m, q)
      /\ Counted(m) /\ m.pNext \in [Element -> Pointer]
  BY ArrangedFacts DEF Arranged
<1>2. x \in Place /\ y \in Place /\ x # y
  BY BusPlaces
<1>3. Len(q[x]) # 0 /\ e = q[x][1] /\ e \in Element
  BY <1>1, <1>2, Ends DEF IsEmpty, Tells
<1>4. /\ n \in ManagerData
      /\ n.pNext = [m.pNext EXCEPT ![e] = NULL]
      /\ n.pFreeElementHead = m.pFreeElementHead
      /\ n.pFreeElementTail = m.pFreeElementTail
      /\ n.numFreeElements = m.numFreeElements
      /\ n.numReserveElements = m.numReserveElements
      /\ FieldsAre(n, m, b, m.pNext[e],
           IF m.pNext[e] = NULL THEN NULL ELSE m.queue[b].pTail,
           m.queue[b].numAlloc, m.queue[b].numReserved)
  BY <1>1, <1>3, TakeFields
<1> HIDE DEF n, e
<1>5. n.pNext = Relinked(m.pNext, q, x, y)
  <2>1. LastIn(q[y]) = NULL /\ \A k \in Element : k # NULL
    BY DEF LastIn, Element, NULL
  <2> QED
    BY <1>1, <1>3, <1>4, <2>1 DEF Relinked
<1>6. Tells(n, r)
  <2>1. /\ After(r[x], 1) = After(q[x], 2)
        /\ LastIn(r[x]) = IF After(q[x], 2) = NULL THEN NULL ELSE LastIn(q[x])
        /\ \A z \in Place \ {x, y} :
             After(r[z], 1) = After(q[z], 1) /\ LastIn(r[z]) = LastIn(q[z])
    BY <1>1, <1>2, <1>3, MovedEnds
  <2>2. /\ Len(r[x]) = Len(q[x]) - 1 /\ Len(r[y]) = Len(q[y]) + 1
        /\ \A z \in Place \ {x, y} : Len(r[z]) = Len(q[z])
        /\ \A z \in Place : Len(q[z]) \in Nat
    <3> HIDE DEF x, y
    <3>1. /\ Len(r[x]) = Len(q[x]) - 1 /\ Len(r[y]) = Len(q[y]) + 1
          /\ \A z \in Place \ {x, y} : r[z] = q[z]
          /\ \A z \in Place : Len(q[z]) \in Nat
      BY <1>1, <1>2, <1>3, MovedPositions
    <3> QED
      BY <3>1
  <2> HIDE DEF r
  <2>3. m.pNext[e] = After(q[x], 2)
    <3>1. 1 \in 1..Len(q[x])
      BY <1>1, <1>2, <1>3, Ends
    <3> QED
      BY <1>2, <1>3, <3>1 DEF Arranged, Linking
  <2>4. /\ n.pFreeElementHead = After(r[FreePlace], 1)
        /\ n.pFreeElementTail = LastIn(r[FreePlace])
        /\ n.numFreeElements = Len(r[FreePlace])
    <3>1. FreePlace \in Place \ {x, y}
      BY BusPlaces
    <3> QED
      BY <1>1, <1>4, <2>1, <2>2, <3>1 DEF Tells
  <2>5. /\ n.queue[b].pHead = After(r[x], 1)
        /\ n.queue[b].pTail = LastIn(r[x])
    BY <1>1, <1>4, <2>1, <2>3 DEF FieldsAre, Tells
  <2>6. n.queue[b].numAlloc = Len(r[x]) + Len(r[y])
    <3>1. n.queue[b].numAlloc = Len(q[x]) + Len(q[y])
      BY <1>1, <1>4 DEF FieldsAre, Tells
    <3>2. PICK k \in Nat : k = Len(q[x])
      BY <1>2, <2>2
    <3>3. PICK l \in Nat : l = Len(q[y])
      BY <1>2, <2>2
    <3>4. (k - 1) + (l + 1) = k + l
      OBVIOUS
    <3> QED
      BY <2>2, <3>1, <3>2, <3>3, <3>4, Zenon
  <2>7. ASSUME NEW c \in Bus, c # b
        PROVE  /\ n.queue[c].pHead = After(r[WaitPlace(c)], 1)
               /\ n.queue[c].pTail = LastIn(r[WaitPlace(c)])
               /\ n.queue[c].numAlloc =
                    Len(r[WaitPlace(c)]) + Len(r[RunPlace(c)])
    <3>1. WaitPlace(c) \in Place \ {x, y} /\ RunPlace(c) \in Place \ {x, y}
      BY <2>7, BusPlaces
    <3>2. n.queue[c] = m.queue[c]
      BY <1>4, <2>7 DEF FieldsAre
    <3> QED
      BY <1>1, <2>1, <2>2, <3>1, <3>2 DEF Tells
  <2> QED
    BY <2>4, <2>5, <2>6, <2>7 DEF Tells
<1>7. \A c \in Bus : /\ n.queue[c].numAlloc = m.queue[c].numAlloc
                     /\ n.queue[c].numReserved = m.queue[c].numReserved
  BY <1>4 DEF FieldsAre
<1>8. Counted(n)
  BY <1>1, <1>4, <1>7, CountedAlike
<1>9. Arranged(n, r)
  BY <1>2, <1>3, <1>4, <1>5, <1>6, <1>8, MovedArranged
<1> QED
  BY <1>3, <1>7, <1>9 DEF n, e

\* A job over: the element that ran goes to the end of the free ones.
LEMMA FreeMoves ==
  ASSUME NEW m, NEW q, Arranged(m, q), NEW b \in Bus, Len(q[RunPlace(b)]) = 1
  PROVE  LET n == FreeElementLock(m, b, q[RunPlace(b)][1]) IN
         /\ Arranged(n, Moved(q, RunPlace(b), FreePlace))
         /\ \A c \in Bus : n.queue[c].numReserved = m.queue[c].numReserved
<1> DEFINE x == RunPlace(b)
           y == FreePlace
           e == q[x][1]
           n == FreeElementLock(m, b, e)
           r == Moved(q, x, y)
<1>1. /\ m \in ManagerData /\ q \in Lists /\ Distinct(q) /\ Tells(m, q)
      /\ Counted(m) /\ m.pNext \in [Element -> Pointer]
  BY ArrangedFacts DEF Arranged
<1>2. x \in Place /\ y \in Place /\ x # y
  BY BusPlaces
<1>3. Len(q[x]) # 0 /\ e = q[x][1] /\ e \in Element
  BY <1>1, <1>2, Ends
<1> HIDE DEF e
<1>4. m.queue[b].numAlloc # 0 /\ m.queue[b].numAlloc \in Nat
  <2>1. m.queue[b].numAlloc = Len(q[WaitPlace(b)]) + Len(q[x])
    BY <1>1 DEF Tells
  <2>2. PICK k \in Nat : k = Len(q[WaitPlace(b)])
    BY <1>1, BusPlaces, Ends
  <2>3. k + 1 # 0 /\ k + 1 \in Nat
    OBVIOUS
  <2> QED
    BY <2>1, <2>2, <2>3, Zenon
<1>5. /\ m.pFreeElementHead = After(q[y], 1) /\ m.pFreeElementTail = LastIn(q[y])
      /\ After(q[y], 1) = NULL <=> Len(q[y]) = 0
      /\ After(q[y], 1) # NULL => LastIn(q[y]) \in Element
      /\ After(q[y], 1) = NULL => LastIn(q[y]) = NULL
  BY <1>1, <1>2, Ends DEF Tells
<1>6. /\ n \in ManagerData
      /\ n.pNext = IF m.pFreeElementHead = NULL THEN m.pNext
                   ELSE [m.pNext EXCEPT ![m.pFreeElementTail] = e]
      /\ n.pFreeElementHead =
           IF m.pFreeElementHead = NULL THEN e ELSE m.pFreeElementHead
      /\ n.pFreeElementTail = e
      /\ n.numFreeElements = m.numFreeElements + 1
      /\ n.numReserveElements = m.numReserveElements +
           (IF m.queue[b].numAlloc <= m.queue[b].numReserved THEN 1 ELSE 0)
      /\ FieldsAre(n, m, b, m.queue[b].pHead, m.queue[b].pTail,
                   m.queue[b].numAlloc - 1, m.queue[b].numReserved)
  BY <1>1, <1>3, <1>4, <1>5, CountsBounded, FreeFields
<1> HIDE DEF n
<1>7. m.pNext[e] = NULL
  <2>1. 1 \in 1..Len(q[x])
    BY <1>1, <1>2, <1>3, Ends
  <2>2. m.pNext[q[x][1]] = After(q[x], 2)
    BY <1>2, <2>1 DEF Arranged, Linking
  <2> QED
    BY <1>3, <2>2 DEF After
<1>8. n.pNext = Relinked(m.pNext, q, x, y)
  <2>1. \A k \in Element : k # NULL
    BY DEF Element, NULL
  <2>2. After(q[y], 1) # NULL => LastIn(q[y]) # e
    <3>1. SUFFICES ASSUME After(q[y], 1) # NULL PROVE LastIn(q[y]) # e
      OBVIOUS
    <3>2. /\ Len(q[y]) \in 1..Len(q[y]) /\ LastIn(q[y]) = q[y][Len(q[y])]
          /\ 1 \in 1..Len(q[x])
      BY <1>1, <1>2, <1>3, <3>1, Ends
    <3> QED
      BY <1>1, <1>2, <1>3, <3>2, OnePosition
  <2>3. CASE After(q[y], 1) = NULL
    <3>1. n.pNext = m.pNext /\ LastIn(q[y]) = NULL
      BY <1>5, <1>6, <2>3
    <3> QED
      BY <1>1, <1>3, <1>7, <2>1, <3>1 DEF Relinked
  <2>4. CASE After(q[y], 1) # NULL
    <3>1. n.pNext = [m.pNext EXCEPT ![LastIn(q[y])] = e]
      BY <1>5, <1>6, <2>4
    <3> QED
      BY <1>1, <1>3, <1>5, <1>7, <2>2, <2>4, <3>1 DEF Relinked
  <2> QED
    BY <2>3, <2>4
<1>9. Tells(n, r)
  <2>1. /\ After(r[y], 1) = IF After(q[y], 1) = NULL THEN q[x][1]
                            ELSE After(q[y], 1)
        /\ LastIn(r[y]) = q[x][1]
        /\ \A z \in Place \ {x, y} :
             After(r[z], 1) = After(q[z], 1) /\ LastIn(r[z]) = LastIn(q[z])
    BY <1>1, <1>2, <1>3, MovedEnds
  <2>2. /\ Len(r[x]) = Len(q[x]) - 1 /\ Len(r[y]) = Len(q[y]) + 1
        /\ \A z \in Place \ {x, y} : Len(r[z]) = Len(q[z])
        /\ \A z \in Place : Len(q[z]) \in Nat
    <3> HIDE DEF x, y
    <3>1. /\ Len(r[x]) = Len(q[x]) - 1 /\ Len(r[y]) = Len(q[y]) + 1
          /\ \A z \in Place \ {x, y} : r[z] = q[z]
          /\ \A z \in Place : Len(q[z]) \in Nat
      BY <1>1, <1>2, <1>3, MovedPositions
    <3> QED
      BY <3>1
  <2> HIDE DEF r
  <2>3. /\ n.pFreeElementHead = After(r[y], 1)
        /\ n.pFreeElementTail = LastIn(r[y])
        /\ n.numFreeElements = Len(r[y])
    BY <1>1, <1>3, <1>5, <1>6, <2>1, <2>2 DEF Tells
  <2>4. \A c \in Bus : /\ n.queue[c].pHead = After(r[WaitPlace(c)], 1)
                       /\ n.queue[c].pTail = LastIn(r[WaitPlace(c)])
    <3>1. \A c \in Bus : WaitPlace(c) \in Place \ {x, y}
      BY BusPlaces
    <3>2. \A c \in Bus : /\ n.queue[c].pHead = m.queue[c].pHead
                         /\ n.queue[c].pTail = m.queue[c].pTail
      BY <1>6 DEF FieldsAre
    <3> QED
      BY <1>1, <2>1, <3>1, <3>2 DEF Tells
  <2>5. n.queue[b].numAlloc = Len(r[WaitPlace(b)]) + Len(r[x])
    <3>1. WaitPlace(b) \in Place \ {x, y}
      BY BusPlaces
    <3>2. n.queue[b].numAlloc = (Len(q[WaitPlace(b)]) + Len(q[x])) - 1
      BY <1>1, <1>6 DEF FieldsAre, Tells
    <3>3. PICK k \in Nat : k = Len(q[WaitPlace(b)])
      BY <2>2, <3>1
    <3>4. (k + 1) - 1 = k + (1 - 1)
      OBVIOUS
    <3>5. Len(r[WaitPlace(b)]) = k
      BY <2>2, <3>1, <3>3
    <3> QED
      BY <2>2, <3>2, <3>3, <3>4, <3>5, Zenon
  <2>6. ASSUME NEW c \in Bus, c # b
        PROVE  n.queue[c].numAlloc = Len(r[WaitPlace(c)]) + Len(r[RunPlace(c)])
    <3>1. WaitPlace(c) \in Place \ {x, y} /\ RunPlace(c) \in Place \ {x, y}
      BY <2>6, BusPlaces
    <3>2. n.queue[c] = m.queue[c]
      BY <1>6, <2>6 DEF FieldsAre
    <3> QED
      BY <1>1, <2>2, <3>1, <3>2 DEF Tells
  <2> QED
    BY <2>3, <2>4, <2>5, <2>6 DEF Tells
<1>10. Counted(n)
  <2> DEFINE o == 1 - b
  <2>1. o \in Bus /\ o # b /\ n.queue[o] = m.queue[o]
    BY <1>6, BusPlaces DEF FieldsAre
  <2>2. /\ m.queue[b].numAlloc \in Nat /\ m.queue[b].numReserved \in Nat
        /\ m.numFreeElements \in Nat /\ m.numReserveElements \in Nat
        /\ m.queue[o].numAlloc \in Nat /\ Undrawn(m, o) \in Nat
    BY <2>1, <1>1, DriverAssumption DEF ManagerData, QueueData, Undrawn
  <2> HIDE DEF o
  <2>3. /\ m.queue[b].numAlloc <= maxElements
        /\ m.queue[o].numAlloc <= maxElements
        /\ m.queue[b].numReserved \in {0, reserveElements}
        /\ m.queue[o].numReserved \in {0, reserveElements}
        /\ m.numFreeElements + m.queue[b].numAlloc + m.queue[o].numAlloc = PoolSize
        /\ m.numReserveElements = Undrawn(m, b) + Undrawn(m, o)
        /\ m.numReserveElements <= m.numFreeElements
    BY <1>1, CountedOf DEF o
  <2>4. /\ n.queue[b].numAlloc = m.queue[b].numAlloc - 1
        /\ n.queue[b].numReserved = m.queue[b].numReserved
        /\ Undrawn(n, o) = Undrawn(m, o)
        /\ n.numFreeElements = m.numFreeElements + 1
        /\ n.numReserveElements = m.numReserveElements +
             (IF m.queue[b].numAlloc <= m.queue[b].numReserved THEN 1 ELSE 0)
    BY <1>6, <2>1 DEF FieldsAre, Undrawn
  <2> DEFINE back == IF m.queue[b].numAlloc <= m.queue[b].numReserved THEN 1 ELSE 0
  <2>a. Undrawn(n, b) = Undrawn(m, b) + back
    BY <1>4, <2>2, <2>4, GivenBack DEF Undrawn
  <2>b. back \in {0, 1} /\ Undrawn(m, b) \in Nat
    BY <2>2 DEF Undrawn
  <2>c. n.numReserveElements = m.numReserveElements + back
    BY <2>4
  <2> HIDE DEF back
  <2>5. n.numReserveElements = Undrawn(n, b) + Undrawn(n, o)
    BY <2>2, <2>3, <2>4, <2>a, <2>b, <2>c
  <2>6. n.numReserveElements <= n.numFreeElements
    BY <2>2, <2>3, <2>4, <2>b, <2>c
  <2>7. n.numFreeElements + n.queue[b].numAlloc + n.queue[o].numAlloc = PoolSize
    <3>1. \A f, k, l \in Nat : (f + 1) + (k - 1) + l = f + k + l
      OBVIOUS
    <3>2. n.queue[o].numAlloc = m.queue[o].numAlloc
      BY <2>1
    <3> QED
      BY <2>2, <2>3, <2>4, <3>1, <3>2
  <2>8. n.queue[b].numAlloc <= maxElements
    BY <1>4, <2>2, <2>3, <2>4, QueueAssumption
  <2>9. /\ n.queue[o].numAlloc <= maxElements
        /\ n.queue[b].numReserved \in {0, reserveElements}
        /\ n.queue[o].numReserved \in {0, reserveElements}
    BY <2>1, <2>3, <2>4
  <2> QED
    BY <1>6, <2>5, <2>6, <2>7, <2>8, <2>9, CountedOf DEF o
<1>11. \A c \in Bus : n.queue[c].numReserved = m.queue[c].numReserved
  BY <1>6 DEF FieldsAre
<1>12. Arranged(n, r)
  BY <1>2, <1>3, <1>6, <1>8, <1>9, <1>10, MovedArranged
<1> QED
  BY <1>11, <1>12 DEF n, e

\* A queue created: its reserve is set aside, and no element moves.
LEMMA CreateKeeps ==
  ASSUME NEW m, NEW q, Arranged(m, q), NEW b \in Bus, ~CreateQueueRefused(m),
         m.queue[b].numReserved = 0,
         Len(q[WaitPlace(b)]) = 0, Len(q[RunPlace(b)]) = 0
  PROVE  LET n == CreateQueue(m, b) IN
         /\ Arranged(n, q)
         /\ n.queue[b].numReserved = reserveElements
         /\ n.queue[b].pHead = m.queue[b].pHead
         /\ \A c \in Bus \ {b} : n.queue[c] = m.queue[c]
<1> DEFINE n == CreateQueue(m, b)
           o == 1 - b
<1>1. m \in ManagerData /\ q \in Lists /\ Tells(m, q) /\ Counted(m)
  BY DEF Arranged
<1>2. /\ n \in ManagerData
      /\ n.pNext = m.pNext
      /\ n.pFreeElementHead = m.pFreeElementHead
      /\ n.pFreeElementTail = m.pFreeElementTail
      /\ n.numFreeElements = m.numFreeElements
      /\ n.numReserveElements = m.numReserveElements + reserveElements
      /\ FieldsAre(n, m, b, NULL, NULL, 0, reserveElements)
  BY <1>1, CreateFields
<1> HIDE DEF n
<1>3. m.queue[b].pHead = NULL /\ m.queue[b].pTail = NULL
  BY <1>1, BusPlaces, Ends DEF Tells
<1>4. m.queue[b].numAlloc = 0
  <2>1. m.queue[b].numAlloc = Len(q[WaitPlace(b)]) + Len(q[RunPlace(b)])
    BY <1>1 DEF Tells
  <2> QED
    BY <2>1
<1>5. Tells(n, q)
  BY <1>1, <1>2, <1>3, <1>4 DEF Tells, FieldsAre
<1>6. Counted(n)
  <2>1. o \in Bus /\ o # b /\ n.queue[o] = m.queue[o]
    BY <1>2, BusPlaces DEF FieldsAre
  <2>2. /\ m.numFreeElements \in Nat /\ m.numReserveElements \in Nat
        /\ reserveElements \in Nat /\ maxElements \in Nat
        /\ m.queue[o].numAlloc \in Nat /\ Undrawn(m, o) \in Nat
    BY <2>1, <1>1, DriverAssumption, QueueAssumption
    DEF ManagerData, QueueData, Undrawn
  <2> HIDE DEF o
  <2>3. /\ m.queue[o].numAlloc <= maxElements
        /\ m.queue[o].numReserved \in {0, reserveElements}
        /\ m.numFreeElements + m.queue[b].numAlloc + m.queue[o].numAlloc = PoolSize
        /\ m.numReserveElements = Undrawn(m, b) + Undrawn(m, o)
        /\ m.numReserveElements <= m.numFreeElements
    BY <1>1, CountedOf DEF o
  <2>4. m.numReserveElements = Undrawn(m, o)
    BY <1>4, <2>2, <2>3 DEF Undrawn
  <2>5. /\ n.queue[b].numAlloc = 0 /\ n.queue[b].numReserved = reserveElements
        /\ Undrawn(n, o) = Undrawn(m, o)
    BY <1>2, <2>1 DEF FieldsAre, Undrawn
  <2>6. Undrawn(n, b) = reserveElements
    BY <2>2, <2>5 DEF Undrawn
  <2>7. n.numReserveElements = Undrawn(n, b) + Undrawn(n, o)
    BY <1>2, <2>2, <2>4, <2>5, <2>6
  <2>8. n.numReserveElements <= n.numFreeElements
    BY <1>2, <2>2 DEF CreateQueueRefused
  <2>9. n.queue[b].numAlloc <= maxElements
    BY <2>2, <2>5
  <2>10. n.numFreeElements + n.queue[b].numAlloc + n.queue[o].numAlloc = PoolSize
    BY <1>2, <1>4, <2>1, <2>3, <2>5
  <2>11. /\ n.queue[o].numAlloc <= maxElements
         /\ n.queue[b].numReserved \in {0, reserveElements}
         /\ n.queue[o].numReserved \in {0, reserveElements}
    BY <2>1, <2>3, <2>5
  <2> QED
    BY <1>2, <2>7, <2>8, <2>9, <2>10, <2>11, CountedOf DEF o
<1> QED
  BY <1>2, <1>3, <1>5, <1>6 DEF Arranged, FieldsAre, n

\* The lists before there is a queue.
InitialLists ==
  [z \in Place |-> IF z = FreePlace THEN [i \in 1..PoolSize |-> i] ELSE <<>>]

\* The manager starts sound, with all its elements free.
LEMMA InitArranged == Arranged(Initialize, InitialLists)
<1> DEFINE q == InitialLists
           m == Initialize
<1> USE QueueAssumption, DriverAssumption
<1>1. /\ q[0] \in Seq(Element) /\ Len(q[0]) = PoolSize
      /\ \A i \in 1..PoolSize : q[0][i] = i
  BY DEF InitialLists, FreePlace, Place, Element
<1>2. \A z \in Place \ {0} : q[z] = <<>> /\ Len(q[z]) = 0 /\ q[z] \in Seq(Element)
  BY DEF InitialLists, FreePlace
<1>3. q \in Lists
  BY <1>1, <1>2 DEF Lists, InitialLists
<1> HIDE DEF q
<1>4. m \in ManagerData
  <2>1. [e \in Element |-> IF e = PoolSize THEN NULL ELSE e + 1]
          \in [Element -> Pointer]
    BY DEF Element, Pointer
  <2>2. /\ 1 \in Pointer /\ PoolSize \in Pointer /\ NULL \in Pointer
        /\ NoQueue \in QueueData
    BY DEF Element, Pointer, QueueData, NoQueue, NULL
  <2> QED
    BY <2>1, <2>2 DEF ManagerData, Initialize
<1>5. /\ m.pNext = [e \in Element |-> IF e = PoolSize THEN NULL ELSE e + 1]
      /\ m.pFreeElementHead = 1 /\ m.pFreeElementTail = PoolSize
      /\ m.numFreeElements = PoolSize /\ m.numReserveElements = 0
      /\ \A b \in Bus : /\ m.queue[b].pHead = NULL /\ m.queue[b].pTail = NULL
                        /\ m.queue[b].numAlloc = 0 /\ m.queue[b].numReserved = 0
  BY DEF Initialize, NoQueue
<1> HIDE DEF m
<1>6. Distinct(q)
  BY <1>1, <1>2 DEF Distinct, Place
<1>7. Covering(q)
  <2>1. \A e \in Element : e \in 1..Len(q[0]) /\ q[0][e] = e
    BY <1>1 DEF Element
  <2>2. 0 \in Place
    BY DEF Place
  <2> QED
    BY <2>1, <2>2 DEF Covering
<1>8. Linking(m.pNext, q)
  <2>1. ASSUME NEW i \in 1..PoolSize
        PROVE  m.pNext[q[0][i]] = After(q[0], i + 1)
    BY <1>1, <1>5 DEF After, Element
  <2> QED
    BY <1>1, <1>2, <2>1 DEF Linking
<1>9. Tells(m, q)
  <2>1. \A b \in Bus : WaitPlace(b) \in Place \ {0} /\ RunPlace(b) \in Place \ {0}
    BY BusPlaces DEF FreePlace
  <2>2. After(q[0], 1) = 1 /\ LastIn(q[0]) = PoolSize
    BY <1>1 DEF After, LastIn
  <2>3. \A z \in Place \ {0} : After(q[z], 1) = NULL /\ LastIn(q[z]) = NULL
    BY <1>2 DEF After, LastIn
  <2>4. \A b \in Bus : /\ m.queue[b].pHead = After(q[WaitPlace(b)], 1)
                       /\ m.queue[b].pTail = LastIn(q[WaitPlace(b)])
    BY <1>5, <2>1, <2>3
  <2>5. \A b \in Bus :
          m.queue[b].numAlloc = Len(q[WaitPlace(b)]) + Len(q[RunPlace(b)])
    <3>1. \A b \in Bus : Len(q[WaitPlace(b)]) = 0 /\ Len(q[RunPlace(b)]) = 0
      BY <1>2, <2>1
    <3>2. 0 + 0 = 0
      OBVIOUS
    <3> QED
      BY <1>5, <3>1, <3>2, Zenon
  <2> QED
    BY <1>1, <1>5, <2>2, <2>4, <2>5 DEF Tells, FreePlace
<1>10. Counted(m)
  BY <1>5 DEF Counted, Undrawn, Bus
<1> QED
  BY <1>3, <1>4, <1>6, <1>7, <1>8, <1>9, <1>10 DEF Arranged, q, m
-----------------------------------------------------------------------------
\* The elements that run are the current jobs.
RunsAre(q, current) ==
  \A b \in Bus :
    q[RunPlace(b)] = IF current[b] = NULL THEN <<>> ELSE <<current[b]>>

\* Lists that are arranged are the ones the links yield.
LEMMA ListsAre ==
  ASSUME NEW m, NEW q, Arranged(m, q), NEW current, RunsAre(q, current)
  PROVE  ListsOf(m, current) = q
<1>1. /\ m \in ManagerData /\ q \in Lists /\ Tells(m, q) /\ Counted(m)
      /\ Linking(m.pNext, q)
  BY DEF Arranged
<1>2. \A z \in Place : Len(q[z]) \in Nat /\ q[z] \in Seq(Element)
  BY <1>1, LenProperties DEF Lists
<1>3. Len(q[FreePlace]) <= PoolSize
      /\ \A b \in Bus : Len(q[WaitPlace(b)]) <= PoolSize
  <2>1. /\ m.numFreeElements + m.queue[0].numAlloc + m.queue[1].numAlloc = PoolSize
        /\ m.numFreeElements = Len(q[FreePlace])
        /\ \A b \in Bus : m.queue[b].numAlloc =
                            Len(q[WaitPlace(b)]) + Len(q[RunPlace(b)])
    BY <1>1 DEF Counted, Tells
  <2>2. /\ 0 \in Bus /\ 1 \in Bus
        /\ \A b \in Bus : /\ Len(q[WaitPlace(b)]) \in Nat
                          /\ Len(q[RunPlace(b)]) \in Nat
        /\ Len(q[FreePlace]) \in Nat
    BY <1>2, BusPlaces DEF Bus
  <2>3. \A k, l \in Nat : k + l \in Nat /\ k <= k + l
    OBVIOUS
  <2>4. \A b \in Bus : /\ m.queue[b].numAlloc \in Nat
                       /\ Len(q[WaitPlace(b)]) <= m.queue[b].numAlloc
    <3>1. SUFFICES ASSUME NEW b \in Bus
                   PROVE  /\ m.queue[b].numAlloc \in Nat
                          /\ Len(q[WaitPlace(b)]) <= m.queue[b].numAlloc
      OBVIOUS
    <3>2. PICK k \in Nat, l \in Nat :
            k = Len(q[WaitPlace(b)]) /\ l = Len(q[RunPlace(b)])
      BY <2>2
    <3>3. m.queue[b].numAlloc = k + l
      BY <2>1, <3>2
    <3> QED
      BY <2>3, <3>2, <3>3
  <2>5. \A f, k, l \in Nat : f <= f + k + l /\ k <= f + k + l /\ l <= f + k + l
    OBVIOUS
  <2>6. /\ Len(q[FreePlace]) <= PoolSize
        /\ \A b \in Bus : m.queue[b].numAlloc <= PoolSize
    BY <2>1, <2>2, <2>4, <2>5 DEF Bus
  <2>7. \A k, l, n \in Nat : k <= l /\ l <= n => k <= n
    OBVIOUS
  <2> QED
    BY <2>2, <2>4, <2>6, <2>7, QueueAssumption
<1>4. ASSUME NEW z \in Place, NEW head, head = After(q[z], 1),
             Len(q[z]) <= PoolSize
      PROVE  Chain(m, head) = q[z]
  <2>1. Linked(m.pNext, head, q[z])
    BY <1>1, <1>4 DEF Linked, Linking
  <2> QED
    BY <1>2, <1>4, <2>1, ChainIs
<1>5. Chain(m, m.pFreeElementHead) = q[FreePlace]
  BY <1>1, <1>3, <1>4, BusPlaces DEF Tells, Bus
<1>6. \A b \in Bus : Chain(m, m.queue[b].pHead) = q[WaitPlace(b)]
  <2> TAKE b \in Bus
  <2> QED
    BY <1>1, <1>3, <1>4, BusPlaces DEF Tells
<1>7. ASSUME NEW z \in Place
      PROVE  ListsOf(m, current)[z] = q[z]
  <2>1. CASE z = 0
    BY <1>5, <2>1 DEF ListsOf, FreePlace
  <2>2. CASE z \in {1, 2}
    <3>1. z - 1 \in Bus /\ WaitPlace(z - 1) = z /\ WaitPlace(0) = 1
          /\ WaitPlace(1) = 2 /\ z # FreePlace
      BY <2>2 DEF Bus, WaitPlace, FreePlace
    <3>2. ListsOf(m, current)[z] = Chain(m, m.queue[z - 1].pHead)
      BY <2>2, <3>1 DEF ListsOf
    <3> QED
      BY <1>6, <3>1, <3>2
  <2>3. CASE z \in {3, 4}
    <3>1. z - 3 \in Bus /\ RunPlace(z - 3) = z /\ WaitPlace(0) = 1
          /\ WaitPlace(1) = 2 /\ z # FreePlace /\ z # 1 /\ z # 2
      BY <2>3 DEF Bus, WaitPlace, RunPlace, FreePlace
    <3>2. ListsOf(m, current)[z] =
            IF current[z - 3] = NULL THEN <<>> ELSE <<current[z - 3]>>
      BY <3>1 DEF ListsOf
    <3> QED
      BY <3>1, <3>2 DEF RunsAre
  <2> QED
    BY <2>1, <2>2, <2>3 DEF Place
<1>8. DOMAIN ListsOf(m, current) = Place /\ DOMAIN q = Place
  BY <1>1 DEF ListsOf, Lists
<1>9. ListsOf(m, current) = [z \in Place |-> ListsOf(m, current)[z]]
  BY DEF ListsOf
<1>10. q = [z \in Place |-> q[z]]
  BY <1>1 DEF Lists
<1> HIDE DEF ListsOf
<1> QED
  BY <1>7, <1>9, <1>10
-----------------------------------------------------------------------------
\* The DAC's writer and the display's, each on its bus.
WriterStep(b) == (b = 1 /\ spi_write1) \/ (b = 0 /\ spi_write2)

\* The steps of the driver, one by one.
QuietStep(b) ==
  \/ ClientConfigure(b) \/ NothingToDo(b) \/ Resume(b) \/ Start(b)
  \/ MasterEBMSend8BitPolled(b) \/ NoError(b) \/ AnswerLost(b)
  \/ MasterEBMReceive8BitPolled(b) \/ ReceiveForNoJob(b)
  \/ EndOfTurn \/ (\E n \in ExchangeSizes : Exchange(b, n))
  \/ ExchangeFill(b) \/ ExchangeRead(b) \/ ExchangeEnds(b)
  \/ Shift(b) \/ WriterStep(b)
AddStep(b) == (\E j \in JobsOffered : Call(b, j)) \/ Callback(b)
StepOf(b) ==
  \/ QuietStep(b) \/ AddStep(b) \/ InitializeInstance(b) \/ Take(b)
  \/ Drop(b) \/ Finish(b)

\* There are no others.
LEMMA StepIs ==
  ASSUME SpiNext
  PROVE  fault = "no" /\ \E b \in Bus : StepOf(b)
<1>0. 0 \in Bus /\ 1 \in Bus
  BY DEF Bus
<1>1. fault = "no"
  BY DEF SpiNext
<1>2. CASE EndOfTurn
  <2>1. QuietStep(0)
    BY <1>2, Zenon DEF QuietStep
  <2> QED
    BY <1>0, <1>1, <2>1, Zenon DEF StepOf
<1>3. CASE DRV_SPI0_BufferAddWriteRead \/ DRV_SPI1_BufferAddWriteRead
  <2>1. QuietStep(0) \/ QuietStep(1)
    BY <1>3, Zenon
    DEF DRV_SPI0_BufferAddWriteRead, DRV_SPI1_BufferAddWriteRead, QuietStep
  <2> QED
    BY <1>0, <1>1, <2>1, Zenon DEF StepOf
<1>4. ASSUME NEW b \in Bus, Turn(b)
      PROVE  \E c \in Bus : StepOf(c)
  <2>1. CASE DRV_SPI_Initialize(b)
    BY <1>0, <2>1 DEF DRV_SPI_Initialize, DRV_SPI0_Initialize,
                      DRV_SPI1_Initialize, StepOf
  <2>2. CASE DRV_SPI_ClientConfigure(DRV_SPI_Open(b))
    BY <1>0, <2>2 DEF DRV_SPI_ClientConfigure, DRV_SPI0_ClientConfigure,
                      DRV_SPI1_ClientConfigure, StepOf, QuietStep
  <2>3. CASE DRV_SPI_Tasks(b)
    <3>1. CASE DRV_SPI0_PolledMasterEBM8BitTasks
      BY <1>0, <3>1
      DEF DRV_SPI0_PolledMasterEBM8BitTasks, PassItself,
          DRV_SPI0_MasterEBMSend8BitPolled, DRV_SPI0_PolledErrorTasks,
          PolledErrorTasks, DRV_SPI0_MasterEBMReceive8BitPolled, StepOf, QuietStep
    <3>2. CASE DRV_SPI1_PolledMasterEBM8BitTasks
      BY <1>0, <3>2
      DEF DRV_SPI1_PolledMasterEBM8BitTasks, PassItself,
          DRV_SPI1_MasterEBMSend8BitPolled, DRV_SPI1_PolledErrorTasks,
          PolledErrorTasks, DRV_SPI1_MasterEBMReceive8BitPolled, StepOf, QuietStep
    <3> QED
      BY <2>3, <3>1, <3>2 DEF DRV_SPI_Tasks, DRV_SPI0_Tasks, DRV_SPI1_Tasks
  <2>4. CASE Blocking(b)
    BY <2>4 DEF Blocking, StepOf, QuietStep
  <2> QED
    BY <1>4, <2>1, <2>2, <2>3, <2>4 DEF Turn
<1>5. ASSUME NEW b \in Bus, Client(b)
      PROVE  \E c \in Bus : StepOf(c)
  <2>1. \A c \in Bus : \A n \in ReadSizes : Call(c, ReadJob(n)) => AddStep(c)
    BY DEF AddStep, JobsOffered
  <2>2. \A c \in Bus : \A n \in WriteSizes : Call(c, WriteJob(n)) => AddStep(c)
    BY DEF AddStep, JobsOffered
  <2>3. \A c \in Bus : \A s \in WriteReadSizes :
          Call(c, WriteReadJob(s[1], s[2])) => AddStep(c)
    BY DEF AddStep, JobsOffered
  <2>4. CASE Callback(b)
    BY <2>4 DEF StepOf, AddStep
  <2>5. CASE ~Callback(b)
    <3>1. \E c \in Bus : \/ \E n \in ReadSizes : Call(c, ReadJob(n))
                         \/ \E n \in WriteSizes : Call(c, WriteJob(n))
                         \/ \E s \in WriteReadSizes :
                              Call(c, WriteReadJob(s[1], s[2]))
      BY <1>0, <1>5, <2>5
      DEF Client, DRV_SPI_BufferAddRead, DRV_SPI_BufferAddRead2,
          DRV_SPI_BufferAddWrite, DRV_SPI_BufferAddWrite2,
          DRV_SPI_BufferAddWriteRead, DRV_SPI_BufferAddWriteRead2,
          DRV_SPI0_BufferAddRead, DRV_SPI1_BufferAddRead,
          DRV_SPI0_BufferAddWrite, DRV_SPI1_BufferAddWrite,
          DRV_SPI0_BufferAddRead2, DRV_SPI1_BufferAddRead2,
          DRV_SPI0_BufferAddWrite2, DRV_SPI1_BufferAddWrite2,
          DRV_SPI0_BufferAddWriteRead2, DRV_SPI1_BufferAddWriteRead2,
          DRV_SPI0_BufferAddWriteReadNew, DRV_SPI1_BufferAddWriteReadNew
    <3>2. \E c \in Bus : AddStep(c)
      BY <2>1, <2>2, <2>3, <3>1
    <3> QED
      BY <3>2 DEF StepOf
  <2> QED
    BY <2>4, <2>5
<1>6. ASSUME NEW b \in Bus, Shift(b)
      PROVE  \E c \in Bus : StepOf(c)
  BY <1>6 DEF StepOf, QuietStep
<1>7. CASE spi_write1 \/ spi_write2
  <2>1. WriterStep(0) \/ WriterStep(1)
    BY <1>7, Zenon DEF WriterStep
  <2>2. QuietStep(0) \/ QuietStep(1)
    BY <2>1, Zenon DEF QuietStep
  <2>3. StepOf(0) \/ StepOf(1)
    BY <2>2, Zenon DEF StepOf
  <2> QED
    BY <1>0, <1>1, <2>3, Zenon
<1> QED
  BY <1>1, <1>2, <1>3, <1>4, <1>5, <1>6, <1>7 DEF SpiNext

\* Another writer changes only the FIFOs of its bus, and never clears an overflow.
LEMMA WriterDoes ==
  ASSUME hw \in [Bus -> Hardware], NEW b \in Bus, WriterStep(b)
  PROVE  /\ hw' \in [Bus -> Hardware]
         /\ \A c \in Bus \ {b} : hw'[c] = hw[c]
         /\ hw[b].rov => hw'[b].rov
         /\ b \in SharedBus /\ disturbed' = disturbed \union {b}
         /\ UNCHANGED <<pool, job, obj, loop, fault>>
<1> DEFINE h == hw[b]
           n == leastOf(FifoSize, h.tx + 1)
           x == leastOf(FifoSize, h.rx + n)
           v == h.rov \/ h.rx + n > FifoSize
<1>1. h \in Hardware /\ FifoSize \in Nat
  BY DriverAssumption
<1>2. n \in 0..FifoSize /\ x \in 0..FifoSize /\ v \in BOOLEAN /\ 0 \in 0..FifoSize
  BY <1>1 DEF Hardware, leastOf
<1>3. Written(h) = [h EXCEPT !.tx = 0, !.rx = x, !.rov = v]
  BY <1>1 DEF Written, Received, Hardware
<1> HIDE DEF h, n, x
<1>4. /\ Written(h) \in Hardware
      /\ Written(h).rov = v
      /\ [Written(h) EXCEPT !.rx = 0] \in Hardware
      /\ [Written(h) EXCEPT !.rx = 0].rov = v
  <2> HIDE DEF v
  <2> QED
    BY <1>1, <1>2, <1>3 DEF Hardware
<1>5. h.rov => v
  BY Zenon
<1>6. ASSUME NEW g \in Hardware, g.rov = v, hw' = [hw EXCEPT ![b] = g]
      PROVE  /\ hw' \in [Bus -> Hardware]
             /\ \A c \in Bus \ {b} : hw'[c] = hw[c]
             /\ hw[b].rov => hw'[b].rov
  <2>1. hw'[b].rov = v
    BY <1>6
  <2>2. hw[b].rov => hw'[b].rov
    BY <1>5, <2>1, Zenon DEF h
  <2> HIDE DEF v
  <2> QED
    BY <1>6, <2>2
<1>7. CASE b = 1 /\ spi_write1
  <2>1. /\ hw' = [hw EXCEPT ![b] = Written(h)] /\ b \in SharedBus
        /\ disturbed' = disturbed \union {b}
        /\ UNCHANGED <<pool, job, obj, loop, fault>>
    BY <1>7 DEF spi_write1, h
  <2> HIDE DEF v
  <2> QED
    BY <1>4, <1>6, <2>1
<1>8. CASE b = 0 /\ spi_write2
  <2>1. /\ hw' = [hw EXCEPT ![b] = [Written(h) EXCEPT !.rx = 0]]
        /\ b \in SharedBus /\ disturbed' = disturbed \union {b}
        /\ UNCHANGED <<pool, job, obj, loop, fault>>
    BY <1>8 DEF spi_write2, h
  <2> HIDE DEF v
  <2> QED
    BY <1>4, <1>6, <2>1
<1> QED
  BY <1>7, <1>8 DEF WriterStep

\* Only the writers disturb a bus, each its own.
LEMMA DisturbedStep ==
  ASSUME hw \in [Bus -> Hardware], NEW b \in Bus, StepOf(b)
  PROVE  \/ UNCHANGED disturbed
         \/ /\ WriterStep(b) /\ b \in SharedBus
            /\ disturbed' = disturbed \union {b}
<1>1. CASE WriterStep(b)
  <2>1. b \in SharedBus /\ disturbed' = disturbed \union {b}
    BY <1>1, WriterDoes
  <2> QED
    BY <1>1, <2>1, Zenon
<1>2. ASSUME QuietStep(b), ~WriterStep(b)
      PROVE  UNCHANGED disturbed
  <2>1. CASE \/ ClientConfigure(b) \/ NothingToDo(b) \/ Resume(b) \/ Start(b)
             \/ MasterEBMSend8BitPolled(b) \/ NoError(b) \/ AnswerLost(b)
    BY <2>1 DEF ClientConfigure, NothingToDo, Resume, Start,
      MasterEBMSend8BitPolled, NoError, AnswerLost
  <2>2. CASE \/ MasterEBMReceive8BitPolled(b) \/ ReceiveForNoJob(b)
             \/ EndOfTurn \/ (\E n \in ExchangeSizes : Exchange(b, n))
    BY <2>2 DEF MasterEBMReceive8BitPolled, ReceiveForNoJob, EndOfTurn, Exchange
  <2>3. CASE ExchangeFill(b) \/ ExchangeRead(b) \/ ExchangeEnds(b) \/ Shift(b)
    BY <2>3 DEF ExchangeFill, ExchangeRead, ExchangeEnds, Shift
  <2> QED
    BY <1>2, <2>1, <2>2, <2>3, Zenon DEF QuietStep
<1>3. CASE AddStep(b)
  BY <1>3 DEF AddStep, Call, Callback
<1>4. CASE InitializeInstance(b) \/ Take(b) \/ Drop(b) \/ Finish(b)
  BY <1>4 DEF InitializeInstance, Take, Drop, Finish
<1> QED
  BY <1>1, <1>2, <1>3, <1>4 DEF StepOf
-----------------------------------------------------------------------------
\* What a step makes of the lists.
LEMMA RunningLists ==
  ASSUME NEW m, NEW current
  PROVE  /\ RunsAre(ListsOf(m, current), current)
         /\ \A b \in Bus :
              ListsOf(m, current)[RunPlace(b)] =
                IF current[b] = NULL THEN <<>> ELSE <<current[b]>>
<1>1. ASSUME NEW b \in Bus
      PROVE  ListsOf(m, current)[RunPlace(b)] =
               IF current[b] = NULL THEN <<>> ELSE <<current[b]>>
  <2>1. /\ RunPlace(b) \in Place /\ RunPlace(b) # FreePlace
        /\ RunPlace(b) # WaitPlace(0) /\ RunPlace(b) # WaitPlace(1)
        /\ RunPlace(b) - 3 = b
    BY DEF RunPlace, WaitPlace, FreePlace, Place, Bus
  <2> QED
    BY <2>1 DEF ListsOf
<1> QED
  BY <1>1 DEF RunsAre

\* Most steps leave the pool and the jobs that run alone.
LEMMA QuietKeeps ==
  ASSUME DataType, NEW b \in Bus, QuietStep(b)
  PROVE  /\ UNCHANGED pool
         /\ \A c \in Bus : /\ obj'[c].currentJob = obj[c].currentJob
                           /\ obj'[c].sel = obj[c].sel
<1> USE DEF DataType
<1>1. CASE UNCHANGED <<pool, obj>>
  BY <1>1
<1>2. CASE ClientConfigure(b)
  BY <1>2 DEF ClientConfigure, Object
<1>3. CASE MasterEBMSend8BitPolled(b)
  BY <1>3 DEF MasterEBMSend8BitPolled, Object
<1>4. CASE MasterEBMReceive8BitPolled(b)
  BY <1>4 DEF MasterEBMReceive8BitPolled, Object
<1>5. CASE WriterStep(b)
  <2>1. UNCHANGED <<pool, obj>>
    BY <1>5, WriterDoes
  <2> QED
    BY <1>1, <2>1
<1>6. ASSUME ~ClientConfigure(b), ~MasterEBMSend8BitPolled(b),
             ~MasterEBMReceive8BitPolled(b), ~WriterStep(b)
      PROVE  UNCHANGED <<pool, obj>>
  <2>1. CASE \/ NothingToDo(b) \/ Resume(b) \/ Start(b) \/ NoError(b)
             \/ AnswerLost(b) \/ ReceiveForNoJob(b) \/ EndOfTurn
    BY <2>1 DEF NothingToDo, Resume, Start, NoError, AnswerLost,
      ReceiveForNoJob, EndOfTurn
  <2>2. CASE \/ (\E n \in ExchangeSizes : Exchange(b, n)) \/ ExchangeFill(b)
             \/ ExchangeRead(b) \/ ExchangeEnds(b) \/ Shift(b)
    BY <2>2 DEF Exchange, ExchangeFill, ExchangeRead, ExchangeEnds, Shift
  <2> QED
    BY <1>6, <2>1, <2>2, Zenon DEF QuietStep
<1> QED
  BY <1>1, <1>2, <1>3, <1>4, <1>5, <1>6

\* A step that changes neither the pool nor what runs keeps the lists.
LEMMA ListsKept ==
  ASSUME UNCHANGED pool, \A c \in Bus : obj'[c].currentJob = obj[c].currentJob
  PROVE  AllLists' = AllLists
<1>1. Current' = Current
  BY DEF Current
<1> QED
  BY <1>1, Zenon DEF AllLists

\* A job accepted goes to the end of the line of its bus.
LEMMA ListsAdded ==
  ASSUME Arranged(pool, AllLists), NEW b \in Bus, NEW j, BufferAdd(b, j),
         UNCHANGED obj
  PROVE  LET e == ElementOf(pool) IN
         /\ Len(AllLists[FreePlace]) # 0 /\ e = AllLists[FreePlace][1]
         /\ e \in Element
         /\ job' = [job EXCEPT ![e] = j]
         /\ AllLists' = Moved(AllLists, FreePlace, WaitPlace(b))
         /\ Arranged(pool', AllLists')
         /\ \A c \in Bus : pool'.queue[c].numReserved = pool.queue[c].numReserved
<1> DEFINE q == AllLists
           e == ElementOf(pool)
           n == EnqueueLock(AllocElementLock(pool, b), b, e)
           r == Moved(q, FreePlace, WaitPlace(b))
<1>1. ~AllocElementRefused(pool, b) /\ pool' = n /\ job' = [job EXCEPT ![e] = j]
  BY DEF BufferAdd
<1>2. /\ Len(q[FreePlace]) # 0 /\ e = q[FreePlace][1] /\ e \in Element
      /\ Arranged(n, r)
      /\ \A c \in Bus : n.queue[c].numReserved = pool.queue[c].numReserved
  BY <1>1, AddMoves
<1>3. RunsAre(r, Current)
  <2>1. RunsAre(q, Current)
    BY RunningLists DEF AllLists
  <2>2. q \in Lists
    BY DEF Arranged
  <2>3. \A c \in Bus : RunPlace(c) \in Place \ {FreePlace, WaitPlace(b)}
    BY BusPlaces
  <2>4. \A z \in Place \ {FreePlace, WaitPlace(b)} : r[z] = q[z]
    BY <1>2, <2>2, BusPlaces, MovedPositions
  <2> HIDE DEF r, q
  <2> QED
    BY <2>1, <2>3, <2>4 DEF RunsAre
<1>4. Current' = Current
  BY DEF Current
<1>5. AllLists' = r
  <2>1. ListsOf(n, Current) = r
    <3> HIDE DEF n, r
    <3> QED
      BY <1>2, <1>3, ListsAre
  <2> HIDE DEF n, r
  <2> QED
    BY <1>1, <1>4, <2>1, Zenon DEF AllLists
<1> HIDE DEF n, r
<1> QED
  BY <1>1, <1>2, <1>5 DEF r

\* A job taken leaves the line and runs.
LEMMA ListsTaken ==
  ASSUME Arranged(pool, AllLists), obj \in [Bus -> Object], NEW b \in Bus, Take(b)
  PROVE  LET e == pool.queue[b].pHead IN
         /\ Len(AllLists[WaitPlace(b)]) # 0 /\ e = AllLists[WaitPlace(b)][1]
         /\ e \in Element
         /\ AllLists' = Moved(AllLists, WaitPlace(b), RunPlace(b))
         /\ Arranged(pool', AllLists')
         /\ \A c \in Bus : pool'.queue[c].numReserved = pool.queue[c].numReserved
<1> DEFINE q == AllLists
           e == pool.queue[b].pHead
           n == DequeueLock(pool, b)
           r == Moved(q, WaitPlace(b), RunPlace(b))
<1>1. /\ obj[b].currentJob = NULL /\ ~IsEmpty(pool, b) /\ pool' = n
      /\ obj' = [obj EXCEPT ![b].currentJob = e, ![b].symbolsInProgress = 0,
                            ![b].sel = @ \/ obj[b].operationStarting]
  BY DEF Take
<1>2. /\ RunsAre(q, Current)
      /\ \A c \in Bus : q[RunPlace(c)] =
           IF Current[c] = NULL THEN <<>> ELSE <<Current[c]>>
  BY RunningLists DEF AllLists
<1>3. q[RunPlace(b)] = <<>> /\ Len(q[RunPlace(b)]) = 0
  <2>1. Current[b] = NULL
    BY <1>1 DEF Current
  <2>2. q[RunPlace(b)] = <<>>
    BY <1>2, <2>1, Zenon
  <2> QED
    BY <2>2, EmptySeq, Zenon
<1>4. /\ Len(q[WaitPlace(b)]) # 0 /\ e = q[WaitPlace(b)][1] /\ e \in Element
      /\ Arranged(n, r)
      /\ \A c \in Bus : n.queue[c].numReserved = pool.queue[c].numReserved
  BY <1>1, <1>3, TakeMoves
<1>5. Current' = [Current EXCEPT ![b] = e]
  BY <1>1 DEF Current, Object
<1>6. RunsAre(r, Current')
  <2>1. q \in Lists
    BY DEF Arranged
  <2>2. r[RunPlace(b)] = <<e>>
    <3>1. r[RunPlace(b)] = Append(q[RunPlace(b)], q[WaitPlace(b)][1])
      BY <2>1, BusPlaces DEF Moved, Lists
    <3> QED
      BY <1>3, <1>4, <3>1
  <2>3. \A c \in Bus \ {b} : RunPlace(c) \in Place \ {WaitPlace(b), RunPlace(b)}
    BY BusPlaces
  <2>4. \A z \in Place \ {WaitPlace(b), RunPlace(b)} : r[z] = q[z]
    BY <1>4, <2>1, BusPlaces, MovedPositions
  <2>5. e # NULL
    BY <1>4 DEF Element, NULL
  <2>6. Current'[b] = e /\ \A c \in Bus \ {b} : Current'[c] = Current[c]
    <3> HIDE DEF e
    <3>1. DOMAIN Current = Bus
      BY DEF Current
    <3> HIDE DEF Current
    <3> QED
      BY <1>5, <3>1
  <2> HIDE DEF r, q, e
  <2> QED
    BY <1>2, <2>2, <2>3, <2>4, <2>5, <2>6 DEF RunsAre
<1>7. AllLists' = r
  <2>1. ListsOf(n, Current') = r
    <3> HIDE DEF n, r
    <3> QED
      BY <1>4, <1>6, ListsAre
  <2> HIDE DEF n, r
  <2> QED
    BY <1>1, <2>1, Zenon DEF AllLists
<1> HIDE DEF n, r
<1> QED
  BY <1>1, <1>4, <1>7 DEF r

\* The element of a job that is over goes to the end of the free ones.
LEMMA ListsFreed ==
  ASSUME Arranged(pool, AllLists), obj \in [Bus -> Object], NEW b \in Bus, NEW e,
         obj[b].currentJob = e, e # NULL, obj'[b].currentJob = NULL,
         \A c \in Bus \ {b} : obj'[c] = obj[c],
         pool' = FreeElementLock(pool, b, e)
  PROVE  /\ Len(AllLists[RunPlace(b)]) = 1 /\ e = AllLists[RunPlace(b)][1]
         /\ AllLists' = Moved(AllLists, RunPlace(b), FreePlace)
         /\ Arranged(pool', AllLists')
         /\ \A c \in Bus : pool'.queue[c].numReserved = pool.queue[c].numReserved
<1> DEFINE q == AllLists
           n == FreeElementLock(pool, b, e)
           r == Moved(q, RunPlace(b), FreePlace)
<1>1. /\ RunsAre(q, Current)
      /\ \A c \in Bus : q[RunPlace(c)] =
           IF Current[c] = NULL THEN <<>> ELSE <<Current[c]>>
  BY RunningLists DEF AllLists
<1>2. q[RunPlace(b)] = <<e>> /\ Len(q[RunPlace(b)]) = 1 /\ q[RunPlace(b)][1] = e
  <2>1. Current[b] = e
    BY DEF Current
  <2>2. q[RunPlace(b)] = <<e>>
    BY <1>1, <2>1, Zenon
  <2>3. Len(<<e>>) = 1 /\ <<e>>[1] = e
    OBVIOUS
  <2> QED
    BY <2>2, <2>3, Zenon
<1>3. /\ Arranged(n, r)
      /\ \A c \in Bus : n.queue[c].numReserved = pool.queue[c].numReserved
  <2>1. LET k == FreeElementLock(pool, b, q[RunPlace(b)][1]) IN
        /\ Arranged(k, r)
        /\ \A c \in Bus : k.queue[c].numReserved = pool.queue[c].numReserved
    <3>1. Len(q[RunPlace(b)]) = 1
      BY <1>2
    <3> QED
      BY <3>1, FreeMoves
  <2>2. q[RunPlace(b)][1] = e
    BY <1>2
  <2> HIDE DEF q, r
  <2> QED
    BY <2>1, <2>2
<1>4. /\ Current'[b] = NULL /\ \A c \in Bus \ {b} : Current'[c] = Current[c]
  BY DEF Current
<1>5. RunsAre(r, Current')
  <2>1. q \in Lists
    BY DEF Arranged
  <2>2. r[RunPlace(b)] = <<>>
    <3>1. r[RunPlace(b)] = Tail(q[RunPlace(b)])
      BY <2>1, BusPlaces DEF Moved, Lists
    <3> QED
      BY <1>2, <3>1
  <2>3. \A c \in Bus \ {b} : RunPlace(c) \in Place \ {FreePlace, RunPlace(b)}
    BY BusPlaces
  <2>4. \A z \in Place \ {FreePlace, RunPlace(b)} : r[z] = q[z]
    BY <1>2, <2>1, BusPlaces, MovedPositions
  <2> HIDE DEF r, q
  <2> QED
    BY <1>1, <1>4, <2>2, <2>3, <2>4 DEF RunsAre
<1>6. AllLists' = r
  <2>1. ListsOf(n, Current') = r
    <3> HIDE DEF n, r
    <3> QED
      BY <1>3, <1>5, ListsAre
  <2> HIDE DEF n, r
  <2> QED
    BY <2>1, Zenon DEF AllLists, n
<1> HIDE DEF r
<1> QED
  BY <1>2, <1>3, <1>6 DEF r, q
-----------------------------------------------------------------------------
\* The jobs clients offer.
LEMMA JobsOfferedAre ==
  ASSUME NEW j \in JobsOffered
  PROVE  /\ j \in Job
         /\ j.dataLeftToTx + j.dummyLeftToTx = j.dataLeftToRx + j.dummyLeftToRx
<1> USE DriverAssumption
<1>1. ASSUME NEW n \in Nat, j = ReadJob(n) \/ j = WriteJob(n)
      PROVE  /\ j \in Job
             /\ j.dataLeftToTx + j.dummyLeftToTx = j.dataLeftToRx + j.dummyLeftToRx
  <2>1. \/ j = [dataLeftToTx |-> 0, dummyLeftToTx |-> n,
                dataLeftToRx |-> n, dummyLeftToRx |-> 0]
        \/ j = [dataLeftToTx |-> n, dummyLeftToTx |-> 0,
                dataLeftToRx |-> 0, dummyLeftToRx |-> n]
    BY <1>1 DEF ReadJob, WriteJob, NoJob
  <2> QED
    BY <2>1 DEF Job
<1>2. ASSUME NEW n \in Nat, NEW k \in Nat, j = WriteReadJob(n, k)
      PROVE  /\ j \in Job
             /\ j.dataLeftToTx + j.dummyLeftToTx = j.dataLeftToRx + j.dummyLeftToRx
  BY <1>2 DEF WriteReadJob, Job
<1> QED
  BY <1>1, <1>2 DEF JobsOffered

\* What a send and a receive move: no more than there is, in the FIFO and in
\* the job.
LEMMA UnitsAre ==
  ASSUME NEW data \in Nat, NEW dummy \in Nat, NEW room \in Nat
  PROVE  LET dataUnits == leastOf(data, room)
             dummyUnits == leastOf(dummy, room - dataUnits) IN
         /\ dataUnits \in Nat /\ dummyUnits \in Nat
         /\ dataUnits <= data /\ dummyUnits <= dummy
         /\ dataUnits + dummyUnits <= room
         /\ data - dataUnits \in Nat /\ dummy - dummyUnits \in Nat
         /\ room - (dataUnits + dummyUnits) \in Nat
BY DEF leastOf

\* A count of eight bits.
LEMMA Bytes == \A k \in Int : k % 256 \in 0..255
OBVIOUS

\* An instance's object with some of its fields set.
LEMMA ObjectSet ==
  ASSUME NEW o \in Object, NEW c \in Pointer, NEW n \in 0..255,
         NEW s \in BOOLEAN, NEW f \in BOOLEAN, NEW g \in BOOLEAN
  PROVE  /\ [o EXCEPT !.currentJob = c, !.sel = s] \in Object
         /\ [o EXCEPT !.currentJob = c, !.symbolsInProgress = n, !.sel = s] \in Object
         /\ [o EXCEPT !.operationStarting = f, !.operationEnded = g] \in Object
BY DEF Object

\* A bus's FIFOs with some of their fields set.
LEMMA HardwareSet ==
  ASSUME NEW h \in Hardware, NEW x \in 0..FifoSize, NEW y \in 0..FifoSize,
         NEW v \in BOOLEAN
  PROVE  /\ [h EXCEPT !.tx = x] \in Hardware
         /\ [h EXCEPT !.rx = y, !.rov = v] \in Hardware
BY DEF Hardware

\* The objects after the steps that change more than a count of theirs.
LEMMA ObjectSteps ==
  ASSUME obj \in [Bus -> Object], NEW b \in Bus
  PROVE  /\ ClientConfigure(b) => \E f, g \in BOOLEAN :
              obj' = [obj EXCEPT ![b] = [obj[b] EXCEPT !.operationStarting = f,
                                                  !.operationEnded = g]]
         /\ Take(b) =>
              LET e == pool.queue[b].pHead
                  s == obj[b].sel \/ obj[b].operationStarting
              IN obj' = [obj EXCEPT
                   ![b] = [obj[b] EXCEPT !.currentJob = e,
                                    !.symbolsInProgress = 0, !.sel = s]]
         /\ Drop(b) \/ Finish(b) =>
              LET s == obj[b].sel /\ ~obj[b].operationEnded IN
              obj' = [obj EXCEPT ![b] = [obj[b] EXCEPT !.currentJob = NULL, !.sel = s]]
<1>1. ASSUME ClientConfigure(b)
      PROVE  \E f, g \in BOOLEAN :
             obj' = [obj EXCEPT ![b] = [obj[b] EXCEPT !.operationStarting = f,
                                                      !.operationEnded = g]]
  <2>1. PICK f \in {FALSE, (b \in ConfiguredBus)},
             g \in {FALSE, (b \in ConfiguredBus)} :
          obj' = [obj EXCEPT ![b].operationStarting = f, ![b].operationEnded = g]
    BY <1>1 DEF ClientConfigure
  <2>2. f \in BOOLEAN /\ g \in BOOLEAN
    <3>1. FALSE \in BOOLEAN /\ (b \in ConfiguredBus) \in BOOLEAN
      OBVIOUS
    <3> QED
      BY <3>1, Zenon
  <2> QED
    BY <2>1, <2>2
<1>2. ASSUME Take(b)
      PROVE  LET e == pool.queue[b].pHead
                 s == obj[b].sel \/ obj[b].operationStarting
             IN obj' = [obj EXCEPT
                  ![b] = [obj[b] EXCEPT !.currentJob = e,
                                        !.symbolsInProgress = 0, !.sel = s]]
  BY <1>2 DEF Take
<1>3. ASSUME Drop(b) \/ Finish(b)
      PROVE  LET s == obj[b].sel /\ ~obj[b].operationEnded IN
             obj' = [obj EXCEPT
               ![b] = [obj[b] EXCEPT !.currentJob = NULL, !.sel = s]]
  BY <1>3 DEF Drop, Finish
<1> QED
  BY <1>1, <1>2, <1>3

\* No step takes the jobs, the objects or the FIFOs out of their types.
LEMMA DataStep ==
  ASSUME PoolInv, NEW b \in Bus, StepOf(b)
  PROVE  DataType'
<1> USE DriverAssumption
<1>0. DataType /\ LoopType /\ LoopHolds /\ Arranged(pool, AllLists)
  BY DEF PoolInv
<1>1. /\ job \in [Element -> Job] /\ obj \in [Bus -> Object]
      /\ hw \in [Bus -> Hardware]
  BY <1>0 DEF DataType
<1>2. ASSUME NEW c \in Bus, NEW j \in JobsOffered, BufferAdd(c, j)
      PROVE  job' \in [Element -> Job]
  BY <1>1, <1>2, JobsOfferedAre DEF BufferAdd
<1>3. CASE AddStep(b)
  <2>1. job' \in [Element -> Job]
    BY <1>2, <1>3 DEF AddStep, Call, Callback
  <2> QED
    BY <1>1, <1>3, <2>1 DEF AddStep, Call, Callback, DataType
<1>4. CASE InitializeInstance(b)
  BY <1>1, <1>4 DEF InitializeInstance, DataType
<1>5. CASE Take(b)
  <2>1. pool.queue[b].pHead \in Pointer
    BY <1>0, <1>1, <1>5, ListsTaken DEF Pointer
  <2> DEFINE s == obj[b].sel \/ obj[b].operationStarting
             o == [obj[b] EXCEPT !.currentJob = pool.queue[b].pHead,
                                 !.symbolsInProgress = 0, !.sel = s]
  <2>2. o \in Object
    <3>1. obj[b] \in Object /\ s \in BOOLEAN /\ 0 \in 0..255
      BY <1>1
    <3> HIDE DEF s
    <3> QED
      BY <2>1, <3>1, ObjectSet
  <2>3. obj' = [obj EXCEPT ![b] = o]
    BY <1>1, <1>5, ObjectSteps, Zenon
  <2> HIDE DEF o
  <2>4. obj' \in [Bus -> Object]
    BY <1>1, <2>2, <2>3
  <2> QED
    BY <1>1, <1>5, <2>4 DEF Take, DataType
<1>6. ASSUME Drop(b) \/ Finish(b)
      PROVE  obj' \in [Bus -> Object]
  <2> DEFINE s == obj[b].sel /\ ~obj[b].operationEnded
             o == [obj[b] EXCEPT !.currentJob = NULL, !.sel = s]
  <2>1. o \in Object
    <3>1. /\ obj[b] \in Object /\ s \in BOOLEAN /\ NULL \in Pointer
          /\ 0 \in 0..255
      BY <1>1 DEF Pointer
    <3> HIDE DEF s
    <3> QED
      BY <3>1, ObjectSet
  <2>2. obj' = [obj EXCEPT ![b] = o]
    BY <1>1, <1>6, ObjectSteps, Zenon
  <2> HIDE DEF o
  <2> QED
    BY <1>1, <2>1, <2>2
<1>7. CASE Drop(b)
  <2>1. hw' = [hw EXCEPT ![b] = [hw[b] EXCEPT !.rx = 0, !.rov = FALSE]]
    BY <1>7 DEF Drop
  <2>2. [hw[b] EXCEPT !.rx = 0, !.rov = FALSE] \in Hardware
    <3>1. hw[b] \in Hardware /\ 0 \in 0..FifoSize /\ FALSE \in BOOLEAN
      BY <1>1
    <3> QED
      BY <3>1, HardwareSet, Zenon
  <2>3. hw' \in [Bus -> Hardware]
    BY <1>1, <2>1, <2>2
  <2> QED
    BY <1>1, <1>6, <1>7, <2>3 DEF Drop, DataType
<1>8. CASE Finish(b)
  BY <1>1, <1>6, <1>8 DEF Finish, DataType
<1>a. CASE ClientConfigure(b)
  <2>0. PICK f \in BOOLEAN, g \in BOOLEAN :
          obj' = [obj EXCEPT ![b] = [obj[b] EXCEPT !.operationStarting = f,
                                                   !.operationEnded = g]]
    BY <1>1, <1>a, ObjectSteps, Zenon
  <2> DEFINE o == [obj[b] EXCEPT !.operationStarting = f, !.operationEnded = g]
  <2>1. o \in Object
    <3>1. obj[b] \in Object /\ NULL \in Pointer /\ 0 \in 0..255
      BY <1>1 DEF Pointer
    <3> QED
      BY <3>1, ObjectSet
  <2>2. obj' = [obj EXCEPT ![b] = o]
    BY <2>0
  <2> HIDE DEF o
  <2>3. obj' \in [Bus -> Object]
    BY <1>1, <2>1, <2>2
  <2> QED
    BY <1>1, <1>a, <2>3 DEF ClientConfigure, DataType
<1>9. CASE Start(b)
  BY <1>1, <1>9 DEF Start, DataType, Hardware
<1>10. CASE MasterEBMSend8BitPolled(b)
  <2>1. loop.job \in Element
    BY <1>0, <1>10
    DEF MasterEBMSend8BitPolled, AtStep, LoopHolds, LoopType, Pointer
  <2>2. RoomToSend(b) \in Nat
    <3>1. obj[b].symbolsInProgress \in Int /\ hw[b].tx \in Int
      BY <1>1 DEF Object, Hardware
    <3>2. FifoSize - mostOf(obj[b].symbolsInProgress, hw[b].tx) \in Int
      BY <3>1 DEF mostOf
    <3>3. RoomToSend(b) \in 0..255
      BY <3>2, Bytes DEF RoomToSend
    <3> QED
      BY <3>3
  <2>3. /\ job[loop.job].dataLeftToTx \in Nat
        /\ job[loop.job].dummyLeftToTx \in Nat
    BY <1>1, <2>1 DEF Job
  <2> DEFINE dataUnits == leastOf(job[loop.job].dataLeftToTx, RoomToSend(b))
             dummyUnits ==
               leastOf(job[loop.job].dummyLeftToTx, RoomToSend(b) - dataUnits)
  <2>4. /\ dataUnits \in Nat /\ dummyUnits \in Nat
        /\ job[loop.job].dataLeftToTx - dataUnits \in Nat
        /\ job[loop.job].dummyLeftToTx - dummyUnits \in Nat
    BY <2>2, <2>3, UnitsAre
  <2>5. /\ job' = [job EXCEPT ![loop.job].dataLeftToTx = @ - dataUnits,
                              ![loop.job].dummyLeftToTx = @ - dummyUnits]
        /\ obj' = [obj EXCEPT ![b].symbolsInProgress =
                     (@ + (dataUnits + dummyUnits)) % 256]
        /\ hw' = [hw EXCEPT ![b].tx = leastOf(FifoSize, @ + (dataUnits + dummyUnits))]
    BY <1>10 DEF MasterEBMSend8BitPolled
  <2> HIDE DEF dataUnits, dummyUnits
  <2>6. job' \in [Element -> Job]
    BY <1>1, <2>1, <2>4, <2>5 DEF Job
  <2>7. obj' \in [Bus -> Object]
    <3>1. (obj[b].symbolsInProgress + (dataUnits + dummyUnits)) % 256 \in 0..255
      <4>1. obj[b].symbolsInProgress + (dataUnits + dummyUnits) \in Int
        BY <1>1, <2>4 DEF Object
      <4> QED
        BY <4>1, Bytes
    <3> QED
      BY <1>1, <2>5, <3>1 DEF Object
  <2>8. hw' \in [Bus -> Hardware]
    <3>1. leastOf(FifoSize, hw[b].tx + (dataUnits + dummyUnits)) \in 0..FifoSize
      BY <1>1, <2>4 DEF Hardware, leastOf
    <3> QED
      BY <1>1, <2>5, <3>1 DEF Hardware
  <2> QED
    BY <2>6, <2>7, <2>8 DEF DataType
<1>11. CASE MasterEBMReceive8BitPolled(b)
  <2>1. loop.job \in Element
    BY <1>0, <1>11
    DEF MasterEBMReceive8BitPolled, AtStep, LoopHolds, LoopType, Pointer
  <2>2. hw[b].rx \in Nat
    BY <1>1 DEF Hardware
  <2>3. /\ job[loop.job].dataLeftToRx \in Nat
        /\ job[loop.job].dummyLeftToRx \in Nat
    BY <1>1, <2>1 DEF Job
  <2> DEFINE dataUnits == leastOf(job[loop.job].dataLeftToRx, hw[b].rx)
             dummyUnits ==
               leastOf(job[loop.job].dummyLeftToRx, hw[b].rx - dataUnits)
  <2>4. /\ dataUnits \in Nat /\ dummyUnits \in Nat
        /\ job[loop.job].dataLeftToRx - dataUnits \in Nat
        /\ job[loop.job].dummyLeftToRx - dummyUnits \in Nat
        /\ hw[b].rx - (dataUnits + dummyUnits) \in Nat
    BY <2>2, <2>3, UnitsAre
  <2>5. /\ job' = [job EXCEPT ![loop.job].dataLeftToRx = @ - dataUnits,
                              ![loop.job].dummyLeftToRx = @ - dummyUnits]
        /\ obj' = [obj EXCEPT ![b].symbolsInProgress =
                     (@ - (dataUnits + dummyUnits)) % 256]
        /\ hw' = [hw EXCEPT ![b].rx = @ - (dataUnits + dummyUnits)]
    BY <1>11 DEF MasterEBMReceive8BitPolled
  <2> HIDE DEF dataUnits, dummyUnits
  <2>6. job' \in [Element -> Job]
    BY <1>1, <2>1, <2>4, <2>5 DEF Job
  <2>7. obj' \in [Bus -> Object]
    <3>1. (obj[b].symbolsInProgress - (dataUnits + dummyUnits)) % 256 \in 0..255
      <4>1. obj[b].symbolsInProgress - (dataUnits + dummyUnits) \in Int
        BY <1>1, <2>4 DEF Object
      <4> QED
        BY <4>1, Bytes
    <3> QED
      BY <1>1, <2>5, <3>1 DEF Object
  <2>8. hw' \in [Bus -> Hardware]
    <3>1. hw[b].rx - (dataUnits + dummyUnits) \in 0..FifoSize
      BY <1>1, <2>4 DEF Hardware
    <3> QED
      BY <1>1, <2>5, <3>1 DEF Hardware
  <2> QED
    BY <2>6, <2>7, <2>8 DEF DataType
<1>12. CASE ExchangeFill(b)
  <2>1. loop.size \in Nat /\ loop.txcounter \in Nat
    BY <1>0, <1>12 DEF ExchangeFill, AtStep, LoopType, PassStep
  <2>2. leastOf(FifoSize, loop.size - loop.txcounter) \in 0..FifoSize
    BY <1>12, <2>1 DEF ExchangeFill, leastOf
  <2> QED
    BY <1>1, <1>12, <2>2 DEF ExchangeFill, DataType, Hardware
<1>13. CASE ExchangeRead(b)
  BY <1>1, <1>13 DEF ExchangeRead, DataType, Hardware
<1>14. CASE Shift(b)
  <2>1. ASSUME NEW h \in Hardware, NEW n \in Nat
        PROVE  Received(h, n) \in Hardware
    <3>1. leastOf(FifoSize, h.rx + n) \in 0..FifoSize
      BY DEF leastOf, Hardware
    <3>2. (h.rov \/ h.rx + n > FifoSize) \in BOOLEAN
      OBVIOUS
    <3> QED
      BY <3>1, <3>2 DEF Received, Hardware
  <2>2. [hw[b] EXCEPT !.tx = hw[b].tx - 1] \in Hardware
    BY <1>1, <1>14 DEF Shift, Hardware
  <2>3. Received([hw[b] EXCEPT !.tx = hw[b].tx - 1], 1) \in Hardware
    BY <2>1, <2>2
  <2> QED
    BY <1>1, <1>14, <2>3 DEF Shift, DataType
<1>c. CASE WriterStep(b)
  <2>1. UNCHANGED <<job, obj>> /\ hw' \in [Bus -> Hardware]
    BY <1>1, <1>c, WriterDoes
  <2> QED
    BY <1>1, <2>1 DEF DataType
<1>15. CASE \/ NothingToDo(b) \/ Resume(b) \/ NoError(b) \/ AnswerLost(b)
            \/ ReceiveForNoJob(b) \/ EndOfTurn \/ ExchangeEnds(b)
            \/ (\E n \in ExchangeSizes : Exchange(b, n))
  <2>1. UNCHANGED <<job, obj, hw>>
    BY <1>15 DEF NothingToDo, Resume, NoError, AnswerLost, ReceiveForNoJob,
      EndOfTurn, Exchange, ExchangeEnds
  <2> QED
    BY <1>1, <2>1 DEF DataType
<1> QED
  BY <1>3, <1>4, <1>5, <1>7, <1>8, <1>a, <1>9, <1>10, <1>11, <1>12, <1>13, <1>14,
     <1>c, <1>15, Zenon
  DEF StepOf, QuietStep
-----------------------------------------------------------------------------
\* Where the main loop goes from a step of a pass.
LEMMA LoopAt ==
  ASSUME LoopType, NEW b \in Bus, NEW s \in PassStep, AtStep(b, s)
  PROVE  /\ loop \in [bus : Bus, step : PassStep, job : Pointer]
         /\ loop.bus = b /\ loop.step = s
BY DEF LoopType, AtStep, PassStep

\* Where GoTo leads, with the job in hand.
LEMMA LoopTo ==
  ASSUME loop \in [bus : Bus, step : PassStep, job : Pointer],
         NEW b \in Bus, NEW s \in PassStep, GoTo(b, s)
  PROVE  /\ loop' \in [bus : Bus, step : PassStep, job : Pointer]
         /\ loop'.bus = b /\ loop'.step = s /\ loop'.job = loop.job
BY DEF GoTo

\* The pass of a bus ends at the other's tasks or in the application.
LEMMA LoopNext ==
  ASSUME NEW b \in Bus, NextBus(b)
  PROVE  /\ loop' \in [bus : Bus, step : PassStep, job : Pointer]
         /\ loop'.step \in {"tasks", "app"}
<1>1. CASE b = 0
  BY <1>1 DEF NextBus, PassStep, Pointer, Bus
<1>2. CASE b # 0
  BY <1>2 DEF NextBus, App, PassStep, Pointer, Bus
<1> QED
  BY <1>1, <1>2

\* The main loop stays where it can be, with the right job in hand.
LEMMA LoopStep ==
  ASSUME PoolInv, NEW b \in Bus, StepOf(b)
  PROVE  LoopType' /\ LoopHolds'
<1>0. DataType /\ LoopType /\ LoopHolds /\ Arranged(pool, AllLists) /\ JobsLeft
  BY DEF PoolInv
<1>1. obj \in [Bus -> Object]
  BY <1>0 DEF DataType
<1> DEFINE L == [bus : Bus, step : PassStep, job : Pointer]
<1>a. \A s \in {"boot", "open", "app", "tasks", "starting", "send", "errors",
                "dropping", "receive", "ending"} : s \in PassStep
  BY DEF PassStep
\* Steps to where no job is in hand.
<1>2. ASSUME loop' \in L, loop'.step \in {"boot", "open", "app", "tasks"}
      PROVE  LoopType' /\ LoopHolds'
  BY <1>2 DEF LoopType, LoopHolds
<1>3. CASE InitializeInstance(b)
  <2>1. loop \in L
    BY <1>0, <1>3, <1>a, LoopAt DEF InitializeInstance
  <2>2. loop' \in L /\ loop'.step \in {"boot", "open"}
    BY <1>3, <1>a, <2>1, LoopTo DEF InitializeInstance, Bus
  <2> QED
    BY <1>2, <2>2
<1>4. CASE ClientConfigure(b)
  <2>1. loop \in L
    BY <1>0, <1>4, <1>a, LoopAt DEF ClientConfigure
  <2>2. CASE b = 0
    BY <1>2, <1>4, <1>a, <2>1, <2>2, LoopTo DEF ClientConfigure, Bus
  <2>3. CASE b # 0
    <3>1. loop' \in L /\ loop'.step = "app"
      BY <1>4, <2>3 DEF ClientConfigure, App, PassStep, Bus, Pointer
    <3> QED
      BY <1>2, <3>1
  <2> QED
    BY <2>2, <2>3
<1>5. CASE NothingToDo(b)
  BY <1>2, <1>5, LoopNext DEF NothingToDo
<1>6. CASE EndOfTurn
  <2>1. loop \in L
    BY <1>6 DEF EndOfTurn, App, PassStep, Bus, Pointer
  <2>2. loop' \in L /\ loop'.step = "tasks"
    BY <1>6, <1>a, <2>1, LoopTo DEF EndOfTurn, Bus
  <2> QED
    BY <1>2, <2>2
<1>7. CASE ExchangeEnds(b)
  <2>1. loop' \in L /\ loop'.step = "tasks"
    BY <1>7 DEF ExchangeEnds, PassStep, Bus, Pointer
  <2> QED
    BY <1>2, <2>1
<1>8. CASE Finish(b)
  BY <1>2, <1>8, LoopNext DEF Finish
\* Steps of a pass with its job.
<1>9. CASE Take(b)
  <2>1. pool.queue[b].pHead \in Element
    BY <1>0, <1>1, <1>9, ListsTaken
  <2>2. /\ loop' \in L /\ loop'.bus = b /\ loop'.step = "starting"
        /\ loop'.job = pool.queue[b].pHead
    BY <1>9, <2>1 DEF Take, PassStep, Pointer
  <2>3. obj'[b].currentJob = pool.queue[b].pHead
    BY <1>1, <1>9 DEF Take, Object
  <2>4. loop'.job # NULL
    BY <2>1, <2>2 DEF Element, NULL
  <2> QED
    BY <2>2, <2>3, <2>4 DEF LoopType, LoopHolds
<1>10. CASE Resume(b)
  <2>1. obj[b].currentJob \in Pointer /\ obj[b].currentJob # NULL
    BY <1>1, <1>10 DEF Resume, Object
  <2>2. /\ loop' \in L /\ loop'.bus = b /\ loop'.step = "send"
        /\ loop'.job = obj[b].currentJob /\ obj' = obj
    BY <1>10, <2>1 DEF Resume, PassStep
  <2> QED
    BY <2>1, <2>2 DEF LoopType, LoopHolds
<1>11. ASSUME loop \in L, loop.bus = b,
              loop.step \in {"starting", "send", "errors", "dropping"},
              loop' \in L, loop'.bus = b, loop'.job = loop.job,
              loop'.step \in {"send", "errors", "dropping", "receive"},
              obj'[b].currentJob = obj[b].currentJob
       PROVE  LoopType' /\ LoopHolds'
  <2>1. loop.job # NULL /\ obj[b].currentJob = loop.job
    BY <1>0, <1>11 DEF LoopHolds
  <2> QED
    BY <1>11, <2>1 DEF LoopType, LoopHolds
<1>12. CASE Start(b)
  BY <1>0, <1>11, <1>12, <1>a, LoopAt, LoopTo DEF Start
<1>13. CASE MasterEBMSend8BitPolled(b)
  <2>1. obj'[b].currentJob = obj[b].currentJob
    BY <1>0, <1>13, QuietKeeps DEF QuietStep
  <2> QED
    BY <1>0, <1>11, <1>13, <1>a, <2>1, LoopAt, LoopTo DEF MasterEBMSend8BitPolled
<1>14. CASE NoError(b)
  BY <1>0, <1>11, <1>14, <1>a, LoopAt, LoopTo DEF NoError
<1>15. CASE AnswerLost(b)
  BY <1>0, <1>11, <1>15, <1>a, LoopAt, LoopTo DEF AnswerLost
<1>16. CASE Drop(b)
  <2>1. loop \in L /\ loop.bus = b /\ loop.step = "dropping"
    BY <1>0, <1>16, <1>a, LoopAt DEF Drop
  <2>2. loop' \in L /\ loop'.bus = b /\ loop'.step = "receive" /\ loop'.job = loop.job
    BY <1>16, <1>a, <2>1, LoopTo DEF Drop
  <2>3. loop.job # NULL
    BY <1>0, <2>1 DEF LoopHolds
  <2>4. obj'[b].currentJob = NULL
    BY <1>1, <1>16 DEF Drop, Object
  <2> QED
    BY <2>2, <2>3, <2>4 DEF LoopType, LoopHolds
<1>17. ASSUME loop \in L, loop.bus = b, loop.step = "receive",
              obj[b].currentJob # NULL,
              loop' \in L, loop'.bus = b, loop'.job = loop.job,
              loop'.step = "ending", obj'[b].currentJob = obj[b].currentJob
       PROVE  LoopType' /\ LoopHolds'
  <2>1. loop.job # NULL /\ obj[b].currentJob = loop.job
    BY <1>0, <1>17 DEF LoopHolds
  <2> QED
    BY <1>17, <2>1 DEF LoopType, LoopHolds
<1>18. CASE MasterEBMReceive8BitPolled(b)
  <2>1. obj'[b].currentJob = obj[b].currentJob
    BY <1>0, <1>18, QuietKeeps DEF QuietStep
  <2>2. CASE NextBus(b)
    BY <1>2, <2>2, LoopNext
  <2>3. CASE GoTo(b, "ending")
    <3>1. loop \in L /\ loop.bus = b /\ loop.step = "receive"
      BY <1>0, <1>18, <1>a, LoopAt DEF MasterEBMReceive8BitPolled
    <3>2. loop' \in L /\ loop'.bus = b /\ loop'.step = "ending" /\ loop'.job = loop.job
      BY <1>a, <2>3, <3>1, LoopTo
    <3>3. obj[b].currentJob # NULL
      BY <1>0, <1>18, <3>1 DEF MasterEBMReceive8BitPolled, JobsLeft, ToGet, LeftToRx
    <3> QED
      BY <1>17, <2>1, <3>1, <3>2, <3>3
  <2> QED
    BY <1>18, <2>2, <2>3 DEF MasterEBMReceive8BitPolled
\* The blocking exchange.
<1>20. CASE \E n \in ExchangeSizes : Exchange(b, n)
  <2>1. PICK n \in Nat : Exchange(b, n)
    BY <1>20, DriverAssumption
  <2> QED
    BY <2>1 DEF Exchange, LoopType, LoopHolds
<1>21. CASE ExchangeFill(b)
  <2>1. /\ loop \in [bus : Bus, step : {"exchange"}, job : {NULL}, size : Nat,
                     txcounter : Nat, rxcounter : Nat]
        /\ obj' = obj
    BY <1>0, <1>21 DEF ExchangeFill, AtStep, LoopType, PassStep
  <2>2. leastOf(FifoSize, loop.size - loop.txcounter) \in Nat
    BY <1>21, <2>1, DriverAssumption DEF ExchangeFill, leastOf
  <2> QED
    BY <1>0, <1>21, <2>1, <2>2 DEF ExchangeFill, LoopType, LoopHolds
<1>22. CASE ExchangeRead(b)
  <2>1. /\ loop \in [bus : Bus, step : {"exchange"}, job : {NULL}, size : Nat,
                     txcounter : Nat, rxcounter : Nat]
        /\ obj' = obj
    BY <1>0, <1>22 DEF ExchangeRead, AtStep, LoopType, PassStep
  <2> QED
    BY <1>0, <1>22, <2>1 DEF ExchangeRead, LoopType, LoopHolds
<1>23. CASE UNCHANGED <<loop, obj>>
  BY <1>0, <1>23 DEF LoopType, LoopHolds
<1>24. CASE WriterStep(b)
  <2>1. UNCHANGED <<loop, obj>>
    BY <1>0, <1>24, WriterDoes DEF DataType
  <2> QED
    BY <1>23, <2>1
<1>25. CASE AddStep(b) \/ ReceiveForNoJob(b) \/ Shift(b)
  <2>1. UNCHANGED <<loop, obj>>
    BY <1>25 DEF AddStep, Call, Callback, ReceiveForNoJob, Shift
  <2> QED
    BY <1>23, <2>1
<1> QED
  BY <1>3, <1>4, <1>5, <1>6, <1>7, <1>8, <1>9, <1>10, <1>12, <1>13, <1>14, <1>15,
     <1>16, <1>18, <1>20, <1>21, <1>22, <1>24, <1>25, Zenon
  DEF StepOf, QuietStep

\* The queue created by an instance that is initialised.
LEMMA InstanceCreated ==
  ASSUME PoolInv, NEW b \in Bus, InitializeInstance(b)
  PROVE  Created' /\ AllLists' = AllLists /\ Arranged(pool', AllLists')
<1> DEFINE q == AllLists
           n == CreateQueue(pool, b)
<1>1. /\ DataType /\ LoopType /\ LoopHolds /\ Created /\ Arranged(pool, q)
  BY DEF PoolInv
<1>2. /\ loop.step = "boot" /\ loop.bus = b /\ ~CreateQueueRefused(pool)
      /\ pool' = n /\ obj' = obj
  BY DEF InitializeInstance, AtStep
<1>3. \A c \in Bus : obj[c].currentJob = NULL /\ ~obj[c].sel /\ IsEmpty(pool, c)
  BY <1>1, <1>2 DEF Created
<1>4. \A c \in Bus : pool.queue[c].numReserved =
                       IF c >= b THEN 0 ELSE reserveElements
  BY <1>1, <1>2 DEF Created
<1>5. pool.queue[b].numReserved = 0
  BY <1>4 DEF Bus
<1>6. Len(q[WaitPlace(b)]) = 0
  <2>1. q \in Lists /\ Tells(pool, q)
    BY <1>1 DEF Arranged
  <2> HIDE DEF q
  <2> QED
    BY <1>3, <2>1, BusPlaces, Ends DEF Tells, IsEmpty
<1>7. Len(q[RunPlace(b)]) = 0
  <2>1. Current[b] = NULL
    BY <1>3 DEF Current
  <2>2. q[RunPlace(b)] = <<>>
    BY <2>1, RunningLists DEF AllLists
  <2> QED
    BY <2>2, EmptySeq, Zenon
<1> HIDE DEF q
<1>8. /\ Arranged(n, q)
      /\ n.queue[b].numReserved = reserveElements
      /\ n.queue[b].pHead = pool.queue[b].pHead
      /\ \A c \in Bus \ {b} : n.queue[c] = pool.queue[c]
  BY <1>1, <1>2, <1>5, <1>6, <1>7, CreateKeeps
<1> HIDE DEF n
<1>9. AllLists' = q
  <2>1. RunsAre(q, Current)
    BY RunningLists DEF q, AllLists
  <2>2. ListsOf(n, Current) = q
    BY <1>8, <2>1, ListsAre
  <2>3. Current' = Current
    BY <1>2 DEF Current
  <2> QED
    BY <1>2, <2>2, <2>3, Zenon DEF AllLists
<1>10. Created'
  <2>1. \A c \in Bus :
          obj'[c].currentJob = NULL /\ ~obj'[c].sel /\ IsEmpty(pool', c)
    BY <1>2, <1>3, <1>8 DEF IsEmpty
  <2>2. loop \in [bus : Bus, step : PassStep, job : Pointer]
    BY <1>1, LoopAt DEF InitializeInstance, PassStep
  <2>3. CASE b = 0
    <3>1. loop'.bus = 1 /\ loop'.step = "boot"
      BY <2>2, <2>3 DEF InitializeInstance, GoTo
    <3>2. \A c \in Bus : pool'.queue[c].numReserved =
                           IF c >= 1 THEN 0 ELSE reserveElements
      BY <1>2, <1>4, <1>8, <2>3 DEF Bus
    <3> QED
      BY <2>1, <3>1, <3>2 DEF Created
  <2>4. CASE b # 0
    <3>1. loop'.step = "open"
      BY <2>2, <2>4 DEF InitializeInstance, GoTo
    <3>2. \A c \in Bus : pool'.queue[c].numReserved = reserveElements
      BY <1>2, <1>4, <1>8, <2>4 DEF Bus
    <3> QED
      BY <2>1, <3>1, <3>2 DEF Created
  <2> QED
    BY <2>3, <2>4
<1> QED
  BY <1>2, <1>8, <1>9, <1>10 DEF q

\* After the start the reserves stay.
LEMMA ReservesStay ==
  ASSUME Created, loop.step \notin {"boot", "open"},
         loop'.step \notin {"boot", "open"},
         \A c \in Bus : pool'.queue[c].numReserved = pool.queue[c].numReserved
  PROVE  Created'
BY DEF Created

\* Every step of the driver keeps the pool sound.
LEMMA PoolStep ==
  ASSUME PoolInv, NEW b \in Bus, StepOf(b)
  PROVE  /\ DataType' /\ LoopType' /\ LoopHolds' /\ Created'
         /\ Arranged(pool', AllLists')
<1>0. DataType /\ LoopType /\ LoopHolds /\ Created /\ Arranged(pool, AllLists)
  BY DEF PoolInv
<1>1. obj \in [Bus -> Object]
  BY <1>0 DEF DataType
<1>2. DataType' /\ LoopType' /\ LoopHolds'
  BY DataStep, LoopStep
<1>3. SUFFICES Created' /\ Arranged(pool', AllLists')
  BY <1>2
<1>4. CASE InitializeInstance(b)
  BY <1>4, InstanceCreated
<1>5. ASSUME NEW c \in Bus, NEW j, BufferAdd(c, j), UNCHANGED <<obj, loop>>,
             loop.step \notin {"boot", "open"}
      PROVE  Created' /\ Arranged(pool', AllLists')
  BY <1>0, <1>5, ListsAdded, ReservesStay
<1>6. CASE AddStep(b)
  <2>1. PICK c \in Bus : \E j : BufferAdd(c, j)
    BY <1>6 DEF AddStep, Call, Callback
  <2>2. PICK j : BufferAdd(c, j)
    BY <2>1
  <2>3. UNCHANGED <<obj, loop>> /\ loop.step \notin {"boot", "open"}
    BY <1>6 DEF AddStep, Call, Callback, App, AtStep
  <2> QED
    BY <1>5, <2>2, <2>3
<1>7. CASE Take(b)
  <2>1. loop.step = "tasks" /\ loop'.step = "starting"
    BY <1>7 DEF Take, AtStep
  <2> QED
    BY <1>0, <1>1, <1>7, <2>1, ListsTaken, ReservesStay
<1>8. ASSUME Drop(b) \/ Finish(b)
      PROVE  Created' /\ Arranged(pool', AllLists')
  <2>1. loop.job # NULL /\ obj[b].currentJob = loop.job
    BY <1>0, <1>8 DEF Drop, Finish, AtStep, LoopHolds
  <2>2. pool' = FreeElementLock(pool, b, loop.job)
    BY <1>8 DEF Drop, Finish
  <2>3. obj'[b].currentJob = NULL /\ \A c \in Bus \ {b} : obj'[c] = obj[c]
    <3>1. CASE Drop(b)
      BY <1>1, <3>1 DEF Drop, Object
    <3>2. CASE Finish(b)
      BY <1>1, <3>2 DEF Finish, Object
    <3> QED
      BY <1>8, <3>1, <3>2
  <2>4. loop.step \in {"dropping", "ending"}
    BY <1>8 DEF Drop, Finish, AtStep
  <2>5. loop'.step \in {"receive", "tasks", "app"}
    <3>1. CASE Drop(b)
      <4>1. loop \in [bus : Bus, step : PassStep, job : Pointer]
        BY <1>0, <3>1, LoopAt DEF Drop, PassStep
      <4> QED
        BY <3>1, <4>1 DEF Drop, GoTo
    <3>2. CASE Finish(b)
      BY <3>2, LoopNext DEF Finish
    <3> QED
      BY <1>8, <3>1, <3>2
  <2>6. /\ Arranged(pool', AllLists')
        /\ \A c \in Bus : pool'.queue[c].numReserved = pool.queue[c].numReserved
    BY <1>0, <1>1, <2>1, <2>2, <2>3, ListsFreed
  <2> QED
    BY <1>0, <2>4, <2>5, <2>6, ReservesStay
<1>9. CASE QuietStep(b)
  <2>1. /\ pool' = pool
        /\ \A c \in Bus : /\ obj'[c].currentJob = obj[c].currentJob
                          /\ obj'[c].sel = obj[c].sel
    BY <1>0, <1>9, QuietKeeps
  <2>2. AllLists' = AllLists
    BY <2>1, ListsKept
  <2>3. \/ loop' = loop
        \/ loop.step = "open"
        \/ loop.step \notin {"boot", "open"} /\ loop'.step \notin {"boot", "open"}
    <3>1. CASE ClientConfigure(b)
      BY <3>1 DEF ClientConfigure, AtStep
    <3>2. CASE NothingToDo(b)
      BY <3>2, LoopNext DEF NothingToDo, AtStep
    <3>3. CASE Resume(b) \/ ExchangeEnds(b)
      BY <3>3 DEF Resume, ExchangeEnds, AtStep
    <3>4. CASE MasterEBMReceive8BitPolled(b)
      <4>1. loop \in [bus : Bus, step : PassStep, job : Pointer]
        BY <1>0, <3>4, LoopAt DEF MasterEBMReceive8BitPolled, PassStep
      <4>2. CASE NextBus(b)
        BY <3>4, <4>2, LoopNext DEF MasterEBMReceive8BitPolled, AtStep
      <4>3. CASE GoTo(b, "ending")
        BY <3>4, <4>1, <4>3 DEF MasterEBMReceive8BitPolled, AtStep, GoTo
      <4> QED
        BY <3>4, <4>2, <4>3 DEF MasterEBMReceive8BitPolled
    <3>5. CASE Start(b) \/ NoError(b) \/ AnswerLost(b) \/ MasterEBMSend8BitPolled(b)
      <4>1. loop \in [bus : Bus, step : PassStep, job : Pointer]
        BY <1>0, <3>5, LoopAt DEF Start, NoError, AnswerLost, MasterEBMSend8BitPolled,
                                  PassStep
      <4> QED
        BY <3>5, <4>1 DEF Start, NoError, AnswerLost, MasterEBMSend8BitPolled,
                          AtStep, GoTo
    <3>6. CASE EndOfTurn
      BY <3>6 DEF EndOfTurn, App, GoTo
    <3>7. CASE \E n \in ExchangeSizes : Exchange(b, n)
      BY <3>7 DEF Exchange, App
    <3>8. CASE ExchangeFill(b) \/ ExchangeRead(b)
      <4>1. loop \in [bus : Bus, step : {"exchange"}, job : {NULL}, size : Nat,
                      txcounter : Nat, rxcounter : Nat]
        BY <1>0, <3>8 DEF ExchangeFill, ExchangeRead, AtStep, LoopType, PassStep
      <4> QED
        BY <3>8, <4>1 DEF ExchangeFill, ExchangeRead
    <3>9. CASE loop' = loop
      BY <3>9
    <3>10. CASE ReceiveForNoJob(b) \/ Shift(b)
      BY <3>9, <3>10 DEF ReceiveForNoJob, Shift
    <3>11. CASE WriterStep(b)
      BY <1>0, <3>9, <3>11, WriterDoes DEF DataType
    <3> QED
      BY <1>9, <3>1, <3>2, <3>3, <3>4, <3>5, <3>6, <3>7, <3>8, <3>10, <3>11, Zenon
      DEF QuietStep
  <2>4. CASE loop.step = "open"
    <3>1. ClientConfigure(b) \/ loop' = loop
      <4>1. CASE WriterStep(b)
        BY <1>0, <4>1, WriterDoes DEF DataType
      <4>2. CASE Shift(b)
        BY <4>2 DEF Shift
      <4>3. ~(\/ NothingToDo(b) \/ Resume(b) \/ Start(b)
              \/ MasterEBMSend8BitPolled(b) \/ NoError(b) \/ AnswerLost(b))
        BY <2>4 DEF NothingToDo, Resume, Start, MasterEBMSend8BitPolled, NoError,
          AnswerLost, AtStep
      <4>4. ~(\/ MasterEBMReceive8BitPolled(b) \/ ReceiveForNoJob(b)
              \/ EndOfTurn \/ (\E n \in ExchangeSizes : Exchange(b, n))
              \/ ExchangeFill(b) \/ ExchangeRead(b) \/ ExchangeEnds(b))
        BY <2>4 DEF MasterEBMReceive8BitPolled, ReceiveForNoJob, EndOfTurn,
          Exchange, ExchangeFill, ExchangeRead, ExchangeEnds, AtStep, App
      <4> QED
        BY <1>9, <4>1, <4>2, <4>3, <4>4, Zenon DEF QuietStep
    <3>2. loop'.step # "boot"
      <4>1. loop \in [bus : Bus, step : PassStep, job : Pointer]
        BY <1>0, <2>4 DEF LoopType
      <4>2. ClientConfigure(b) => GoTo(1, "open") \/ loop' = App
        BY DEF ClientConfigure
      <4>3. CASE GoTo(1, "open")
        BY <4>1, <4>3 DEF GoTo
      <4>4. CASE loop' = App
        BY <4>4 DEF App
      <4> QED
        BY <2>4, <3>1, <4>2, <4>3, <4>4
    <3> QED
      BY <1>0, <2>1, <2>2, <2>4, <3>2 DEF Created, IsEmpty
  <2>5. CASE loop' = loop
    BY <1>0, <2>1, <2>2, <2>5 DEF Created, IsEmpty
  <2>6. CASE loop.step \notin {"boot", "open"} /\ loop'.step \notin {"boot", "open"}
    BY <1>0, <2>1, <2>2, <2>6, ReservesStay
  <2> QED
    BY <2>3, <2>4, <2>5, <2>6
<1> QED
  BY <1>4, <1>6, <1>7, <1>8, <1>9 DEF StepOf
-----------------------------------------------------------------------------
\* The lists are what the properties speak of.
LEMMA ListsSay ==
  ASSUME NEW b \in Bus
  PROVE  /\ AllLists[FreePlace] = Free
         /\ AllLists[WaitPlace(b)] = Waiting(b)
         /\ AllLists[RunPlace(b)] = Running(b)
<1>1. AllLists[FreePlace] = Free
  BY DEF AllLists, ListsOf, Free, FreePlace, Place
<1>2. AllLists[WaitPlace(b)] = Waiting(b)
  <2>1. /\ WaitPlace(b) \in Place /\ WaitPlace(b) # FreePlace
        /\ WaitPlace(b) \in {WaitPlace(0), WaitPlace(1)} /\ WaitPlace(b) - 1 = b
    BY DEF WaitPlace, Place, FreePlace, Bus
  <2> QED
    BY <2>1 DEF AllLists, ListsOf, Waiting
<1>3. AllLists[RunPlace(b)] = Running(b)
  <2>1. AllLists[RunPlace(b)] = IF Current[b] = NULL THEN <<>> ELSE <<Current[b]>>
    BY RunningLists DEF AllLists
  <2>2. Current[b] = obj[b].currentJob
    BY DEF Current
  <2> QED
    BY <2>1, <2>2, Zenon DEF Running
<1> QED
  BY <1>1, <1>2, <1>3

\* What a move makes of the elements that wait.
LEMMA WaitersMoved ==
  ASSUME NEW q \in Lists, NEW x \in Place, NEW y \in Place, x # y, Len(q[x]) # 0,
         Distinct(q)
  PROVE  /\ Waiters(Moved(q, x, y)) \subseteq Waiters(q) \union {q[x][1]}
         /\ x \notin {WaitPlace(0), WaitPlace(1)} => q[x][1] \notin Waiters(q)
         /\ y \notin {WaitPlace(0), WaitPlace(1)} =>
              Waiters(Moved(q, x, y)) \subseteq Waiters(q)
         /\ \A b \in Bus : x = WaitPlace(b) => q[x][1] \in Waiters(q)
<1> DEFINE r == Moved(q, x, y)
<1>1. /\ r \in Lists
      /\ \A z \in Place : Len(r[z]) \in Nat /\ Len(q[z]) \in Nat
      /\ q[x][1] \in Element
      /\ Len(r[x]) = Len(q[x]) - 1
      /\ \A i \in 1..Len(r[x]) : r[x][i] = q[x][i + 1]
      /\ Len(r[y]) = Len(q[y]) + 1
      /\ \A i \in 1..Len(q[y]) : r[y][i] = q[y][i]
      /\ r[y][Len(q[y]) + 1] = q[x][1]
      /\ \A z \in Place \ {x, y} : r[z] = q[z]
  BY MovedPositions
<1> HIDE DEF r
<1>2. 1 \in 1..Len(q[x])
  <2>1. PICK k \in Nat : k = Len(q[x])
    BY <1>1
  <2>2. k # 0
    BY <2>1
  <2>3. 1 \in 1..k
    BY <2>2
  <2> QED
    BY <2>1, <2>3, Zenon
<1>3. ASSUME NEW z \in Place, NEW i \in 1..Len(r[z])
      PROVE  \/ \E k \in 1..Len(q[z]) : r[z][i] = q[z][k]
             \/ z = y /\ r[z][i] = q[x][1]
  <2>1. CASE z = x
    <3>1. i + 1 \in 1..Len(q[x])
      <4>1. PICK k, l \in Nat : k = Len(q[x]) /\ l = Len(r[x])
        BY <1>1
      <4>2. k - 1 = l
        BY <1>1, <4>1, Zenon
      <4> QED
        BY <2>1, <4>1, <4>2
    <3> QED
      BY <1>1, <2>1, <3>1
  <2>2. CASE z = y
    <3>1. PICK k, l \in Nat : k = Len(q[y]) /\ l = Len(r[y])
      BY <1>1
    <3>2. k + 1 = l
      BY <1>1, <3>1, Zenon
    <3>3. i \in 1..Len(q[y]) \/ i = Len(q[y]) + 1
      BY <2>2, <3>1, <3>2
    <3> QED
      BY <1>1, <2>2, <3>3, Zenon
  <2>3. CASE z \in Place \ {x, y}
    BY <1>1, <2>3
  <2> QED
    BY <2>1, <2>2, <2>3
<1>4. \A b \in Bus : WaitPlace(b) \in Place /\ WaitPlace(b) \in {WaitPlace(0), WaitPlace(1)}
  BY BusPlaces DEF Bus
<1>5. ASSUME NEW e \in Waiters(r)
      PROVE  \/ e \in Waiters(q)
             \/ e = q[x][1] /\ y \in {WaitPlace(0), WaitPlace(1)}
  <2>1. PICK b \in Bus : \E i \in 1..Len(r[WaitPlace(b)]) : r[WaitPlace(b)][i] = e
    BY DEF Waiters
  <2>2. e \in Element
    BY DEF Waiters
  <2>3. \/ \E k \in 1..Len(q[WaitPlace(b)]) : e = q[WaitPlace(b)][k]
        \/ WaitPlace(b) = y /\ e = q[x][1]
    BY <1>3, <1>4, <2>1
  <2> QED
    BY <1>4, <2>2, <2>3 DEF Waiters
<1>6. ASSUME q[x][1] \in Waiters(q)
      PROVE  x \in {WaitPlace(0), WaitPlace(1)}
  <2>1. PICK b \in Bus : \E i \in 1..Len(q[WaitPlace(b)]) :
                           q[WaitPlace(b)][i] = q[x][1]
    BY <1>6 DEF Waiters
  <2>2. PICK i \in 1..Len(q[WaitPlace(b)]) : q[WaitPlace(b)][i] = q[x][1]
    BY <2>1
  <2>3. x = WaitPlace(b)
    BY <1>2, <1>4, <2>2 DEF Distinct
  <2> QED
    BY <1>4, <2>3
<1>7. ASSUME NEW b \in Bus, x = WaitPlace(b)
      PROVE  q[x][1] \in Waiters(q)
  BY <1>1, <1>2, <1>7 DEF Waiters
<1> QED
  BY <1>5, <1>6, <1>7 DEF r

\* A job that runs does not wait, is not free, and does not run on both buses.
LEMMA RunningApart ==
  ASSUME PoolInv, NEW b \in Bus, obj[b].currentJob # NULL
  PROVE  /\ obj[b].currentJob \in Element
         /\ obj[b].currentJob \notin Waiters(AllLists)
         /\ Len(AllLists[FreePlace]) # 0 => obj[b].currentJob # AllLists[FreePlace][1]
         /\ \A c \in Bus \ {b} : obj[c].currentJob # obj[b].currentJob
<1> DEFINE q == AllLists
<1>1. q \in Lists /\ Distinct(q) /\ obj[b] \in Object
  BY DEF PoolInv, Arranged, DataType
<1>2. \A c \in Bus : obj[c].currentJob # NULL =>
        /\ Len(q[RunPlace(c)]) = 1 /\ q[RunPlace(c)][1] = obj[c].currentJob
  <2> SUFFICES ASSUME NEW c \in Bus, obj[c].currentJob # NULL
               PROVE  Len(q[RunPlace(c)]) = 1 /\ q[RunPlace(c)][1] = obj[c].currentJob
    OBVIOUS
  <2>1. q[RunPlace(c)] = <<obj[c].currentJob>>
    BY ListsSay, Zenon DEF Running
  <2>2. Len(<<obj[c].currentJob>>) = 1 /\ <<obj[c].currentJob>>[1] = obj[c].currentJob
    OBVIOUS
  <2> QED
    BY <2>1, <2>2, Zenon
<1>3. \A z \in Place : Len(q[z]) \in Nat
  BY <1>1, LenProperties DEF Lists
<1> HIDE DEF q
<1>4. obj[b].currentJob \in Element
  BY <1>1 DEF Object, Pointer, NULL
<1>5. RunPlace(b) \in Place /\ 1 \in 1..Len(q[RunPlace(b)])
      /\ q[RunPlace(b)][1] = obj[b].currentJob
  BY <1>2, BusPlaces
<1>6. obj[b].currentJob \notin Waiters(q)
  <2> SUFFICES ASSUME obj[b].currentJob \in Waiters(q) PROVE FALSE
    OBVIOUS
  <2>1. PICK c \in Bus : \E i \in 1..Len(q[WaitPlace(c)]) :
                           q[WaitPlace(c)][i] = obj[b].currentJob
    BY DEF Waiters
  <2>2. WaitPlace(c) \in Place /\ WaitPlace(c) # RunPlace(b)
    BY BusPlaces DEF WaitPlace, RunPlace, Bus
  <2> QED
    BY <1>1, <1>5, <2>1, <2>2 DEF Distinct
<1>7. Len(q[FreePlace]) # 0 => obj[b].currentJob # q[FreePlace][1]
  <2> SUFFICES ASSUME Len(q[FreePlace]) # 0 PROVE obj[b].currentJob # q[FreePlace][1]
    OBVIOUS
  <2>1. FreePlace \in Place /\ FreePlace # RunPlace(b)
    BY BusPlaces DEF FreePlace, RunPlace, Bus
  <2>2. 1 \in 1..Len(q[FreePlace])
    BY <1>3, <2>1
  <2> QED
    BY <1>1, <1>5, <2>1, <2>2 DEF Distinct
<1>8. ASSUME NEW c \in Bus \ {b}
      PROVE  obj[c].currentJob # obj[b].currentJob
  <2> SUFFICES ASSUME obj[c].currentJob = obj[b].currentJob PROVE FALSE
    OBVIOUS
  <2>1. /\ RunPlace(c) \in Place /\ 1 \in 1..Len(q[RunPlace(c)])
        /\ q[RunPlace(c)][1] = obj[b].currentJob
    BY <1>2, BusPlaces
  <2>2. RunPlace(c) # RunPlace(b)
    BY DEF RunPlace, Bus
  <2> QED
    BY <1>1, <1>5, <2>1, <2>2 DEF Distinct
<1> QED
  BY <1>4, <1>6, <1>7, <1>8 DEF q

\* Most quiet steps change only where the main loop is.
LEMMA QuietIs ==
  ASSUME NEW b \in Bus, QuietStep(b)
  PROVE  \/ ClientConfigure(b) \/ Start(b) \/ MasterEBMSend8BitPolled(b)
         \/ MasterEBMReceive8BitPolled(b) \/ ExchangeFill(b) \/ ExchangeRead(b)
         \/ Shift(b) \/ WriterStep(b)
         \/ UNCHANGED <<pool, job, obj, hw>>
<1>1. CASE NothingToDo(b) \/ Resume(b) \/ NoError(b) \/ AnswerLost(b)
  BY <1>1 DEF NothingToDo, Resume, NoError, AnswerLost
<1>2. CASE \/ ReceiveForNoJob(b) \/ EndOfTurn \/ ExchangeEnds(b)
           \/ (\E n \in ExchangeSizes : Exchange(b, n))
  BY <1>2 DEF ReceiveForNoJob, EndOfTurn, Exchange, ExchangeEnds
<1> QED
  BY <1>1, <1>2, Zenon DEF QuietStep

\* A step of one bus leaves the other's object and FIFOs alone.
LEMMA OthersStay ==
  ASSUME DataType, NEW b \in Bus, StepOf(b), NEW c \in Bus \ {b}
  PROVE  obj'[c] = obj[c] /\ hw'[c] = hw[c]
<1>1. obj \in [Bus -> Object] /\ hw \in [Bus -> Hardware]
  BY DEF DataType
<1>2. CASE UNCHANGED <<obj, hw>>
  BY <1>2
<1>3. CASE ClientConfigure(b)
  BY <1>1, <1>3 DEF ClientConfigure
<1>4. CASE Take(b)
  BY <1>1, <1>4 DEF Take
<1>5. CASE Drop(b)
  BY <1>1, <1>5 DEF Drop
<1>6. CASE Finish(b)
  BY <1>1, <1>6 DEF Finish
<1>7. CASE Start(b)
  BY <1>1, <1>7 DEF Start
<1>8. CASE MasterEBMSend8BitPolled(b)
  BY <1>1, <1>8 DEF MasterEBMSend8BitPolled
<1>9. CASE MasterEBMReceive8BitPolled(b)
  BY <1>1, <1>9 DEF MasterEBMReceive8BitPolled
<1>10. CASE ExchangeFill(b) \/ ExchangeRead(b)
  BY <1>1, <1>10 DEF ExchangeFill, ExchangeRead
<1>11. CASE Shift(b)
  BY <1>1, <1>11 DEF Shift
<1>12. CASE WriterStep(b)
  BY <1>1, <1>12, WriterDoes
<1>13. CASE QuietStep(b)
  BY <1>2, <1>3, <1>7, <1>8, <1>9, <1>10, <1>11, <1>12, <1>13, QuietIs
<1>14. CASE AddStep(b) \/ InitializeInstance(b)
  BY <1>2, <1>14 DEF AddStep, Call, Callback, InitializeInstance
<1> QED
  BY <1>4, <1>5, <1>6, <1>13, <1>14 DEF StepOf

\* A step that adds no job changes only the one that runs, which stays the one.
LEMMA JobsStay ==
  ASSUME PoolInv, NEW b \in Bus, StepOf(b), ~AddStep(b)
  PROVE  \/ job' = job
         \/ /\ MasterEBMSend8BitPolled(b) \/ MasterEBMReceive8BitPolled(b)
            /\ loop.job \in Element /\ obj[b].currentJob = loop.job
            /\ \A e \in Element \ {loop.job} : job'[e] = job[e]
<1>1. /\ LoopHolds /\ LoopType /\ JobsLeft /\ job \in [Element -> Job]
      /\ obj \in [Bus -> Object]
  BY DEF PoolInv, DataType
<1>2. CASE MasterEBMSend8BitPolled(b)
  <2>1. loop.job \in Element /\ obj[b].currentJob = loop.job
    BY <1>1, <1>2
    DEF MasterEBMSend8BitPolled, AtStep, LoopHolds, LoopType, Pointer
  <2>2. \A e \in Element \ {loop.job} : job'[e] = job[e]
    BY <1>1, <1>2 DEF MasterEBMSend8BitPolled
  <2> QED
    BY <1>2, <2>1, <2>2
<1>3. CASE MasterEBMReceive8BitPolled(b)
  <2>1. loop.job \in Element /\ obj[b].currentJob = loop.job
    BY <1>1, <1>3
    DEF MasterEBMReceive8BitPolled, AtStep, LoopHolds, LoopType, JobsLeft, ToGet,
        LeftToRx, Pointer
  <2>2. \A e \in Element \ {loop.job} : job'[e] = job[e]
    BY <1>1, <1>3 DEF MasterEBMReceive8BitPolled
  <2> QED
    BY <1>3, <2>1, <2>2
<1>4. ASSUME ~MasterEBMSend8BitPolled(b), ~MasterEBMReceive8BitPolled(b)
      PROVE  job' = job
  <2>1. CASE WriterStep(b)
    BY <2>1, WriterDoes DEF PoolInv, DataType
  <2>2. CASE ClientConfigure(b) \/ Start(b) \/ ExchangeFill(b) \/ ExchangeRead(b)
             \/ Shift(b)
    BY <2>2 DEF ClientConfigure, Start, ExchangeFill, ExchangeRead, Shift
  <2>3. CASE QuietStep(b)
    BY <1>4, <2>1, <2>2, <2>3, QuietIs
  <2>4. CASE InitializeInstance(b) \/ Take(b) \/ Drop(b) \/ Finish(b)
    BY <2>4 DEF InitializeInstance, Take, Drop, Finish
  <2> QED
    BY <2>3, <2>4 DEF StepOf
<1> QED
  BY <1>2, <1>3, <1>4

\* A step that adds a job puts an offered one in a free element.
LEMMA JobAdded ==
  ASSUME PoolInv, NEW b \in Bus, AddStep(b)
  PROVE  /\ UNCHANGED <<obj, hw, loop>> /\ loop.step \notin {"boot", "open"}
         /\ Len(AllLists[FreePlace]) # 0
         /\ \E e \in Element, j \in Job, c \in Bus :
              /\ e = AllLists[FreePlace][1]
              /\ ToSend(j) = ToGet(j) /\ (NoEmptyJob => ToGet(j) # 0)
              /\ job' = [job EXCEPT ![e] = j]
              /\ AllLists' = Moved(AllLists, FreePlace, WaitPlace(c))
<1>1. UNCHANGED <<obj, hw, loop>> /\ loop.step \notin {"boot", "open"}
  BY DEF AddStep, Call, Callback, App, AtStep
<1>2. PICK c \in Bus : \E j \in JobsOffered : BufferAdd(c, j)
  BY DEF AddStep, Call, Callback
<1>3. PICK j \in JobsOffered : BufferAdd(c, j)
  BY <1>2
<1>4. j \in Job /\ ToSend(j) = ToGet(j) /\ (NoEmptyJob => ToGet(j) # 0)
  BY JobsOfferedAre DEF ToSend, ToGet, NoEmptyJob
<1>5. Arranged(pool, AllLists)
  BY DEF PoolInv
<1>6. /\ Len(AllLists[FreePlace]) # 0
      /\ ElementOf(pool) = AllLists[FreePlace][1]
      /\ ElementOf(pool) \in Element
      /\ job' = [job EXCEPT ![ElementOf(pool)] = j]
      /\ AllLists' = Moved(AllLists, FreePlace, WaitPlace(c))
  BY <1>1, <1>3, <1>5, ListsAdded
<1> QED
  BY <1>1, <1>4, <1>6

\* A job that waits after a step has waited before it or is one just offered.
LEMMA WaitersStep ==
  ASSUME PoolInv, NEW b \in Bus, StepOf(b)
  PROVE  /\ \A x \in Waiters(AllLists') :
              \/ x \in Waiters(AllLists) /\ job'[x] = job[x]
              \/ /\ ToSend(job'[x]) = ToGet(job'[x])
                 /\ NoEmptyJob => ToGet(job'[x]) # 0
         /\ Take(b) => pool.queue[b].pHead \in Waiters(AllLists)
<1> DEFINE q == AllLists
<1>1. /\ Arranged(pool, q) /\ q \in Lists /\ Distinct(q) /\ LoopHolds
      /\ obj \in [Bus -> Object] /\ job \in [Element -> Job]
  BY DEF PoolInv, Arranged, DataType
<1>2. \A e \in Waiters(q) : e \in Element
  BY DEF Waiters
<1>3. CASE AddStep(b)
  <2>1. PICK e \in Element, j \in Job, c \in Bus :
          /\ e = q[FreePlace][1]
          /\ ToSend(j) = ToGet(j) /\ (NoEmptyJob => ToGet(j) # 0)
          /\ job' = [job EXCEPT ![e] = j]
          /\ AllLists' = Moved(q, FreePlace, WaitPlace(c))
    BY <1>3, JobAdded
  <2>2. Len(q[FreePlace]) # 0
    BY <1>3, JobAdded
  <2>3. FreePlace \in Place /\ WaitPlace(c) \in Place /\ FreePlace # WaitPlace(c)
    BY BusPlaces
  <2> HIDE DEF q
  <2>4. Waiters(AllLists') \subseteq Waiters(q) \union {e}
    BY <1>1, <2>1, <2>2, <2>3, WaitersMoved
  <2>5. ASSUME NEW x \in Waiters(AllLists')
        PROVE  \/ x \in Waiters(q) /\ job'[x] = job[x]
               \/ /\ ToSend(job'[x]) = ToGet(job'[x])
                  /\ NoEmptyJob => ToGet(job'[x]) # 0
    BY <1>1, <1>2, <2>1, <2>4
  <2>6. ~Take(b)
    BY <1>3 DEF AddStep, Call, Callback, Take, AtStep, App
  <2> QED
    BY <2>5, <2>6 DEF q
<1>4. CASE ~AddStep(b)
  <2>1. \A e \in Waiters(q) : job'[e] = job[e]
    <3>1. CASE job' = job
      BY <3>1
    <3>2. CASE /\ loop.job \in Element /\ obj[b].currentJob = loop.job
               /\ \A e \in Element \ {loop.job} : job'[e] = job[e]
      <4>1. obj[b].currentJob # NULL
        BY <3>2 DEF Element, NULL
      <4>2. loop.job \notin Waiters(q)
        BY <3>2, <4>1, RunningApart
      <4> QED
        BY <1>2, <3>2, <4>2
    <3> QED
      BY <1>4, <3>1, <3>2, JobsStay
  <2>2. Waiters(AllLists') \subseteq Waiters(q)
    <3>1. CASE QuietStep(b)
      BY <3>1, QuietKeeps, ListsKept DEF PoolInv
    <3>2. CASE InitializeInstance(b)
      BY <3>2, InstanceCreated
    <3>3. CASE Take(b)
      <4>1. /\ Len(q[WaitPlace(b)]) # 0
            /\ AllLists' = Moved(q, WaitPlace(b), RunPlace(b))
        BY <1>1, <3>3, ListsTaken
      <4>2. /\ WaitPlace(b) \in Place /\ RunPlace(b) \in Place
            /\ WaitPlace(b) # RunPlace(b)
            /\ RunPlace(b) \notin {WaitPlace(0), WaitPlace(1)}
        BY BusPlaces DEF RunPlace, WaitPlace, Bus
      <4> HIDE DEF q
      <4> QED
        BY <1>1, <4>1, <4>2, WaitersMoved
    <3>4. CASE Drop(b) \/ Finish(b)
      <4>1. loop.job # NULL /\ obj[b].currentJob = loop.job
        BY <1>1, <3>4 DEF Drop, Finish, AtStep, LoopHolds
      <4>2. pool' = FreeElementLock(pool, b, loop.job)
        BY <3>4 DEF Drop, Finish
      <4>3. obj'[b].currentJob = NULL /\ \A c \in Bus \ {b} : obj'[c] = obj[c]
        BY <1>1, <3>4 DEF Drop, Finish, Object
      <4>4. Len(q[RunPlace(b)]) = 1 /\ AllLists' = Moved(q, RunPlace(b), FreePlace)
        BY <1>1, <4>1, <4>2, <4>3, ListsFreed
      <4>5. /\ FreePlace \in Place /\ RunPlace(b) \in Place
            /\ RunPlace(b) # FreePlace
            /\ FreePlace \notin {WaitPlace(0), WaitPlace(1)}
        BY BusPlaces DEF FreePlace, WaitPlace
      <4> HIDE DEF q
      <4>6. Len(q[RunPlace(b)]) # 0
        BY <4>4
      <4> QED
        BY <1>1, <4>4, <4>5, <4>6, WaitersMoved
    <3> QED
      BY <1>4, <3>1, <3>2, <3>3, <3>4 DEF StepOf
  <2>3. \A x \in Waiters(AllLists') : x \in Waiters(q) /\ job'[x] = job[x]
    <3> HIDE DEF q
    <3> QED
      BY <2>1, <2>2
  <2>4. ASSUME Take(b)
        PROVE  pool.queue[b].pHead \in Waiters(q)
    <3>1. /\ Len(q[WaitPlace(b)]) # 0
          /\ pool.queue[b].pHead = q[WaitPlace(b)][1]
      BY <1>1, <2>4, ListsTaken
    <3>2. /\ WaitPlace(b) \in Place /\ RunPlace(b) \in Place
          /\ WaitPlace(b) # RunPlace(b)
      BY BusPlaces
    <3> HIDE DEF q
    <3> QED
      BY <1>1, <3>1, <3>2, WaitersMoved
  <2> QED
    BY <2>3, <2>4
<1> QED
  BY <1>3, <1>4

\* What a send does to the job, the object and the FIFO of its bus.
LEMMA SendDoes ==
  ASSUME PoolInv, NEW b \in Bus, MasterEBMSend8BitPolled(b)
  PROVE  /\ loop.job \in Element /\ obj[b].currentJob = loop.job
         /\ obj'[b].currentJob = loop.job
         /\ \E n \in Nat :
              /\ n <= RoomToSend(b) /\ n <= ToSend(job[loop.job])
              /\ ToSend(job'[loop.job]) = ToSend(job[loop.job]) - n
              /\ ToGet(job'[loop.job]) = ToGet(job[loop.job])
              /\ obj'[b].symbolsInProgress = (obj[b].symbolsInProgress + n) % 256
              /\ hw'[b].tx = leastOf(FifoSize, hw[b].tx + n)
              /\ hw'[b].rx = hw[b].rx /\ hw'[b].rov = hw[b].rov
<1>1. /\ LoopHolds /\ LoopType /\ job \in [Element -> Job]
      /\ obj \in [Bus -> Object] /\ hw \in [Bus -> Hardware]
  BY DEF PoolInv, DataType
<1>2. loop.job \in Element /\ obj[b].currentJob = loop.job
  BY <1>1 DEF MasterEBMSend8BitPolled, AtStep, LoopHolds, LoopType, Pointer
<1>3. RoomToSend(b) \in Nat
  <2>1. obj[b].symbolsInProgress \in Int /\ hw[b].tx \in Int
    <3>1. obj[b] \in Object /\ hw[b] \in Hardware
      BY <1>1
    <3>2. obj[b].symbolsInProgress \in 0..255
      BY <3>1 DEF Object
    <3>3. hw[b].tx \in 0..FifoSize
      BY <3>1 DEF Hardware
    <3> QED
      BY <3>2, <3>3, DriverAssumption
  <2>2. mostOf(obj[b].symbolsInProgress, hw[b].tx) \in Int
    BY <2>1 DEF mostOf
  <2>3. FifoSize - mostOf(obj[b].symbolsInProgress, hw[b].tx) \in Int
    BY <2>2, DriverAssumption
  <2>4. RoomToSend(b) \in 0..255
    BY <2>3, Bytes DEF RoomToSend
  <2> QED
    BY <2>4
<1> DEFINE j == job[loop.job]
           data == leastOf(j.dataLeftToTx, RoomToSend(b))
           dummy == leastOf(j.dummyLeftToTx, RoomToSend(b) - data)
<1>4. /\ j \in Job /\ j.dataLeftToTx \in Nat /\ j.dummyLeftToTx \in Nat
      /\ j.dataLeftToRx \in Nat /\ j.dummyLeftToRx \in Nat
  BY <1>1, <1>2 DEF Job
<1>5. /\ data \in Nat /\ dummy \in Nat
      /\ data <= j.dataLeftToTx /\ dummy <= j.dummyLeftToTx
      /\ data + dummy <= RoomToSend(b)
  BY <1>3, <1>4, UnitsAre
<1>6. /\ job' = [job EXCEPT ![loop.job].dataLeftToTx = @ - data,
                            ![loop.job].dummyLeftToTx = @ - dummy]
      /\ obj' = [obj EXCEPT ![b].symbolsInProgress = (@ + (data + dummy)) % 256]
      /\ hw' = [hw EXCEPT ![b].tx = leastOf(FifoSize, @ + (data + dummy))]
  BY DEF MasterEBMSend8BitPolled
<1> HIDE DEF data, dummy
<1> DEFINE n == data + dummy
<1>7. n \in Nat /\ n <= RoomToSend(b) /\ n <= ToSend(j)
  BY <1>4, <1>5 DEF ToSend
<1>8. /\ job'[loop.job].dataLeftToTx = j.dataLeftToTx - data
      /\ job'[loop.job].dummyLeftToTx = j.dummyLeftToTx - dummy
      /\ job'[loop.job].dataLeftToRx = j.dataLeftToRx
      /\ job'[loop.job].dummyLeftToRx = j.dummyLeftToRx
  BY <1>1, <1>2, <1>6 DEF Job
<1>9. /\ ToSend(job'[loop.job]) = ToSend(j) - n
      /\ ToGet(job'[loop.job]) = ToGet(j)
  BY <1>4, <1>5, <1>8 DEF ToSend, ToGet
<1> HIDE DEF n, j
<1>10. /\ obj'[b].symbolsInProgress = (obj[b].symbolsInProgress + n) % 256
       /\ obj'[b].currentJob = obj[b].currentJob
  BY <1>1, <1>6 DEF Object, n
<1>11. /\ hw'[b].tx = leastOf(FifoSize, hw[b].tx + n)
       /\ hw'[b].rx = hw[b].rx /\ hw'[b].rov = hw[b].rov
  BY <1>1, <1>6 DEF Hardware, n
<1> QED
  BY <1>2, <1>7, <1>9, <1>10, <1>11 DEF j

\* What a receive does to them.
LEMMA ReceiveDoes ==
  ASSUME PoolInv, NEW b \in Bus, MasterEBMReceive8BitPolled(b)
  PROVE  /\ loop.job \in Element /\ obj[b].currentJob = loop.job
         /\ obj'[b].currentJob = loop.job
         /\ \E n \in Nat :
              /\ n <= hw[b].rx /\ n <= ToGet(job[loop.job])
              /\ ToSend(job'[loop.job]) = ToSend(job[loop.job])
              /\ ToGet(job'[loop.job]) = ToGet(job[loop.job]) - n
              /\ obj'[b].symbolsInProgress = (obj[b].symbolsInProgress - n) % 256
              /\ hw'[b].rx = hw[b].rx - n
              /\ hw'[b].tx = hw[b].tx /\ hw'[b].rov = hw[b].rov
              /\ IF ToGet(job[loop.job]) = n THEN GoTo(b, "ending") ELSE NextBus(b)
<1>1. /\ LoopHolds /\ LoopType /\ JobsLeft /\ job \in [Element -> Job]
      /\ obj \in [Bus -> Object] /\ hw \in [Bus -> Hardware]
  BY DEF PoolInv, DataType
<1>2. loop.job \in Element /\ obj[b].currentJob = loop.job
  BY <1>1 DEF MasterEBMReceive8BitPolled, AtStep, LoopHolds, LoopType, JobsLeft,
    ToGet, LeftToRx, Pointer
<1>3. hw[b].rx \in Nat
  BY <1>1, DriverAssumption DEF Hardware
<1> DEFINE j == job[loop.job]
           data == leastOf(j.dataLeftToRx, hw[b].rx)
           dummy == leastOf(j.dummyLeftToRx, hw[b].rx - data)
<1>4. /\ j \in Job /\ j.dataLeftToTx \in Nat /\ j.dummyLeftToTx \in Nat
      /\ j.dataLeftToRx \in Nat /\ j.dummyLeftToRx \in Nat
  BY <1>1, <1>2 DEF Job
<1>5. /\ data \in Nat /\ dummy \in Nat
      /\ data <= j.dataLeftToRx /\ dummy <= j.dummyLeftToRx
      /\ data + dummy <= hw[b].rx
  BY <1>3, <1>4, UnitsAre
<1>6. /\ job' = [job EXCEPT ![loop.job].dataLeftToRx = @ - data,
                            ![loop.job].dummyLeftToRx = @ - dummy]
      /\ obj' = [obj EXCEPT ![b].symbolsInProgress = (@ - (data + dummy)) % 256]
      /\ hw' = [hw EXCEPT ![b].rx = @ - (data + dummy)]
      /\ IF ToGet(j) = data + dummy THEN GoTo(b, "ending") ELSE NextBus(b)
  BY DEF MasterEBMReceive8BitPolled, LeftToRx, ToGet
<1> HIDE DEF data, dummy
<1> DEFINE n == data + dummy
<1>7. n \in Nat /\ n <= hw[b].rx /\ n <= ToGet(j)
  BY <1>4, <1>5 DEF ToGet
<1>8. /\ job'[loop.job].dataLeftToRx = j.dataLeftToRx - data
      /\ job'[loop.job].dummyLeftToRx = j.dummyLeftToRx - dummy
      /\ job'[loop.job].dataLeftToTx = j.dataLeftToTx
      /\ job'[loop.job].dummyLeftToTx = j.dummyLeftToTx
  BY <1>1, <1>2, <1>6 DEF Job
<1>9. /\ ToGet(job'[loop.job]) = ToGet(j) - n
      /\ ToSend(job'[loop.job]) = ToSend(j)
  BY <1>4, <1>5, <1>8 DEF ToSend, ToGet
<1> HIDE DEF n, j
<1>10. /\ obj'[b].symbolsInProgress = (obj[b].symbolsInProgress - n) % 256
       /\ obj'[b].currentJob = obj[b].currentJob
  BY <1>1, <1>6 DEF Object, n
<1>11. /\ hw'[b].rx = hw[b].rx - n
       /\ hw'[b].tx = hw[b].tx /\ hw'[b].rov = hw[b].rov
  BY <1>1, <1>6 DEF Hardware, n
<1>12. IF ToGet(j) = n THEN GoTo(b, "ending") ELSE NextBus(b)
  BY <1>6 DEF n
<1> HIDE DEF GoTo, NextBus
<1> QED
  BY <1>2, <1>7, <1>9, <1>10, <1>11, <1>12 DEF j

\* A job that runs is left alone by the other bus and by the clients.
LEMMA RunningStays ==
  ASSUME PoolInv, NEW b \in Bus, StepOf(b), NEW c \in Bus,
         c # b \/ AddStep(b), obj[c].currentJob # NULL
  PROVE  job'[obj[c].currentJob] = job[obj[c].currentJob]
<1>1. /\ obj[c].currentJob \in Element
      /\ Len(AllLists[FreePlace]) # 0 => obj[c].currentJob # AllLists[FreePlace][1]
      /\ \A d \in Bus \ {c} : obj[d].currentJob # obj[c].currentJob
  BY RunningApart
<1>2. job \in [Element -> Job]
  BY DEF PoolInv, DataType
<1>3. CASE AddStep(b)
  <2>1. Len(AllLists[FreePlace]) # 0
    BY <1>3, JobAdded
  <2>2. PICK e \in Element, j \in Job : /\ e = AllLists[FreePlace][1]
                                        /\ job' = [job EXCEPT ![e] = j]
    BY <1>3, JobAdded
  <2> QED
    BY <1>1, <1>2, <2>1, <2>2
<1>4. CASE ~AddStep(b)
  <2>1. c # b
    BY <1>4
  <2>2. job' = job \/ /\ obj[b].currentJob = loop.job
                      /\ \A e \in Element \ {loop.job} : job'[e] = job[e]
    BY <1>4, JobsStay
  <2> QED
    BY <1>1, <2>1, <2>2
<1> QED
  BY <1>3, <1>4
-----------------------------------------------------------------------------
\* A step of one bus does not move the main loop out of a pass of the other.
LEMMA OtherLoop ==
  ASSUME DataType, NEW b \in Bus, StepOf(b), loop.bus # b, loop.step # "app"
  PROVE  loop' = loop
<1>1. CASE WriterStep(b)
  BY <1>1, WriterDoes DEF DataType
<1>2. CASE Shift(b) \/ AddStep(b)
  BY <1>2 DEF Shift, AddStep, Call, Callback
<1>3. ~(\/ ClientConfigure(b) \/ NothingToDo(b) \/ Resume(b) \/ Start(b)
        \/ MasterEBMSend8BitPolled(b) \/ NoError(b) \/ AnswerLost(b)
        \/ MasterEBMReceive8BitPolled(b) \/ ReceiveForNoJob(b))
  BY DEF ClientConfigure, NothingToDo, Resume, Start, MasterEBMSend8BitPolled,
    NoError, AnswerLost, MasterEBMReceive8BitPolled, ReceiveForNoJob, AtStep
<1>4. ~(\/ EndOfTurn \/ (\E n \in ExchangeSizes : Exchange(b, n))
        \/ ExchangeFill(b) \/ ExchangeRead(b) \/ ExchangeEnds(b))
  BY DEF EndOfTurn, Exchange, ExchangeFill, ExchangeRead, ExchangeEnds, AtStep, App
<1>5. ~(InitializeInstance(b) \/ Take(b) \/ Drop(b) \/ Finish(b))
  BY DEF InitializeInstance, Take, Drop, Finish, AtStep
<1> QED
  BY <1>1, <1>2, <1>3, <1>4, <1>5, Zenon DEF StepOf, QuietStep

\* The main loop leaves the end of a job by giving its element back.
LEMMA EndingStays ==
  ASSUME DataType, NEW b \in Bus, StepOf(b), AtStep(b, "ending"), ~Finish(b)
  PROVE  loop' = loop
<1>1. CASE WriterStep(b)
  BY <1>1, WriterDoes DEF DataType
<1>2. CASE Shift(b) \/ AddStep(b)
  BY <1>2 DEF Shift, AddStep, Call, Callback
<1>3. ~(\/ ClientConfigure(b) \/ NothingToDo(b) \/ Resume(b) \/ Start(b)
        \/ MasterEBMSend8BitPolled(b) \/ NoError(b) \/ AnswerLost(b)
        \/ MasterEBMReceive8BitPolled(b) \/ ReceiveForNoJob(b))
  BY DEF ClientConfigure, NothingToDo, Resume, Start, MasterEBMSend8BitPolled,
    NoError, AnswerLost, MasterEBMReceive8BitPolled, ReceiveForNoJob, AtStep
<1>4. ~(\/ EndOfTurn \/ (\E n \in ExchangeSizes : Exchange(b, n))
        \/ ExchangeFill(b) \/ ExchangeRead(b) \/ ExchangeEnds(b))
  BY DEF EndOfTurn, Exchange, ExchangeFill, ExchangeRead, ExchangeEnds, AtStep, App
<1>5. ~(InitializeInstance(b) \/ Take(b) \/ Drop(b))
  BY DEF InitializeInstance, Take, Drop, AtStep
<1> QED
  BY <1>1, <1>2, <1>3, <1>4, <1>5, Zenon DEF StepOf, QuietStep

\* The receive step is reached from the error step, with the job in hand.
LEMMA ReceiveReached ==
  ASSUME PoolInv, NEW b \in Bus, StepOf(b), loop'.step = "receive"
  PROVE  \/ NoError(b) \/ Drop(b)
         \/ loop' = loop /\ job' = job
<1>1. DataType /\ LoopType /\ hw \in [Bus -> Hardware]
  BY DEF PoolInv, DataType
<1>2. ASSUME NEW c, NEW s, GoTo(c, s)
      PROVE  loop'.step = s
  BY <1>1, <1>2 DEF GoTo, LoopType
<1>3. ~(\/ InitializeInstance(b) \/ Start(b) \/ MasterEBMSend8BitPolled(b)
        \/ AnswerLost(b) \/ EndOfTurn)
  BY <1>2 DEF InitializeInstance, Start, MasterEBMSend8BitPolled, AnswerLost,
    EndOfTurn
<1>4. ~(NothingToDo(b) \/ Finish(b))
  BY LoopNext DEF NothingToDo, Finish
<1>5. ~ClientConfigure(b)
  BY <1>2 DEF ClientConfigure, App
<1>6. ~MasterEBMReceive8BitPolled(b)
  BY <1>2, LoopNext DEF MasterEBMReceive8BitPolled
<1>7. ~(\/ Take(b) \/ Resume(b) \/ ExchangeEnds(b)
        \/ (\E n \in ExchangeSizes : Exchange(b, n)))
  BY DEF Take, Resume, ExchangeEnds, Exchange
<1>8. ~(ExchangeFill(b) \/ ExchangeRead(b))
  BY <1>1 DEF ExchangeFill, ExchangeRead, AtStep, LoopType
<1>9. ~AddStep(b)
  BY DEF AddStep, Call, Callback, App, AtStep
<1>10. CASE ReceiveForNoJob(b) \/ Shift(b)
  BY <1>10 DEF ReceiveForNoJob, Shift
<1>11. CASE WriterStep(b)
  BY <1>1, <1>11, WriterDoes
<1> QED
  BY <1>3, <1>4, <1>5, <1>6, <1>7, <1>8, <1>9, <1>10, <1>11, Zenon
  DEF StepOf, QuietStep

\* If no client queues an empty job, no job is empty before the pass that ends it.
LEMMA JobsLeftStep ==
  ASSUME NoEmptyJob, PoolInv, NEW b \in Bus, StepOf(b)
  PROVE  JobsLeft'
<1>1. /\ DataType /\ LoopType /\ LoopHolds /\ JobsLeft
      /\ job \in [Element -> Job] /\ obj \in [Bus -> Object]
  BY DEF PoolInv, DataType
<1>2. \A e \in Waiters(AllLists') : ToGet(job'[e]) # 0
  BY <1>1, WaitersStep DEF JobsLeft
<1>3. ASSUME NEW c \in Bus, obj'[c].currentJob # NULL, ~AtStep(c, "ending")'
      PROVE  ToGet(job'[obj'[c].currentJob]) # 0
  <2>1. ASSUME obj'[c].currentJob = obj[c].currentJob, ~AtStep(c, "ending"),
               job'[obj[c].currentJob] = job[obj[c].currentJob]
        PROVE  ToGet(job'[obj'[c].currentJob]) # 0
    <3>1. ToGet(job[obj[c].currentJob]) # 0
      BY <1>1, <1>3, <2>1 DEF JobsLeft
    <3> QED
      BY <2>1, <3>1, Zenon
  <2>2. ASSUME loop' = loop
        PROVE  ~AtStep(c, "ending")
    BY <1>3, <2>2 DEF AtStep
  <2>3. CASE c # b
    <3>1. obj'[c] = obj[c]
      BY <1>1, <2>3, OthersStay
    <3>2. job'[obj[c].currentJob] = job[obj[c].currentJob]
      BY <1>3, <2>3, <3>1, RunningStays
    <3>3. ~AtStep(c, "ending")
      BY <1>1, <2>2, <2>3, OtherLoop DEF AtStep
    <3> QED
      BY <2>1, <3>1, <3>2, <3>3
  <2>4. CASE AddStep(b)
    <3>1. obj' = obj /\ loop' = loop
      BY <2>4, JobAdded
    <3>2. job'[obj[c].currentJob] = job[obj[c].currentJob]
      BY <1>3, <2>4, <3>1, RunningStays
    <3> QED
      BY <2>1, <2>2, <3>1, <3>2
  <2>5. CASE c = b /\ Take(b)
    <3>1. obj'[c].currentJob = pool.queue[b].pHead /\ job' = job
      BY <1>1, <2>5 DEF Take, Object
    <3>2. pool.queue[b].pHead \in Waiters(AllLists)
      BY <2>5, WaitersStep
    <3> QED
      BY <1>1, <3>1, <3>2 DEF JobsLeft
  <2>6. ASSUME c = b, Drop(b) \/ Finish(b)
        PROVE  FALSE
    BY <1>1, <1>3, <2>6 DEF Drop, Finish, Object
  <2>7. CASE c = b /\ MasterEBMSend8BitPolled(b)
    <3>1. /\ obj[b].currentJob = loop.job /\ obj'[b].currentJob = loop.job
          /\ ToGet(job'[loop.job]) = ToGet(job[loop.job]) /\ loop.job # NULL
      BY <2>7, SendDoes DEF Element, NULL
    <3>2. ~AtStep(b, "ending")
      BY <2>7 DEF MasterEBMSend8BitPolled, AtStep
    <3> QED
      BY <1>1, <2>7, <3>1, <3>2 DEF JobsLeft
  <2>8. CASE c = b /\ MasterEBMReceive8BitPolled(b)
    <3>1. /\ loop.job \in Element /\ obj'[b].currentJob = loop.job
          /\ \E n \in Nat :
               /\ ToGet(job'[loop.job]) = ToGet(job[loop.job]) - n
               /\ IF ToGet(job[loop.job]) = n THEN GoTo(b, "ending") ELSE NextBus(b)
      BY <2>8, ReceiveDoes
    <3>2. PICK n \in Nat :
            /\ ToGet(job'[loop.job]) = ToGet(job[loop.job]) - n
            /\ IF ToGet(job[loop.job]) = n THEN GoTo(b, "ending") ELSE NextBus(b)
      BY <3>1
    <3>3. ToGet(job[loop.job]) \in Int
      BY <1>1, <3>1 DEF Job, ToGet
    <3>4. ToGet(job[loop.job]) # n
      <4> SUFFICES ASSUME GoTo(b, "ending") PROVE FALSE
        BY <3>2
      <4>1. loop \in [bus : Bus, step : PassStep, job : Pointer]
        BY <1>1, <2>8, LoopAt DEF MasterEBMReceive8BitPolled, PassStep
      <4>2. loop'.bus = b /\ loop'.step = "ending"
        BY <4>1, LoopTo DEF PassStep
      <4> QED
        BY <1>3, <2>8, <4>2 DEF AtStep
    <3> QED
      BY <2>8, <3>1, <3>2, <3>3, <3>4
  <2>9. CASE /\ c = b /\ ~AddStep(b) /\ ~Take(b) /\ ~Drop(b) /\ ~Finish(b)
             /\ ~MasterEBMSend8BitPolled(b) /\ ~MasterEBMReceive8BitPolled(b)
    <3>1. job' = job
      BY <2>9, JobsStay
    <3>2. obj'[c].currentJob = obj[c].currentJob
      <4>1. QuietStep(b) \/ InitializeInstance(b)
        BY <2>9 DEF StepOf
      <4> QED
        BY <1>1, <4>1, QuietKeeps DEF InitializeInstance
    <3>3. ~AtStep(c, "ending")
      BY <1>1, <2>2, <2>9, EndingStays
    <3> QED
      BY <2>1, <3>1, <3>2, <3>3
  <2> QED
    BY <2>3, <2>4, <2>5, <2>6, <2>7, <2>8, <2>9
<1>4. ASSUME loop'.step = "receive"
      PROVE  ToGet(job'[loop'.job]) # 0
  <2>1. CASE NoError(b) \/ Drop(b)
    <3>1. /\ loop \in [bus : Bus, step : PassStep, job : Pointer]
          /\ loop.bus = b /\ loop.step \in {"errors", "dropping"}
      BY <1>1, <2>1, LoopAt DEF NoError, Drop, PassStep
    <3>2. loop'.job = loop.job /\ job' = job
      BY <2>1, <3>1, LoopTo DEF NoError, Drop, PassStep
    <3>3. /\ obj[b].currentJob # NULL /\ obj[b].currentJob = loop.job
          /\ ~AtStep(b, "ending")
      BY <1>1, <3>1 DEF LoopHolds, AtStep
    <3> QED
      BY <1>1, <3>2, <3>3 DEF JobsLeft
  <2>2. CASE loop' = loop /\ job' = job
    BY <1>1, <1>4, <2>2 DEF JobsLeft
  <2> QED
    BY <1>4, <2>1, <2>2, ReceiveReached
<1> QED
  BY <1>2, <1>3, <1>4 DEF JobsLeft

\* The driver starts with a sound pool.
LEMMA InitPool == SpiInit => PoolInv
<1> SUFFICES ASSUME SpiInit PROVE PoolInv
  OBVIOUS
<1> USE DriverAssumption, QueueAssumption
<1>1. /\ pool = Initialize
      /\ job = [e \in Element |-> NoJob]
      /\ obj = [b \in Bus |-> InitialObject]
      /\ hw = [b \in Bus |-> [tx |-> 0, rx |-> 0, rov |-> FALSE]]
      /\ loop = [bus |-> 0, step |-> "boot", job |-> NULL]
  BY DEF SpiInit
<1>2. DataType
  <2>1. NoJob \in Job
    BY DEF NoJob, Job
  <2>2. InitialObject \in Object
    BY DEF InitialObject, Object, Pointer
  <2>3. [tx |-> 0, rx |-> 0, rov |-> FALSE] \in Hardware
    BY DEF Hardware
  <2> QED
    BY <1>1, <2>1, <2>2, <2>3 DEF DataType
<1>3. LoopType /\ LoopHolds
  BY <1>1 DEF LoopType, LoopHolds, PassStep, Bus, Pointer
<1>4. \A b \in Bus : obj[b].currentJob = NULL /\ ~obj[b].sel
  BY <1>1 DEF InitialObject
<1>5. Created
  BY <1>1, <1>4 DEF Created, Initialize, NoQueue, IsEmpty, Bus
<1>6. Arranged(pool, InitialLists)
  BY <1>1, InitArranged, Zenon
<1>7. AllLists = InitialLists
  <2>1. RunsAre(InitialLists, Current)
    <3>1. \A b \in Bus : RunPlace(b) \in Place /\ RunPlace(b) # FreePlace
      BY BusPlaces
    <3>2. \A b \in Bus : Current[b] = NULL
      BY <1>4 DEF Current
    <3> QED
      BY <3>1, <3>2 DEF RunsAre, InitialLists
  <2> QED
    BY <1>6, <2>1, ListsAre DEF AllLists
<1>8. JobsLeft
  <2>1. \A b \in Bus : Len(InitialLists[WaitPlace(b)]) = 0
    <3>1. \A b \in Bus : WaitPlace(b) \in Place /\ WaitPlace(b) # FreePlace
      BY BusPlaces DEF WaitPlace, FreePlace, Bus
    <3>2. \A b \in Bus : InitialLists[WaitPlace(b)] = <<>>
      BY <3>1 DEF InitialLists
    <3> QED
      BY <3>2, EmptySeq
  <2>2. Waiters(AllLists) = {}
    BY <1>7, <2>1 DEF Waiters
  <2>3. loop.step # "receive"
    BY <1>1
  <2> QED
    BY <1>4, <2>2, <2>3 DEF JobsLeft
<1> QED
  BY <1>2, <1>3, <1>5, <1>6, <1>7, <1>8 DEF PoolInv

\* The soundness of the pool is inductive.
LEMMA PoolInvNext ==
  ASSUME NoEmptyJob
  PROVE  PoolInv /\ [SpiNext]_spiVars => PoolInv'
<1>1. ASSUME PoolInv, SpiNext PROVE PoolInv'
  <2>1. PICK b \in Bus : StepOf(b)
    BY <1>1, StepIs
  <2>2. /\ DataType' /\ LoopType' /\ LoopHolds' /\ Created'
        /\ Arranged(pool', AllLists')
    BY <1>1, <2>1, PoolStep
  <2>3. JobsLeft'
    BY <1>1, <2>1, JobsLeftStep
  <2> QED
    BY <2>2, <2>3, Zenon DEF PoolInv
<1>2. ASSUME PoolInv, UNCHANGED spiVars PROVE PoolInv'
  <2>1. AllLists' = AllLists
    BY <1>2, ListsKept DEF spiVars
  <2>2. UNCHANGED <<pool, job, obj, hw, loop>>
    BY <1>2 DEF spiVars
  <2>3. JobsLeft'
    BY <1>2, <2>1, <2>2 DEF PoolInv, JobsLeft, AtStep
  <2> QED
    BY <1>2, <2>1, <2>2, <2>3 DEF PoolInv, DataType, LoopType, LoopHolds, Created,
                             IsEmpty
<1> QED
  BY <1>1, <1>2
-----------------------------------------------------------------------------
\* What is in two lists, one after the other.
LEMMA ElementsConcat ==
  ASSUME NEW s \in Seq(Element), NEW w \in Seq(Element)
  PROVE  /\ s \o w \in Seq(Element) /\ Len(s \o w) = Len(s) + Len(w)
         /\ Len(s) \in Nat /\ Len(w) \in Nat
         /\ ElementsOf(s \o w) = ElementsOf(s) \union ElementsOf(w)
<1>1. /\ s \o w \in Seq(Element)
      /\ Len(s \o w) = Len(s) + Len(w)
      /\ Len(s) \in Nat /\ Len(w) \in Nat
      /\ \A i \in 1..Len(s) + Len(w) :
           (s \o w)[i] = IF i <= Len(s) THEN s[i] ELSE w[i - Len(s)]
  BY ConcatProperties, LenProperties
<1>2. /\ DOMAIN s = 1..Len(s) /\ DOMAIN w = 1..Len(w)
      /\ DOMAIN (s \o w) = 1..(Len(s) + Len(w))
  BY <1>1, LenProperties
<1>3. ElementsOf(s \o w) \subseteq ElementsOf(s) \union ElementsOf(w)
  BY <1>1, <1>2 DEF ElementsOf
<1>4. ElementsOf(s) \subseteq ElementsOf(s \o w)
  <2>1. ASSUME NEW i \in 1..Len(s)
        PROVE  i \in DOMAIN (s \o w) /\ (s \o w)[i] = s[i]
    BY <1>1, <1>2
  <2> QED
    BY <1>2, <2>1 DEF ElementsOf
<1>5. ElementsOf(w) \subseteq ElementsOf(s \o w)
  <2>1. ASSUME NEW i \in 1..Len(w)
        PROVE  /\ i + Len(s) \in DOMAIN (s \o w)
               /\ (s \o w)[i + Len(s)] = w[i]
    BY <1>1, <1>2
  <2> QED
    BY <1>2, <2>1 DEF ElementsOf
<1> QED
  BY <1>1, <1>3, <1>4, <1>5

\* A line is what runs and what waits.
LEMMA LineIs ==
  ASSUME PoolInv, NEW b \in Bus
  PROVE  /\ Line(b) = AllLists[RunPlace(b)] \o AllLists[WaitPlace(b)]
         /\ Line(b) \in Seq(Element)
         /\ Len(Line(b)) = pool.queue[b].numAlloc
         /\ ElementsOf(Line(b)) = ElementsOf(AllLists[RunPlace(b)]) \union
                                  ElementsOf(AllLists[WaitPlace(b)])
<1> DEFINE s == AllLists[RunPlace(b)]
           w == AllLists[WaitPlace(b)]
<1>1. s \in Seq(Element) /\ w \in Seq(Element)
  BY BusPlaces DEF PoolInv, Arranged, Lists
<1>2. Line(b) = s \o w
  BY ListsSay, Zenon DEF Line
<1>3. pool.queue[b].numAlloc = Len(w) + Len(s)
  BY DEF PoolInv, Arranged, Tells
<1> HIDE DEF s, w
<1>4. /\ s \o w \in Seq(Element)
      /\ Len(s \o w) = Len(s) + Len(w)
      /\ Len(s) \in Nat /\ Len(w) \in Nat
      /\ ElementsOf(s \o w) = ElementsOf(s) \union ElementsOf(w)
  BY <1>1, ElementsConcat
<1>5. Len(s) + Len(w) = Len(w) + Len(s)
  <2>1. \A k, l \in Nat : k + l = l + k
    OBVIOUS
  <2> QED
    BY <1>4, <2>1
<1> QED
  BY <1>2, <1>3, <1>4, <1>5, Zenon DEF s, w

\* Every element is in the free list or in a line.
LEMMA AllPlaced ==
  ASSUME PoolInv
  PROVE  /\ ElementsOf(Free \o Line(0) \o Line(1)) = Element
         /\ Len(Free) + Len(Line(0)) + Len(Line(1)) = PoolSize
<1>0. 0 \in Bus /\ 1 \in Bus
  BY DEF Bus
<1>1. AllLists \in Lists /\ Covering(AllLists)
  BY DEF PoolInv, Arranged
<1>2. Free = AllLists[0] /\ Free \in Seq(Element)
  BY <1>0, <1>1, ListsSay DEF FreePlace, Lists, Place
<1>3. /\ Line(0) \in Seq(Element) /\ Line(1) \in Seq(Element)
      /\ Len(Line(0)) = pool.queue[0].numAlloc
      /\ Len(Line(1)) = pool.queue[1].numAlloc
      /\ ElementsOf(Line(0)) = ElementsOf(AllLists[3]) \union ElementsOf(AllLists[1])
      /\ ElementsOf(Line(1)) = ElementsOf(AllLists[4]) \union ElementsOf(AllLists[2])
  <2>1. RunPlace(0) = 3 /\ RunPlace(1) = 4 /\ WaitPlace(0) = 1 /\ WaitPlace(1) = 2
    BY DEF RunPlace, WaitPlace
  <2> QED
    BY <1>0, <2>1, LineIs
<1>4. Len(Free) + Len(Line(0)) + Len(Line(1)) = PoolSize
  <2>1. Len(Free) = pool.numFreeElements
    BY <1>2 DEF PoolInv, Arranged, Tells, FreePlace
  <2>2. pool.numFreeElements + pool.queue[0].numAlloc + pool.queue[1].numAlloc
          = PoolSize
    BY DEF PoolInv, Arranged, Counted
  <2> QED
    BY <1>3, <2>1, <2>2
<1>5. ElementsOf(Free \o Line(0) \o Line(1)) =
        ElementsOf(Free) \union ElementsOf(Line(0)) \union ElementsOf(Line(1))
  <2>1. /\ Free \o Line(0) \in Seq(Element)
        /\ ElementsOf(Free \o Line(0)) = ElementsOf(Free) \union ElementsOf(Line(0))
    BY <1>2, <1>3, ElementsConcat
  <2> QED
    BY <1>3, <2>1, ElementsConcat
<1>6. \A z \in Place : ElementsOf(AllLists[z]) =
                         {AllLists[z][i] : i \in 1..Len(AllLists[z])}
  <2>1. \A z \in Place : DOMAIN AllLists[z] = 1..Len(AllLists[z])
    BY <1>1, LenProperties DEF Lists
  <2> QED
    BY <2>1 DEF ElementsOf
<1>7. \A z \in Place : ElementsOf(AllLists[z]) \subseteq Element
  <2>1. \A z \in Place : \A i \in 1..Len(AllLists[z]) : AllLists[z][i] \in Element
    BY <1>1, ElementOfSeq DEF Lists
  <2>2. SUFFICES ASSUME NEW z \in Place, NEW e \in ElementsOf(AllLists[z])
                 PROVE  e \in Element
    OBVIOUS
  <2>3. PICK i \in 1..Len(AllLists[z]) : e = AllLists[z][i]
    BY <1>6
  <2> QED
    BY <2>1, <2>3
<1>8. \A e \in Element : \E z \in Place : e \in ElementsOf(AllLists[z])
  BY <1>1, <1>6 DEF Covering
<1>9. UNION {ElementsOf(AllLists[z]) : z \in Place} =
        ElementsOf(Free) \union ElementsOf(Line(0)) \union ElementsOf(Line(1))
  <2>1. Place = {0, 1, 2, 3, 4}
    BY DEF Place
  <2> DEFINE E(z) == ElementsOf(AllLists[z])
  <2>2. UNION {E(z) : z \in Place} = E(0) \union E(1) \union E(2) \union E(3)
                                       \union E(4)
    <3> HIDE DEF E
    <3> QED
      BY <2>1
  <2> QED
    BY <1>2, <1>3, <2>2
<1> QED
  BY <1>4, <1>5, <1>7, <1>8, <1>9

\* A client is refused when the line of its bus is full or the elements left are
\* the reserve of the other bus, and not else.
LEMMA RefusedIs ==
  ASSUME PoolInv, loop.step \notin {"boot", "open"}, NEW b \in Bus
  PROVE  AllocElementRefused(pool, b) <=> ~Service!Room(b)
<1> DEFINE o == 1 - b
           a == pool.queue[b].numAlloc
           k == pool.queue[o].numAlloc
           f == pool.numFreeElements
<1>1. /\ pool \in ManagerData /\ AllLists \in Lists /\ Tells(pool, AllLists)
      /\ Counted(pool) /\ Created
  BY DEF PoolInv, Arranged
<1>2. o \in Bus
  BY BusPlaces
<1>3. /\ pool.queue[b].numReserved = reserveElements
      /\ pool.queue[o].numReserved = reserveElements
  BY <1>1, <1>2 DEF Created
<1>4. /\ a \in Nat /\ k \in Nat /\ f \in Nat /\ reserveElements \in Nat
      /\ maxElements \in Nat /\ reserveElements <= maxElements /\ PoolSize \in Nat
  BY <1>1, <1>2, DriverAssumption, QueueAssumption DEF ManagerData, QueueData
<1>5. /\ a <= maxElements /\ f + a + k = PoolSize
      /\ pool.numReserveElements = Undrawn(pool, b) + Undrawn(pool, o)
      /\ pool.numReserveElements <= f
  BY <1>1, CountedOf
<1>6. pool.pFreeElementHead = NULL <=> f = 0
  <2>1. f = Len(AllLists[FreePlace])
    BY <1>1 DEF Tells
  <2> QED
    BY <1>1, <2>1, BusPlaces, Ends DEF Tells
<1>7. Len(Line(b)) = a /\ Len(Line(o)) = k
  BY <1>2, LineIs
<1>8. Service!Room(b) <=>
        /\ a < maxElements
        /\ a + 1 + (IF k < reserveElements THEN reserveElements ELSE k) <= PoolSize
  BY <1>2, <1>7 DEF Service!Room, Service!Kept, Service!Other
<1>9. /\ Undrawn(pool, b) = IF a < reserveElements THEN reserveElements - a ELSE 0
      /\ Undrawn(pool, o) = IF k < reserveElements THEN reserveElements - k ELSE 0
  BY <1>3 DEF Undrawn
<1>10. AllocElementRefused(pool, b) <=>
         \/ f = 0
         \/ a = maxElements
         \/ a >= reserveElements /\ f = pool.numReserveElements
  BY <1>3, <1>6 DEF AllocElementRefused
<1> HIDE DEF a, k, f, o
<1>11. CASE a < reserveElements
  BY <1>4, <1>5, <1>8, <1>9, <1>10, <1>11
<1>12. CASE ~(a < reserveElements)
  BY <1>4, <1>5, <1>8, <1>9, <1>10, <1>12
<1> QED
  BY <1>11, <1>12

\* If no client queues an empty job, every element of the pool is in one place
\* only, and the counts and the tails say so; a client is refused only what its
\* bus may not have (drv_spi_static_sys_queue.c).
THEOREM SpiPoolSound ==
  ASSUME NoEmptyJob
  PROVE  SpiSpec => []PoolSound
<1>1. PoolInv => PoolSound
  <2> SUFFICES ASSUME PoolInv PROVE PoolSound
    OBVIOUS
  <2>1. pool \in ManagerData /\ Tells(pool, AllLists)
    BY DEF PoolInv, Arranged
  <2>2. /\ ElementsOf(Free \o Line(0) \o Line(1)) = Element
        /\ Len(Free) + Len(Line(0)) + Len(Line(1)) = PoolSize
    BY AllPlaced
  <2>3. AllLists \in Lists
    BY DEF PoolInv, Arranged
  <2>4. \A z \in Place : LastOf(AllLists[z]) = LastIn(AllLists[z])
    <3> TAKE z \in Place
    <3>1. AllLists[z] \in Seq(Element)
      BY <2>3 DEF Lists
    <3>2. AllLists[z] = <<>> <=> Len(AllLists[z]) = 0
      BY <3>1, EmptySeq
    <3> QED
      BY <3>2, Zenon DEF LastOf, LastIn
  <2>5. pool.pFreeElementTail = LastOf(Free) /\ pool.numFreeElements = Len(Free)
    BY <2>1, <2>4, ListsSay, BusPlaces DEF Tells, Bus
  <2>6. \A b \in Bus : /\ pool.queue[b].pTail = LastOf(Waiting(b))
                       /\ pool.queue[b].numAlloc = Len(Line(b))
    BY <2>1, <2>4, ListsSay, BusPlaces, LineIs DEF Tells
  <2>7. loop.step \notin {"boot", "open"} =>
          \A b \in Bus : AllocElementRefused(pool, b) <=> ~Service!Room(b)
    BY RefusedIs
  <2> QED
    BY <2>1, <2>2, <2>5, <2>6, <2>7 DEF PoolSound
<1>2. PoolInv /\ [SpiNext]_spiVars => PoolInv'
  BY PoolInvNext
<1> QED
  BY <1>1, <1>2, InitPool, PTL DEF SpiSpec
-----------------------------------------------------------------------------
\* The lines before and after a step.
LEMMA LinesAre ==
  ASSUME NEW b \in Bus
  PROVE  /\ Line(b) = AllLists[RunPlace(b)] \o AllLists[WaitPlace(b)]
         /\ Line(b)' = AllLists'[RunPlace(b)] \o AllLists'[WaitPlace(b)]
<1>1. Line(b) = AllLists[RunPlace(b)] \o AllLists[WaitPlace(b)]
  BY ListsSay, Zenon DEF Line
<1>2. AllLists'[WaitPlace(b)] = Waiting(b)'
  <2>1. /\ WaitPlace(b) \in Place /\ WaitPlace(b) # FreePlace
        /\ WaitPlace(b) \in {WaitPlace(0), WaitPlace(1)} /\ WaitPlace(b) - 1 = b
    BY DEF WaitPlace, Place, FreePlace, Bus
  <2> QED
    BY <2>1 DEF AllLists, ListsOf, Waiting
<1>3. AllLists'[RunPlace(b)] = Running(b)'
  <2>1. AllLists'[RunPlace(b)] =
          IF Current'[b] = NULL THEN <<>> ELSE <<Current'[b]>>
    BY RunningLists DEF AllLists
  <2>2. Current'[b] = obj'[b].currentJob
    BY DEF Current
  <2> QED
    BY <2>1, <2>2, Zenon DEF Running
<1> QED
  BY <1>1, <1>2, <1>3, Zenon DEF Line

\* An element appended to the second of two lists ends both.
LEMMA AppendAfter ==
  ASSUME NEW s \in Seq(Element), NEW w \in Seq(Element), NEW e \in Element
  PROVE  s \o Append(w, e) = Append(s \o w, e)
<1> DEFINE u == Append(w, e)
           v == s \o w
           a == s \o u
           c == Append(v, e)
<1>1. /\ u \in Seq(Element) /\ Len(u) = Len(w) + 1
      /\ \A i \in 1..Len(w) : u[i] = w[i]
      /\ u[Len(w) + 1] = e
  BY AppendProperties
<1>2. /\ v \in Seq(Element) /\ Len(v) = Len(s) + Len(w)
      /\ \A i \in 1..Len(s) + Len(w) :
           v[i] = IF i <= Len(s) THEN s[i] ELSE w[i - Len(s)]
  BY ConcatProperties
<1>3. /\ a \in Seq(Element) /\ Len(a) = Len(s) + Len(u)
      /\ \A i \in 1..Len(s) + Len(u) :
           a[i] = IF i <= Len(s) THEN s[i] ELSE u[i - Len(s)]
  BY <1>1, ConcatProperties
<1>4. /\ c \in Seq(Element) /\ Len(c) = Len(v) + 1
      /\ \A i \in 1..Len(v) : c[i] = v[i]
      /\ c[Len(v) + 1] = e
  BY <1>2, AppendProperties
<1>5. PICK k, l \in Nat : k = Len(s) /\ l = Len(w)
  BY LenProperties
<1> HIDE DEF a, c, u, v
<1>6. /\ Len(a) = k + l + 1 /\ Len(c) = k + l + 1
      /\ a \in Seq(Element) /\ c \in Seq(Element)
  <2>1. k + (l + 1) = k + l + 1
    OBVIOUS
  <2> QED
    BY <1>1, <1>2, <1>3, <1>4, <1>5, <2>1
<1>7. ASSUME NEW i \in 1..(k + l + 1)
      PROVE  a[i] = c[i]
  <2>1. a[i] = IF i <= k THEN s[i] ELSE u[i - k]
    BY <1>1, <1>3, <1>5
  <2>2. CASE i = k + l + 1
    <3>1. i - k = l + 1 /\ ~(i <= k)
      BY <2>2
    <3>2. u[l + 1] = e /\ c[k + l + 1] = e
      BY <1>1, <1>2, <1>4, <1>5
    <3> QED
      BY <2>1, <2>2, <3>1, <3>2
  <2>3. CASE i \in 1..(k + l)
    <3>1. c[i] = IF i <= k THEN s[i] ELSE w[i - k]
      <4>1. Len(v) = k + l /\ i \in 1..Len(s) + Len(w)
        BY <1>2, <1>5, <2>3
      <4>2. c[i] = v[i]
        BY <1>4, <2>3, <4>1
      <4>3. v[i] = IF i <= k THEN s[i] ELSE w[i - k]
        BY <1>2, <1>5, <4>1
      <4> QED
        BY <4>2, <4>3
    <3>2. ~(i <= k) => i - k \in 1..l
      BY <2>3
    <3>3. \A n \in 1..l : u[n] = w[n]
      BY <1>1, <1>5
    <3> QED
      BY <2>1, <3>1, <3>2, <3>3
  <2> QED
    BY <2>2, <2>3
<1>8. a = c
  BY <1>6, <1>7, SeqEqual
<1> QED
  BY <1>8 DEF a, c, u, v

\* A list of one element before another is that other with it before.
LEMMA OneBefore ==
  ASSUME NEW s \in Seq(Element), Len(s) = 1, NEW w \in Seq(Element)
  PROVE  /\ s \o w \in Seq(Element) /\ s \o w # <<>> /\ Len(s \o w) = Len(w) + 1
         /\ \A i \in 1..Len(w) : (s \o w)[i + 1] = w[i]
         /\ (s \o w)[1] = s[1]
         /\ Tail(s \o w) = w
<1> DEFINE v == s \o w
<1>1. /\ v \in Seq(Element) /\ Len(v) = Len(s) + Len(w)
      /\ \A i \in 1..Len(s) + Len(w) :
           v[i] = IF i <= Len(s) THEN s[i] ELSE w[i - Len(s)]
  BY ConcatProperties
<1>2. PICK l \in Nat : l = Len(w)
  BY LenProperties
<1> HIDE DEF v
<1>3. Len(v) = l + 1
  <2>1. 1 + l = l + 1
    OBVIOUS
  <2> QED
    BY <1>1, <1>2, <2>1
<1>4. /\ v[1] = s[1]
      /\ \A i \in 1..l : v[i + 1] = w[i]
  <2>1. \A i \in 1..(1 + l) : v[i] = IF i <= 1 THEN s[i] ELSE w[i - 1]
    BY <1>1, <1>2
  <2> QED
    BY <2>1
<1>5. v # <<>>
  BY <1>3, EmptySeq
<1>6. /\ Tail(v) \in Seq(Element) /\ Len(Tail(v)) = Len(v) - 1
      /\ \A i \in 1..Len(Tail(v)) : Tail(v)[i] = v[i + 1]
  BY <1>1, <1>5, HeadTailProperties
<1>7. Tail(v) = w
  <2>1. Len(Tail(v)) = Len(w)
    BY <1>2, <1>3, <1>6
  <2>2. \A i \in 1..Len(w) : Tail(v)[i] = w[i]
    BY <1>2, <1>4, <1>6, <2>1
  <2> QED
    BY <1>6, <2>1, <2>2, SeqEqual
<1> QED
  BY <1>1, <1>2, <1>3, <1>4, <1>5, <1>7 DEF v

\* Lists that stay leave the lines alone.
LEMMA LinesKept ==
  ASSUME AllLists' = AllLists
  PROVE  UNCHANGED [b \in Bus |-> Line(b)]
<1>1. \A b \in Bus : Line(b)' = Line(b)
  BY LinesAre, Zenon
<1> QED
  BY <1>1

\* A job accepted is put at the end of its line.
LEMMA LinesAdded ==
  ASSUME PoolInv, NEW b \in Bus, NEW j, BufferAdd(b, j), UNCHANGED obj,
         loop.step \notin {"boot", "open"}
  PROVE  \E e \in Element : Service!Accept(b, e)
<1> DEFINE e == ElementOf(pool)
           q == AllLists
           r == Moved(q, FreePlace, WaitPlace(b))
<1>1. Arranged(pool, q) /\ q \in Lists /\ Distinct(q)
  BY DEF PoolInv, Arranged
<1>2. /\ Len(q[FreePlace]) # 0 /\ e = q[FreePlace][1] /\ e \in Element
      /\ AllLists' = r
  BY <1>1, ListsAdded
<1>3. Service!Room(b)
  BY RefusedIs DEF BufferAdd
<1>4. /\ r[WaitPlace(b)] = Append(q[WaitPlace(b)], e)
      /\ r[RunPlace(b)] = q[RunPlace(b)]
      /\ \A c \in Bus \ {b} : /\ r[WaitPlace(c)] = q[WaitPlace(c)]
                              /\ r[RunPlace(c)] = q[RunPlace(c)]
  <2>1. r[WaitPlace(b)] = Append(q[WaitPlace(b)], e)
    BY <1>1, <1>2, BusPlaces DEF Moved, Lists
  <2>2. \A z \in Place \ {FreePlace, WaitPlace(b)} : r[z] = q[z]
    BY <1>1, <1>2, BusPlaces, MovedPositions
  <2>3. /\ RunPlace(b) \in Place \ {FreePlace, WaitPlace(b)}
        /\ \A c \in Bus \ {b} : /\ WaitPlace(c) \in Place \ {FreePlace, WaitPlace(b)}
                                /\ RunPlace(c) \in Place \ {FreePlace, WaitPlace(b)}
    BY BusPlaces DEF WaitPlace
  <2> HIDE DEF r, q
  <2> QED
    BY <2>1, <2>2, <2>3
<1> HIDE DEF r
<1>5. Line(b)' = Append(Line(b), e)
  <2>1. /\ Line(b) = q[RunPlace(b)] \o q[WaitPlace(b)]
        /\ Line(b)' = q[RunPlace(b)] \o Append(q[WaitPlace(b)], e)
    BY <1>2, <1>4, LinesAre, Zenon
  <2>2. q[RunPlace(b)] \in Seq(Element) /\ q[WaitPlace(b)] \in Seq(Element)
    BY <1>1, BusPlaces DEF Lists
  <2> HIDE DEF q, e
  <2> QED
    BY <1>2, <2>1, <2>2, AppendAfter
<1>6. \A c \in Bus \ {b} : Line(c)' = Line(c)
  BY <1>2, <1>4, LinesAre, Zenon
<1>7. \A c \in Bus : \A i \in 1..Len(Line(c)) : Line(c)[i] # e
  <2>1. SUFFICES ASSUME NEW c \in Bus, e \in ElementsOf(Line(c)) PROVE FALSE
    <3>1. \A c \in Bus : DOMAIN Line(c) = 1..Len(Line(c))
      BY LineIs, LenProperties
    <3> HIDE DEF e
    <3> QED
      BY <2>1, <3>1 DEF ElementsOf
  <2>2. e \in ElementsOf(q[RunPlace(c)]) \union ElementsOf(q[WaitPlace(c)])
    BY <2>1, LineIs
  <2>3. PICK z \in Place \ {FreePlace} : e \in ElementsOf(q[z])
    BY <2>2, BusPlaces
  <2>4. q[z] \in Seq(Element) /\ q[FreePlace] \in Seq(Element) /\ FreePlace \in Place
    BY <1>1, BusPlaces DEF Lists
  <2>5. PICK i \in 1..Len(q[z]) : q[z][i] = e
    BY <2>3, <2>4, LenProperties DEF ElementsOf
  <2>6. 1 \in 1..Len(q[FreePlace])
    <3>1. Len(q[FreePlace]) \in Nat
      BY <2>4, LenProperties
    <3> QED
      BY <1>2, <3>1
  <2> HIDE DEF q, e
  <2>7. q[FreePlace][1] = q[z][i]
    BY <1>2, <2>5
  <2> QED
    BY <1>1, <2>3, <2>4, <2>5, <2>6, <2>7 DEF Distinct
<1>8. ~Service!InLine(e)
  <2> HIDE DEF e
  <2> QED
    BY <1>7 DEF Service!InLine, Service!Bus, Bus
<1>9. [c \in Bus |-> Line(c)]' = [[c \in Bus |-> Line(c)] EXCEPT
                                    ![b] = Append(Line(b), e)]
  <2> HIDE DEF e
  <2> QED
    BY <1>5, <1>6
<1>10. Service!Accept(b, e)
  <2> HIDE DEF e
  <2> QED
    BY <1>3, <1>8, <1>9 DEF Service!Accept
<1> QED
  BY <1>2, <1>10

\* A job taken is still at the front of its line.
LEMMA LinesTaken ==
  ASSUME PoolInv, NEW b \in Bus, Take(b)
  PROVE  UNCHANGED [c \in Bus |-> Line(c)]
<1> DEFINE q == AllLists
           r == Moved(q, WaitPlace(b), RunPlace(b))
           w == q[WaitPlace(b)]
<1>1. /\ Arranged(pool, q) /\ q \in Lists
      /\ obj \in [Bus -> Object]
  BY DEF PoolInv, Arranged, DataType
<1>2. Len(w) # 0 /\ AllLists' = r
  BY <1>1, ListsTaken
<1>3. q[RunPlace(b)] = <<>>
  <2>1. Current[b] = NULL
    BY DEF Current, Take
  <2> QED
    BY <2>1, RunningLists, Zenon DEF AllLists
<1>4. /\ r[WaitPlace(b)] = Tail(w)
      /\ r[RunPlace(b)] = Append(<<>>, w[1])
      /\ \A c \in Bus \ {b} : /\ r[WaitPlace(c)] = q[WaitPlace(c)]
                              /\ r[RunPlace(c)] = q[RunPlace(c)]
  <2>1. /\ r[WaitPlace(b)] = Tail(w)
        /\ r[RunPlace(b)] = Append(q[RunPlace(b)], w[1])
    BY <1>1, BusPlaces DEF Moved, Lists
  <2>2. \A z \in Place \ {WaitPlace(b), RunPlace(b)} : r[z] = q[z]
    BY <1>1, <1>2, BusPlaces, MovedPositions
  <2>3. \A c \in Bus \ {b} : /\ WaitPlace(c) \in Place \ {WaitPlace(b), RunPlace(b)}
                             /\ RunPlace(c) \in Place \ {WaitPlace(b), RunPlace(b)}
    BY BusPlaces DEF WaitPlace
  <2> HIDE DEF r, q
  <2> QED
    BY <1>3, <2>1, <2>2, <2>3
<1>5. w \in Seq(Element)
  BY <1>1, BusPlaces DEF Lists
<1> HIDE DEF r, w
<1>6. /\ w[1] \in Element /\ w # <<>>
      /\ Tail(w) \in Seq(Element) /\ Len(Tail(w)) = Len(w) - 1
      /\ \A i \in 1..Len(Tail(w)) : Tail(w)[i] = w[i + 1]
      /\ Len(w) \in Nat
  <2>1. w # <<>> /\ Len(w) \in Nat
    BY <1>2, <1>5, EmptySeq, LenProperties
  <2>2. 1 \in 1..Len(w)
    BY <1>2, <2>1
  <2> QED
    BY <1>5, <2>1, <2>2, ElementOfSeq, HeadTailProperties
<1>7. /\ Append(<<>>, w[1]) \in Seq(Element) /\ Len(Append(<<>>, w[1])) = 1
      /\ Append(<<>>, w[1])[1] = w[1]
  BY <1>6
<1> DEFINE s == Append(<<>>, w[1])
           v == s \o Tail(w)
<1>8. /\ v \in Seq(Element) /\ Len(v) = Len(Tail(w)) + 1
      /\ \A i \in 1..Len(Tail(w)) : v[i + 1] = Tail(w)[i]
      /\ v[1] = s[1]
  BY <1>6, <1>7, OneBefore
<1>9. v = w
  <2> HIDE DEF v, s
  <2>1. PICK l \in Nat : l = Len(Tail(w)) /\ Len(w) = l + 1
    <3>1. PICK k \in Nat : k = Len(w)
      BY <1>6
    <3>2. k # 0 /\ Len(Tail(w)) = k - 1
      BY <1>2, <1>6, <3>1, Zenon
    <3>3. k - 1 \in Nat /\ k = (k - 1) + 1
      BY <3>2
    <3> QED
      BY <3>1, <3>2, <3>3, Zenon
  <2>2. ASSUME NEW i \in 1..(l + 1)
        PROVE  v[i] = w[i]
    <3>1. CASE i = 1
      BY <1>7, <1>8, <3>1 DEF s
    <3>2. CASE i # 1
      <4>1. i - 1 \in 1..l /\ (i - 1) + 1 = i
        BY <3>2
      <4>2. v[(i - 1) + 1] = Tail(w)[i - 1] /\ Tail(w)[i - 1] = w[(i - 1) + 1]
        BY <1>6, <1>8, <2>1, <4>1
      <4> QED
        BY <4>1, <4>2
    <3> QED
      BY <3>1, <3>2
  <2> QED
    BY <1>5, <1>8, <2>1, <2>2, SeqEqual
<1>10. Line(b)' = Line(b)
  <2>1. Line(b)' = v
    BY <1>2, <1>4, LinesAre, Zenon
  <2>2. Line(b) = <<>> \o w
    BY <1>3, LinesAre, Zenon DEF w
  <2>3. <<>> \o w = w
    BY <1>5, ConcatEmptySeq
  <2> QED
    BY <1>9, <2>1, <2>2, <2>3, Zenon
<1>11. \A c \in Bus \ {b} : Line(c)' = Line(c)
  BY <1>2, <1>4, LinesAre, Zenon
<1> QED
  BY <1>10, <1>11

\* A job that is over leaves the front of its line.
LEMMA LinesFreed ==
  ASSUME PoolInv, NEW b \in Bus, NEW e,
         obj[b].currentJob = e, e # NULL, obj'[b].currentJob = NULL,
         \A c \in Bus \ {b} : obj'[c] = obj[c],
         pool' = FreeElementLock(pool, b, e)
  PROVE  Service!End(b)
<1> DEFINE q == AllLists
           r == Moved(q, RunPlace(b), FreePlace)
           s == q[RunPlace(b)]
           w == q[WaitPlace(b)]
<1>1. /\ Arranged(pool, q) /\ q \in Lists
      /\ obj \in [Bus -> Object]
  BY DEF PoolInv, Arranged, DataType
<1>2. Len(s) = 1 /\ AllLists' = r
  BY <1>1, ListsFreed
<1>3. s \in Seq(Element) /\ w \in Seq(Element)
  BY <1>1, BusPlaces DEF Lists
<1>4. /\ r[RunPlace(b)] = <<>>
      /\ r[WaitPlace(b)] = w
      /\ \A c \in Bus \ {b} : /\ r[WaitPlace(c)] = q[WaitPlace(c)]
                              /\ r[RunPlace(c)] = q[RunPlace(c)]
  <2>1. r[RunPlace(b)] = Tail(s)
    BY <1>1, BusPlaces DEF Moved, Lists
  <2>2. \A z \in Place \ {FreePlace, RunPlace(b)} : r[z] = q[z]
    BY <1>1, <1>2, BusPlaces, MovedPositions
  <2>3. /\ WaitPlace(b) \in Place \ {FreePlace, RunPlace(b)}
        /\ \A c \in Bus \ {b} : /\ WaitPlace(c) \in Place \ {FreePlace, RunPlace(b)}
                                /\ RunPlace(c) \in Place \ {FreePlace, RunPlace(b)}
    BY BusPlaces DEF RunPlace
  <2> HIDE DEF r, s
  <2>4. Tail(s) = <<>>
    <3>1. s # <<>>
      <4>1. Len(<<>>) = 0 /\ 0 # 1
        BY EmptySeq
      <4> QED
        BY <1>2, <4>1, Zenon
    <3>2. Tail(s) \in Seq(Element) /\ Len(Tail(s)) = 0
      <4>1. Tail(s) \in Seq(Element) /\ Len(Tail(s)) = Len(s) - 1
        BY <1>3, <3>1, HeadTailProperties
      <4>2. 1 - 1 = 0
        OBVIOUS
      <4> QED
        BY <1>2, <4>1, <4>2, Zenon
    <3> QED
      BY <3>2, EmptySeq
  <2> HIDE DEF q
  <2> QED
    BY <2>1, <2>2, <2>3, <2>4 DEF w
<1> HIDE DEF r, s, w
<1>5. s \o w # <<>> /\ Tail(s \o w) = w
  BY <1>2, <1>3, OneBefore
<1>6. Line(b) # <<>> /\ Line(b)' = Tail(Line(b))
  <2>1. Line(b) = s \o w /\ Line(b)' = <<>> \o w
    BY <1>2, <1>4, LinesAre, Zenon DEF s, w
  <2>2. <<>> \o w = w
    BY <1>3, ConcatEmptySeq
  <2> QED
    BY <1>5, <2>1, <2>2, Zenon
<1>7. \A c \in Bus \ {b} : Line(c)' = Line(c)
  BY <1>2, <1>4, LinesAre, Zenon
<1> QED
  BY <1>6, <1>7 DEF Service!End

\* Every step of the driver is one of the service or none.
LEMMA ServiceStep ==
  ASSUME PoolInv, SpiNext
  PROVE  Service!Next \/ UNCHANGED [b \in Bus |-> Line(b)]
<1>1. PICK b \in Bus : StepOf(b)
  BY StepIs
<1>2. DataType /\ obj \in [Bus -> Object] /\ LoopHolds
  BY DEF PoolInv, DataType
<1>3. CASE QuietStep(b)
  BY <1>2, <1>3, QuietKeeps, ListsKept, LinesKept
<1>4. CASE InitializeInstance(b)
  BY <1>4, InstanceCreated, LinesKept
<1>5. CASE AddStep(b)
  <2>1. UNCHANGED obj /\ loop.step \notin {"boot", "open"}
    BY <1>5 DEF AddStep, Call, Callback, App, AtStep
  <2>2. PICK c \in Bus : \E j : BufferAdd(c, j)
    BY <1>5 DEF AddStep, Call, Callback
  <2>3. PICK j : BufferAdd(c, j)
    BY <2>2
  <2>4. \E e \in Element : Service!Accept(c, e)
    BY <2>1, <2>3, LinesAdded
  <2> QED
    BY <2>4 DEF Service!Next, Service!Bus, Bus
<1>6. CASE Take(b)
  BY <1>6, LinesTaken
<1>7. CASE Drop(b) \/ Finish(b)
  <2>1. loop.job # NULL /\ obj[b].currentJob = loop.job
    BY <1>2, <1>7 DEF Drop, Finish, AtStep, LoopHolds
  <2>2. pool' = FreeElementLock(pool, b, loop.job)
    BY <1>7 DEF Drop, Finish
  <2>3. obj'[b].currentJob = NULL /\ \A c \in Bus \ {b} : obj'[c] = obj[c]
    BY <1>2, <1>7 DEF Drop, Finish, Object
  <2>4. Service!End(b)
    BY <2>1, <2>2, <2>3, LinesFreed
  <2> QED
    BY <2>4 DEF Service!Next, Service!Bus, Bus
<1> QED
  BY <1>1, <1>3, <1>4, <1>5, <1>6, <1>7 DEF StepOf

\* If no client queues an empty job, the jobs of a bus end in the order they were
\* accepted, each once, and none is taken from the other bus: every step of the
\* driver is a step of the service or leaves its lines alone
\* (drv_spi_static_tasks.c).
THEOREM SpiJobsInOrder ==
  ASSUME NoEmptyJob
  PROVE  SpiSpec => JobsInOrder
<1>1. SpiInit => Service!Init
  <2> SUFFICES ASSUME SpiInit PROVE Service!Init
    OBVIOUS
  <2>1. PoolInv /\ pool = Initialize /\ \A b \in Bus : obj[b].currentJob = NULL
    BY InitPool DEF SpiInit, InitialObject
  <2>2. \A b \in Bus : Line(b) = <<>>
    <3> TAKE b \in Bus
    <3>1. pool.queue[b].numAlloc = 0
      BY <2>1, DriverAssumption DEF Initialize, NoQueue
    <3>2. Line(b) \in Seq(Element) /\ Len(Line(b)) = 0
      BY <2>1, <3>1, LineIs
    <3> QED
      BY <3>2, EmptySeq
  <2> QED
    BY <2>2 DEF Service!Init, Service!Bus, Bus
<1>2. PoolInv /\ [SpiNext]_spiVars => [Service!Next]_([b \in Bus |-> Line(b)])
  <2>1. ASSUME PoolInv, SpiNext
        PROVE  Service!Next \/ UNCHANGED [b \in Bus |-> Line(b)]
    BY <2>1, ServiceStep
  <2>2. ASSUME UNCHANGED spiVars
        PROVE  UNCHANGED [b \in Bus |-> Line(b)]
    <3>1. AllLists' = AllLists
      BY <2>2, ListsKept DEF spiVars
    <3> QED
      BY <3>1, LinesKept
  <2> QED
    BY <2>1, <2>2
<1>3. SpiInit => PoolInv
  BY InitPool
<1>4. PoolInv /\ [SpiNext]_spiVars => PoolInv'
  BY PoolInvNext
<1> QED
  BY <1>1, <1>2, <1>3, <1>4, PTL DEF SpiSpec, JobsInOrder, Service!Spec
-----------------------------------------------------------------------------
\* The selection through a step.
LEMMA SelectedStep ==
  ASSUME PoolInv, Selected, NEW b \in Bus, StepOf(b)
  PROVE  Selected'
<1> DEFINE Sel(o) == o.currentJob = NULL /\ o.operationEnded => ~o.sel
<1>1. /\ DataType /\ Created /\ LoopHolds /\ Arranged(pool, AllLists)
      /\ obj \in [Bus -> Object] /\ hw \in [Bus -> Hardware]
  BY DEF PoolInv, DataType
<1>2. \A c \in Bus : Sel(obj[c])
  BY DEF Selected
<1>3. SUFFICES Sel(obj'[b])
  <2>1. \A c \in Bus \ {b} : obj'[c] = obj[c]
    BY <1>1, OthersStay
  <2> QED
    BY <1>2, <1>3, <2>1, Zenon DEF Selected
<1>4. obj[b] \in Object
  BY <1>1
<1>5. CASE ClientConfigure(b)
  <2>1. PICK f, g \in BOOLEAN :
          obj' = [obj EXCEPT ![b] = [obj[b] EXCEPT !.operationStarting = f,
                                                   !.operationEnded = g]]
    BY <1>1, <1>5, ObjectSteps, Zenon
  <2>2. obj'[b].sel = obj[b].sel
    BY <1>1, <1>4, <2>1 DEF Object
  <2>3. ~obj[b].sel
    BY <1>1, <1>5 DEF ClientConfigure, AtStep, Created
  <2> QED
    BY <2>2, <2>3, Zenon
<1>6. CASE Take(b)
  <2> DEFINE s == obj[b].sel \/ obj[b].operationStarting
             e == pool.queue[b].pHead
  <2>1. obj' = [obj EXCEPT ![b] = [obj[b] EXCEPT !.currentJob = e,
                                     !.symbolsInProgress = 0, !.sel = s]]
    BY <1>1, <1>6, ObjectSteps, Zenon
  <2>2. e \in Element
    BY <1>1, <1>6, ListsTaken
  <2>3. e # NULL
    BY <2>2 DEF Element, NULL
  <2> HIDE DEF s, e
  <2>4. obj'[b].currentJob = e
    BY <1>1, <1>4, <2>1 DEF Object
  <2> QED
    BY <2>3, <2>4, Zenon
<1>7. CASE Drop(b) \/ Finish(b)
  <2> DEFINE s == obj[b].sel /\ ~obj[b].operationEnded
  <2>1. obj' = [obj EXCEPT ![b] = [obj[b] EXCEPT !.currentJob = NULL, !.sel = s]]
    BY <1>1, <1>7, ObjectSteps, Zenon
  <2>2. obj[b].operationEnded => ~s
    BY Zenon
  <2> HIDE DEF s
  <2>3. obj'[b].operationEnded = obj[b].operationEnded /\ obj'[b].sel = s
    BY <1>1, <1>4, <2>1 DEF Object
  <2> QED
    BY <2>2, <2>3, Zenon
<1>8. CASE MasterEBMSend8BitPolled(b) \/ MasterEBMReceive8BitPolled(b)
  <2>1. PICK n : obj' = [obj EXCEPT ![b].symbolsInProgress = n]
    <3>1. CASE MasterEBMSend8BitPolled(b)
      BY <3>1 DEF MasterEBMSend8BitPolled
    <3>2. CASE MasterEBMReceive8BitPolled(b)
      BY <3>2 DEF MasterEBMReceive8BitPolled
    <3> QED
      BY <1>8, <3>1, <3>2
  <2>2. /\ obj'[b].operationEnded = obj[b].operationEnded
        /\ obj'[b].sel = obj[b].sel /\ obj'[b].currentJob = obj[b].currentJob
    BY <1>1, <1>4, <2>1 DEF Object
  <2> QED
    BY <1>2, <2>2, Zenon
<1>9. CASE UNCHANGED obj
  BY <1>2, <1>9, Zenon
<1> HIDE DEF Sel
<1>10. CASE Start(b) \/ ExchangeFill(b) \/ ExchangeRead(b) \/ Shift(b)
  BY <1>9, <1>10 DEF Start, ExchangeFill, ExchangeRead, Shift
<1>11. CASE WriterStep(b)
  BY <1>1, <1>9, <1>11, WriterDoes
<1>12. CASE QuietStep(b)
  BY <1>5, <1>8, <1>9, <1>10, <1>11, <1>12, QuietIs
<1>13. CASE AddStep(b) \/ InitializeInstance(b)
  BY <1>9, <1>13 DEF AddStep, Call, Callback, InitializeInstance
<1> QED
  BY <1>6, <1>7, <1>12, <1>13 DEF StepOf

\* A job that waits stays balanced.
LEMMA WaitingStep ==
  ASSUME PoolInv, WaitingBalanced, NEW b \in Bus, StepOf(b)
  PROVE  WaitingBalanced'
<1>1. \A x \in Waiters(AllLists') :
        \/ x \in Waiters(AllLists) /\ job'[x] = job[x]
        \/ ToSend(job'[x]) = ToGet(job'[x])
  BY WaitersStep
<1> QED
  BY <1>1 DEF WaitingBalanced

\* What a symbol shifted, or sent by the interrupt, makes of the FIFOs.
LEMMA ReceivedIs ==
  ASSUME NEW h \in Hardware, NEW x \in 0..FifoSize, NEW n \in Nat
  PROVE  LET g == Received([h EXCEPT !.tx = x], n) IN
         /\ g.tx = x
         /\ h.rov => g.rov
         /\ ~h.rov /\ h.rx + n <= FifoSize => ~g.rov /\ g.rx = h.rx + n
<1> USE DriverAssumption
<1> DEFINE k == [h EXCEPT !.tx = x]
           v == k.rov \/ k.rx + n > FifoSize
<1>1. k \in Hardware /\ k.tx = x /\ k.rx = h.rx /\ k.rov = h.rov
  BY DEF Hardware
<1>2. h.rx \in Nat
  BY DEF Hardware
<1> HIDE DEF k
<1>3. /\ Received(k, n).tx = k.tx /\ Received(k, n).rov = v
      /\ Received(k, n).rx = leastOf(FifoSize, k.rx + n)
  <2>1. Received(k, n) = [k EXCEPT !.rx = leastOf(FifoSize, k.rx + n), !.rov = v]
    BY <1>1, Zenon DEF Received
  <2> HIDE DEF v
  <2> QED
    BY <1>1, <2>1 DEF Hardware
<1>4. h.rov => v
  BY <1>1, Zenon
<1>5. ~h.rov /\ h.rx + n <= FifoSize => ~v
  <2>1. h.rx + n <= FifoSize => ~(h.rx + n > FifoSize)
    BY <1>2
  <2> QED
    BY <1>1, <2>1, Zenon
<1>6. h.rx + n <= FifoSize => leastOf(FifoSize, h.rx + n) = h.rx + n
  BY <1>2 DEF leastOf
<1> HIDE DEF v
<1> QED
  BY <1>1, <1>3, <1>4, <1>5, <1>6, Zenon DEF k

\* What is received is no more in progress.
LEMMA ReceiveCounts ==
  ASSUME NEW s \in 0..255, NEW tx \in Nat, NEW rx \in Nat,
         NEW left \in Nat, NEW right \in Nat, NEW n \in Nat,
         tx + rx = s, tx + rx <= FifoSize, left + (tx + rx) = right,
         n <= rx, n <= right
  PROVE  /\ tx + (rx - n) = (s - n) % 256
         /\ tx + (rx - n) <= FifoSize
         /\ left + (tx + (rx - n)) = right - n
<1>1. s - n \in 0..255
  OBVIOUS
<1>2. (s - n) % 256 = s - n
  BY <1>1
<1> QED
  BY <1>2, DriverAssumption

-----------------------------------------------------------------------------
\* What is in a bus's FIFOs is left alone by the other bus.
LEMMA OtherFlows ==
  ASSUME PoolInv, Flows, NEW b \in Bus, StepOf(b), NEW c \in Bus, c # b
  PROVE  BusFlows(c)'
<1>1. /\ DataType /\ obj'[c] = obj[c] /\ hw'[c] = hw[c]
      /\ c \notin disturbed' => c \notin disturbed
  BY OthersStay, DisturbedStep DEF PoolInv, DataType
<1>2. AtStep(c, "exchange") => AtStep(c, "exchange")'
  <2>1. SUFFICES ASSUME AtStep(c, "exchange") PROVE loop' = loop
    BY DEF AtStep
  <2>2. loop.bus # b /\ loop.step # "app"
    BY <2>1 DEF AtStep
  <2> QED
    BY <1>1, <2>2, OtherLoop
<1>3. obj[c].currentJob # NULL => job'[obj[c].currentJob] = job[obj[c].currentJob]
  BY RunningStays
<1>4. BusFlows(c)
  BY DEF Flows
<1> QED
  BY <1>1, <1>2, <1>3, <1>4, Zenon DEF BusFlows, Flow

\* What is in them through a step of its own, outside an exchange.
LEMMA OwnFlows ==
  ASSUME SpiInv, NEW b \in Bus, StepOf(b), b \notin disturbed',
         ~AtStep(b, "exchange"), ~AtStep(b, "exchange")'
  PROVE  Flow(obj'[b], hw'[b], job'[obj'[b].currentJob])
<1> USE DriverAssumption
<1>1. /\ PoolInv /\ DataType /\ LoopType /\ LoopHolds /\ Created
      /\ Arranged(pool, AllLists) /\ WaitingBalanced /\ LoopCounts
      /\ job \in [Element -> Job] /\ obj \in [Bus -> Object]
      /\ hw \in [Bus -> Hardware]
  BY DEF SpiInv, PoolInv, DataType
<1>0. b \notin disturbed /\ ~WriterStep(b)
  BY <1>1, DisturbedStep, WriterDoes
<1>2. Flow(obj[b], hw[b], job[obj[b].currentJob])
  BY <1>0 DEF SpiInv, Flows, BusFlows
<1>3. /\ obj[b] \in Object /\ hw[b] \in Hardware
      /\ hw[b].tx \in Nat /\ hw[b].rx \in Nat
      /\ hw[b].tx \in 0..FifoSize
      /\ obj[b].symbolsInProgress \in 0..255
  <2>1. obj[b] \in Object /\ hw[b] \in Hardware
    BY <1>1
  <2>2. obj[b].symbolsInProgress \in 0..255
    BY <2>1 DEF Object
  <2>3. hw[b].tx \in 0..FifoSize /\ hw[b].rx \in 0..FifoSize
    BY <2>1 DEF Hardware
  <2> QED
    BY <2>1, <2>2, <2>3
<1>4. \A e \in Element : ToSend(job[e]) \in Nat /\ ToGet(job[e]) \in Nat
  BY <1>1 DEF Job, ToSend, ToGet
<1>5. CASE UNCHANGED <<obj, hw, job>>
  BY <1>2, <1>5, Zenon
<1>6. CASE AddStep(b)
  <2>1. obj' = obj /\ hw' = hw
    BY <1>1, <1>6, JobAdded
  <2>2. obj[b].currentJob # NULL => job'[obj[b].currentJob] = job[obj[b].currentJob]
    BY <1>1, <1>6, RunningStays
  <2> QED
    BY <1>2, <2>1, <2>2, Zenon DEF Flow
<1>7. CASE ClientConfigure(b)
  <2>1. PICK f, g \in BOOLEAN :
          obj' = [obj EXCEPT ![b] = [obj[b] EXCEPT !.operationStarting = f,
                                                   !.operationEnded = g]]
    BY <1>1, <1>7, ObjectSteps, Zenon
  <2>2. /\ obj'[b].symbolsInProgress = obj[b].symbolsInProgress
        /\ obj'[b].currentJob = obj[b].currentJob
    BY <1>1, <1>3, <2>1 DEF Object
  <2>3. job' = job /\ hw' = hw
    BY <1>7 DEF ClientConfigure
  <2> QED
    BY <1>2, <2>2, <2>3, Zenon DEF Flow
<1>8. CASE Take(b)
  <2> DEFINE s == obj[b].sel \/ obj[b].operationStarting
             e == pool.queue[b].pHead
  <2>1. obj' = [obj EXCEPT ![b] = [obj[b] EXCEPT !.currentJob = e,
                                     !.symbolsInProgress = 0, !.sel = s]]
    BY <1>1, <1>8, ObjectSteps, Zenon
  <2>2. e \in Element /\ ToSend(job[e]) = ToGet(job[e])
    <3>1. e \in Waiters(AllLists)
      BY <1>1, <1>8, WaitersStep
    <3> QED
      BY <1>1, <3>1 DEF WaitingBalanced, Waiters
  <2>3. e # NULL
    BY <2>2 DEF Element, NULL
  <2> HIDE DEF s, e
  <2>4. obj'[b].symbolsInProgress = 0 /\ obj'[b].currentJob = e
    BY <1>1, <1>3, <2>1 DEF Object
  <2>5. job' = job /\ hw' = hw /\ obj[b].currentJob = NULL
    BY <1>8 DEF Take
  <2>6. hw[b].tx + hw[b].rx = 0 /\ ~hw[b].rov
    BY <1>2, <2>5, Zenon DEF Flow
  <2>7. 0 <= FifoSize
    OBVIOUS
  <2>8. ToSend(job[e]) + 0 = ToGet(job[e])
    BY <1>4, <2>2
  <2> QED
    BY <2>3, <2>4, <2>5, <2>6, <2>7, <2>8, Zenon DEF Flow
<1>9. CASE Start(b)
  <2>1. loop.step = "starting" /\ loop.bus = b
    BY <1>9 DEF Start, AtStep
  <2>2. obj[b].symbolsInProgress = 0 /\ obj[b].currentJob # NULL
    BY <1>1, <2>1 DEF LoopCounts, LoopHolds
  <2>3. hw[b].tx + hw[b].rx = 0
    BY <1>2, <2>2, Zenon DEF Flow
  <2>4. hw[b].rx = 0
    BY <1>3, <2>3
  <2>5. obj' = obj /\ job' = job
    BY <1>9 DEF Start
  <2>6. hw'[b].tx = hw[b].tx /\ hw'[b].rx = hw[b].rx /\ hw'[b].rov = hw[b].rov
    BY <1>1, <1>9, <2>4 DEF Start, Hardware
  <2> QED
    BY <1>2, <2>5, <2>6, Zenon DEF Flow
<1>10. CASE MasterEBMSend8BitPolled(b)
  <2> DEFINE e == loop.job
  <2>1. e \in Element /\ obj[b].currentJob = e /\ obj'[b].currentJob = e
    BY <1>1, <1>10, SendDoes
  <2>2. PICK n \in Nat :
          /\ n <= RoomToSend(b) /\ n <= ToSend(job[e])
          /\ ToSend(job'[e]) = ToSend(job[e]) - n
          /\ ToGet(job'[e]) = ToGet(job[e])
          /\ obj'[b].symbolsInProgress = (obj[b].symbolsInProgress + n) % 256
          /\ hw'[b].tx = leastOf(FifoSize, hw[b].tx + n)
          /\ hw'[b].rx = hw[b].rx /\ hw'[b].rov = hw[b].rov
    BY <1>1, <1>10, SendDoes
  <2>3. e # NULL
    BY <2>1 DEF Element, NULL
  <2> HIDE DEF e
  <2>4. /\ hw[b].tx + hw[b].rx = obj[b].symbolsInProgress
        /\ hw[b].tx + hw[b].rx <= FifoSize /\ ~hw[b].rov
        /\ ToSend(job[e]) + (hw[b].tx + hw[b].rx) = ToGet(job[e])
    BY <1>2, <2>1, <2>3, Zenon DEF Flow
  <2>5. n <= (FifoSize - mostOf(obj[b].symbolsInProgress, hw[b].tx)) % 256
    BY <2>2 DEF RoomToSend
  <2>6. ToSend(job[e]) \in Nat /\ ToGet(job[e]) \in Nat
    BY <1>4, <2>1
  <2>7. /\ leastOf(FifoSize, hw[b].tx + n) + hw[b].rx
             = (obj[b].symbolsInProgress + n) % 256
        /\ leastOf(FifoSize, hw[b].tx + n) + hw[b].rx <= FifoSize
        /\ (ToSend(job[e]) - n) + (leastOf(FifoSize, hw[b].tx + n) + hw[b].rx)
             = ToGet(job[e])
    <3> DEFINE s == obj[b].symbolsInProgress
               tx == hw[b].tx
               rx == hw[b].rx
               left == ToSend(job[e])
               right == ToGet(job[e])
    <3>1. /\ s \in 0..255 /\ tx \in Nat /\ rx \in Nat /\ left \in Nat
          /\ right \in Nat /\ n \in Nat
          /\ tx + rx = s /\ tx + rx <= FifoSize /\ left + (tx + rx) = right
          /\ n <= (FifoSize - mostOf(s, tx)) % 256 /\ n <= left
      BY <1>3, <2>2, <2>4, <2>5, <2>6, Zenon
    <3> HIDE DEF s, tx, rx, left, right
    <3>2. /\ leastOf(FifoSize, tx + n) + rx = (s + n) % 256
          /\ leastOf(FifoSize, tx + n) + rx <= FifoSize
          /\ (left - n) + (leastOf(FifoSize, tx + n) + rx) = right
      <4>0. /\ s \in 0..255 /\ tx \in Nat /\ rx \in Nat /\ left \in Nat
            /\ right \in Nat /\ n \in Nat
            /\ tx + rx = s /\ tx + rx <= FifoSize /\ left + (tx + rx) = right
            /\ n <= left
        BY <3>1
      <4>1. mostOf(s, tx) = s
        BY <4>0 DEF mostOf
      <4>2. FifoSize - s \in 0..255
        BY <3>1
      <4>3. tx + n <= FifoSize /\ s + n <= FifoSize /\ s + n \in 0..255
        <5>1. n <= (FifoSize - s) % 256
          BY <3>1, <4>1, Zenon
        <5>2. (FifoSize - s) % 256 = FifoSize - s
          BY <4>2
        <5>3. n <= FifoSize - s
          BY <5>1, <5>2, Zenon
        <5> QED
          BY <3>1, <5>3
      <4>4. leastOf(FifoSize, tx + n) = tx + n /\ (s + n) % 256 = s + n
        BY <4>3, <4>0 DEF leastOf
      <4>5. /\ (tx + n) + rx = s + n /\ (tx + n) + rx <= FifoSize
            /\ (left - n) + ((tx + n) + rx) = right
        BY <4>0, <4>3
      <4> QED
        BY <4>4, <4>5, Zenon
    <3> QED
      BY <3>2, Zenon DEF s, tx, rx, left, right
  <2>8. /\ hw'[b].tx + hw'[b].rx = obj'[b].symbolsInProgress
        /\ hw'[b].tx + hw'[b].rx <= FifoSize
        /\ ToSend(job'[e]) + (hw'[b].tx + hw'[b].rx) = ToGet(job'[e])
    BY <2>2, <2>7, Zenon
  <2>9. ~hw'[b].rov
    BY <2>2, <2>4, Zenon
  <2> QED
    BY <2>1, <2>3, <2>8, <2>9, Zenon DEF Flow
<1>11. CASE MasterEBMReceive8BitPolled(b)
  <2> DEFINE e == loop.job
  <2>1. e \in Element /\ obj[b].currentJob = e /\ obj'[b].currentJob = e
    BY <1>1, <1>11, ReceiveDoes
  <2>2. PICK n \in Nat :
          /\ n <= hw[b].rx /\ n <= ToGet(job[e])
          /\ ToSend(job'[e]) = ToSend(job[e])
          /\ ToGet(job'[e]) = ToGet(job[e]) - n
          /\ obj'[b].symbolsInProgress = (obj[b].symbolsInProgress - n) % 256
          /\ hw'[b].rx = hw[b].rx - n
          /\ hw'[b].tx = hw[b].tx /\ hw'[b].rov = hw[b].rov
    BY <1>1, <1>11, ReceiveDoes
  <2>3. e # NULL
    BY <2>1 DEF Element, NULL
  <2> HIDE DEF e
  <2>4. /\ hw[b].tx + hw[b].rx = obj[b].symbolsInProgress
        /\ hw[b].tx + hw[b].rx <= FifoSize /\ ~hw[b].rov
        /\ ToSend(job[e]) + (hw[b].tx + hw[b].rx) = ToGet(job[e])
    BY <1>2, <2>1, <2>3, Zenon DEF Flow
  <2>6. ToSend(job[e]) \in Nat /\ ToGet(job[e]) \in Nat
    BY <1>4, <2>1
  <2>7. /\ hw[b].tx + (hw[b].rx - n) = (obj[b].symbolsInProgress - n) % 256
        /\ hw[b].tx + (hw[b].rx - n) <= FifoSize
        /\ ToSend(job[e]) + (hw[b].tx + (hw[b].rx - n)) = ToGet(job[e]) - n
    <3> DEFINE s == obj[b].symbolsInProgress
               tx == hw[b].tx
               rx == hw[b].rx
               left == ToSend(job[e])
               right == ToGet(job[e])
    <3>1. /\ s \in 0..255 /\ tx \in Nat /\ rx \in Nat /\ left \in Nat
          /\ right \in Nat /\ n \in Nat
          /\ tx + rx = s /\ tx + rx <= FifoSize /\ left + (tx + rx) = right
          /\ n <= rx /\ n <= right
      BY <1>3, <2>2, <2>4, <2>6, Zenon
    <3> HIDE DEF s, tx, rx, left, right
    <3>2. /\ tx + (rx - n) = (s - n) % 256
          /\ tx + (rx - n) <= FifoSize
          /\ left + (tx + (rx - n)) = right - n
      BY <3>1, ReceiveCounts
    <3> QED
      BY <3>2 DEF s, tx, rx, left, right
  <2>8. /\ hw'[b].tx + hw'[b].rx = obj'[b].symbolsInProgress
        /\ hw'[b].tx + hw'[b].rx <= FifoSize
        /\ ToSend(job'[e]) + (hw'[b].tx + hw'[b].rx) = ToGet(job'[e])
    BY <2>2, <2>7, Zenon
  <2>9. ~hw'[b].rov
    BY <2>2, <2>4, Zenon
  <2> QED
    BY <2>1, <2>3, <2>8, <2>9, Zenon DEF Flow
<1>12. CASE Drop(b)
  <2>1. loop.step = "dropping" /\ loop.bus = b
    BY <1>12 DEF Drop, AtStep
  <2>2. hw[b].rov
    BY <1>1, <2>1 DEF LoopCounts
  <2> QED
    BY <1>2, <2>2, Zenon DEF Flow
<1>13. CASE Finish(b)
  <2>1. /\ loop.step = "ending" /\ loop.bus = b /\ obj[b].currentJob # NULL
        /\ hw' = hw
    BY <1>1, <1>13 DEF Finish, AtStep, LoopHolds
  <2>2. obj[b].currentJob = loop.job /\ ToGet(job[loop.job]) = 0
    BY <1>1, <2>1 DEF LoopCounts, LoopHolds
  <2>3. loop.job \in Element
    BY <1>3, <2>1, <2>2 DEF Object, Pointer
  <2>4. ToSend(job[loop.job]) + (hw[b].tx + hw[b].rx) = 0 /\ ~hw[b].rov
    BY <1>2, <2>1, <2>2, Zenon DEF Flow
  <2>5. hw[b].tx + hw[b].rx = 0
    <3>1. \A k, l, m \in Nat : k + (l + m) = 0 => l + m = 0
      OBVIOUS
    <3> QED
      BY <1>3, <1>4, <2>3, <2>4, <3>1
  <2>6. obj'[b].currentJob = NULL
    BY <1>1, <1>13 DEF Finish, Object
  <2> QED
    BY <2>1, <2>4, <2>5, <2>6, Zenon DEF Flow
<1>14. CASE Shift(b)
  <2> DEFINE g == Received([hw[b] EXCEPT !.tx = hw[b].tx - 1], 1)
  <2>1. hw[b].tx > 0 /\ hw' = [hw EXCEPT ![b] = g] /\ obj' = obj /\ job' = job
    BY <1>14 DEF Shift
  <2>2. /\ hw[b].tx - 1 \in 0..FifoSize /\ 1 \in Nat
    BY <1>3, <2>1
  <2>3. obj[b].currentJob # NULL
    <3>1. hw[b].tx + hw[b].rx # 0
      BY <1>3, <2>1
    <3> QED
      BY <1>2, <3>1, Zenon DEF Flow
  <2>4. ~hw[b].rov /\ hw[b].tx + hw[b].rx <= FifoSize
    BY <1>2, <2>3, Zenon DEF Flow
  <2>5. hw[b].rx + 1 <= FifoSize
    BY <1>3, <2>1, <2>4
  <2>6. g.tx = hw[b].tx - 1 /\ ~g.rov /\ g.rx = hw[b].rx + 1
    BY <1>3, <2>2, <2>4, <2>5, ReceivedIs
  <2> HIDE DEF g
  <2>7. hw'[b] = g
    BY <1>1, <2>1
  <2>8. hw'[b].tx + hw'[b].rx = hw[b].tx + hw[b].rx
    <3>1. (hw[b].tx - 1) + (hw[b].rx + 1) = hw[b].tx + hw[b].rx
      BY <1>3
    <3> QED
      BY <2>6, <2>7, <3>1, Zenon
  <2>9. ~hw'[b].rov
    BY <2>6, <2>7, Zenon
  <2> QED
    BY <1>2, <2>1, <2>8, <2>9, Zenon DEF Flow
<1>15. ~ExchangeFill(b) /\ ~ExchangeRead(b)
  BY DEF ExchangeFill, ExchangeRead
<1>16. CASE QuietStep(b)
  BY <1>0, <1>5, <1>7, <1>9, <1>10, <1>11, <1>14, <1>15, <1>16, QuietIs
<1>17. CASE InitializeInstance(b)
  BY <1>5, <1>17 DEF InitializeInstance
<1> QED
  BY <1>6, <1>8, <1>12, <1>13, <1>16, <1>17 DEF StepOf

\* A blocking exchange leaves its bus quiet.
LEMMA ExchangeFlows ==
  ASSUME SpiInv, NEW b \in Bus, StepOf(b), b \notin disturbed',
         AtStep(b, "exchange"), ~AtStep(b, "exchange")'
  PROVE  Flow(obj'[b], hw'[b], job'[obj'[b].currentJob])
<1>1. /\ LoopType /\ LoopHolds /\ LoopCounts /\ hw \in [Bus -> Hardware]
      /\ b \notin disturbed /\ ~WriterStep(b)
  BY DisturbedStep, WriterDoes DEF SpiInv, PoolInv, DataType
<1>2. ExchangeEnds(b)
  <2>1. loop.step = "exchange" /\ loop.bus = b
    BY DEF AtStep
  <2>2. loop' # loop
    BY DEF AtStep
  <2>3. ~ExchangeFill(b) /\ ~ExchangeRead(b)
    <3>1. loop \in [bus : Bus, step : {"exchange"}, job : {NULL}, size : Nat,
                    txcounter : Nat, rxcounter : Nat]
      BY <1>1, <2>1 DEF LoopType, PassStep
    <3> QED
      BY <2>1, <3>1 DEF ExchangeFill, ExchangeRead, AtStep
  <2>4. ~Shift(b) /\ ~AddStep(b)
    BY <2>2 DEF Shift, AddStep, Call, Callback
  <2>5. ~(\/ ClientConfigure(b) \/ NothingToDo(b) \/ Resume(b) \/ Start(b)
          \/ MasterEBMSend8BitPolled(b) \/ NoError(b) \/ AnswerLost(b)
          \/ MasterEBMReceive8BitPolled(b) \/ ReceiveForNoJob(b))
    BY <2>1 DEF ClientConfigure, NothingToDo, Resume, Start,
      MasterEBMSend8BitPolled, NoError, AnswerLost, MasterEBMReceive8BitPolled,
      ReceiveForNoJob, AtStep
  <2>6. ~(EndOfTurn \/ (\E n \in ExchangeSizes : Exchange(b, n)))
    BY <2>1 DEF EndOfTurn, Exchange, App
  <2>7. ~(InitializeInstance(b) \/ Take(b) \/ Drop(b) \/ Finish(b))
    BY <2>1 DEF InitializeInstance, Take, Drop, Finish, AtStep
  <2> QED
    BY <1>1, <2>3, <2>4, <2>5, <2>6, <2>7, Zenon DEF StepOf, QuietStep
<1>3. /\ loop.bus = b /\ loop.step = "exchange" /\ loop.txcounter = loop.rxcounter
      /\ UNCHANGED <<obj, hw, job>>
  BY <1>2 DEF ExchangeEnds, AtStep
<1>4. obj[b].currentJob = NULL
  BY <1>1, <1>3 DEF LoopHolds
<1>5. /\ ~hw[b].rov /\ hw[b].tx + hw[b].rx = loop.txcounter - loop.rxcounter
  BY <1>1, <1>3, Zenon DEF LoopCounts
<1>6. loop.txcounter - loop.rxcounter = 0
  <2>1. loop.txcounter \in Nat
    BY <1>1, <1>3 DEF LoopType, PassStep
  <2> QED
    BY <1>3, <2>1
<1> QED
  BY <1>3, <1>4, <1>5, <1>6, Zenon DEF Flow

\* The FIFOs through a step.
LEMMA FlowsStep ==
  ASSUME SpiInv, NEW b \in Bus, StepOf(b)
  PROVE  Flows'
<1>1. PoolInv /\ Flows
  BY DEF SpiInv
<1>2. \A c \in Bus : c # b => BusFlows(c)'
  BY <1>1, OtherFlows
<1>3. BusFlows(b)'
  BY OwnFlows, ExchangeFlows, Zenon DEF BusFlows
<1> QED
  BY <1>2, <1>3 DEF Flows

\* Where a step leaves the main loop where it knows nothing of the counts.
LEMMA NoCounts ==
  ASSUME loop'.step \notin {"starting", "dropping", "ending", "exchange"}
  PROVE  LoopCounts'
BY DEF LoopCounts

\* What the main loop knows through a step.
LEMMA LoopCountsStep ==
  ASSUME SpiInv, NEW b \in Bus, StepOf(b)
  PROVE  LoopCounts'
<1> USE DriverAssumption
<1> DEFINE L == [bus : Bus, step : PassStep, job : Pointer]
           X == [bus : Bus, step : {"exchange"}, job : {NULL}, size : Nat,
                 txcounter : Nat, rxcounter : Nat]
<1>1. /\ PoolInv /\ DataType /\ LoopType /\ LoopHolds /\ LoopCounts
      /\ Arranged(pool, AllLists) /\ Flows
      /\ job \in [Element -> Job] /\ obj \in [Bus -> Object]
      /\ hw \in [Bus -> Hardware]
  BY DEF SpiInv, PoolInv, DataType
<1>a. /\ ~WriterStep(b) => disturbed' = disturbed
      /\ \A c : c \notin disturbed' => c \notin disturbed
  BY <1>1, DisturbedStep
<1>2. \A s \in {"boot", "open", "app", "tasks", "starting", "send", "errors",
                "dropping", "receive", "ending"} : s \in PassStep
  BY DEF PassStep
<1>3. CASE InitializeInstance(b)
  <2>1. loop \in L
    BY <1>1, <1>2, <1>3, LoopAt DEF InitializeInstance
  <2>2. loop'.step \in {"boot", "open"}
    BY <1>3, <1>2, <2>1, LoopTo DEF InitializeInstance, Bus
  <2> QED
    BY <2>2, NoCounts
<1>4. CASE ClientConfigure(b)
  <2>1. loop \in L
    BY <1>1, <1>2, <1>4, LoopAt DEF ClientConfigure
  <2>2. loop'.step \in {"open", "app"}
    <3>1. GoTo(1, "open") \/ loop' = App
      BY <1>4 DEF ClientConfigure
    <3>2. CASE GoTo(1, "open")
      BY <2>1, <3>2 DEF GoTo
    <3>3. CASE loop' = App
      BY <3>3 DEF App
    <3> QED
      BY <3>1, <3>2, <3>3
  <2> QED
    BY <2>2, NoCounts
<1>5. CASE NothingToDo(b)
  BY <1>5, LoopNext, NoCounts DEF NothingToDo
<1>6. CASE EndOfTurn
  BY <1>6, NoCounts DEF EndOfTurn, App, GoTo
<1>7. CASE ExchangeEnds(b)
  BY <1>7, NoCounts DEF ExchangeEnds
<1>8. CASE Finish(b)
  BY <1>8, LoopNext, NoCounts DEF Finish
<1>9. CASE Resume(b)
  BY <1>9, NoCounts DEF Resume
<1>10. CASE Start(b) \/ MasterEBMSend8BitPolled(b) \/ NoError(b) \/ Drop(b)
  <2>1. loop \in L
    BY <1>1, <1>2, <1>10, LoopAt DEF Start, MasterEBMSend8BitPolled, NoError, Drop
  <2>2. loop'.step \in {"send", "errors", "receive"}
    BY <1>10, <2>1 DEF Start, MasterEBMSend8BitPolled, NoError, Drop, GoTo
  <2> QED
    BY <2>2, NoCounts
<1>11. CASE Take(b)
  <2>1. loop'.bus = b /\ loop'.step = "starting"
    BY <1>11 DEF Take
  <2>2. obj'[b].symbolsInProgress = 0
    BY <1>1, <1>11 DEF Take, Object
  <2> QED
    BY <2>1, <2>2 DEF LoopCounts
<1>12. CASE AnswerLost(b)
  <2>1. loop \in L
    BY <1>1, <1>2, <1>12, LoopAt DEF AnswerLost
  <2>2. loop'.bus = b /\ loop'.step = "dropping"
    BY <1>12, <2>1 DEF AnswerLost, GoTo
  <2>3. hw'[b].rov
    BY <1>12, Zenon DEF AnswerLost
  <2> QED
    BY <2>2, <2>3 DEF LoopCounts
<1>14. CASE MasterEBMReceive8BitPolled(b)
  <2>1. loop \in L
    BY <1>1, <1>2, <1>14, LoopAt DEF MasterEBMReceive8BitPolled
  <2>2. PICK n \in Nat :
          /\ ToGet(job'[loop.job]) = ToGet(job[loop.job]) - n
          /\ IF ToGet(job[loop.job]) = n THEN GoTo(b, "ending") ELSE NextBus(b)
    BY <1>1, <1>14, ReceiveDoes
  <2>3. CASE ToGet(job[loop.job]) = n
    <3>1. loop'.bus = b /\ loop'.step = "ending" /\ loop'.job = loop.job
      BY <2>1, <2>2, <2>3 DEF GoTo
    <3>2. ToGet(job'[loop.job]) = 0
      BY <2>2, <2>3
    <3> QED
      BY <3>1, <3>2 DEF LoopCounts
  <2>4. CASE ToGet(job[loop.job]) # n
    BY <2>2, <2>4, LoopNext, NoCounts
  <2> QED
    BY <2>3, <2>4
<1>15. CASE AddStep(b)
  <2>1. UNCHANGED <<obj, hw, loop>>
    BY <1>1, <1>15, JobAdded
  <2>2. ASSUME loop.step = "ending"
        PROVE  job'[loop.job] = job[loop.job]
    <3>1. /\ loop.bus \in Bus /\ obj[loop.bus].currentJob = loop.job
          /\ loop.job # NULL
      BY <1>1, <2>2 DEF LoopHolds, LoopType
    <3> QED
      BY <1>1, <1>15, <3>1, RunningStays
  <2> QED
    BY <1>1, <1>a, <2>1, <2>2, Zenon DEF LoopCounts
<1>16. CASE \E n \in ExchangeSizes : Exchange(b, n)
  <2>1. PICK n \in Nat : Exchange(b, n)
    BY <1>16
  <2>2. /\ loop'.bus = b /\ loop'.step = "exchange" /\ loop'.size = n
        /\ loop'.txcounter = 0 /\ loop'.rxcounter = 0
        /\ hw' = hw /\ obj[b].currentJob = NULL /\ ~AtStep(b, "exchange")
    BY <2>1 DEF Exchange, AtStep, App
  <2>3. b \notin disturbed' => hw[b].tx + hw[b].rx = 0 /\ ~hw[b].rov
    BY <1>1, <1>a, <2>2, Zenon DEF Flows, BusFlows, Flow
  <2>4. 0 - 0 = 0 /\ 0 <= FifoSize /\ 0 <= 0 /\ 0 <= n
    OBVIOUS
  <2>5. LET c == loop'.bus IN
        /\ loop'.rxcounter <= loop'.txcounter /\ loop'.txcounter <= loop'.size
        /\ c \notin disturbed' =>
             ~hw'[c].rov /\ hw'[c].tx + hw'[c].rx = loop'.txcounter - loop'.rxcounter
                         /\ hw'[c].tx + hw'[c].rx <= FifoSize
    BY <2>2, <2>3, <2>4, Zenon
  <2> QED
    BY <2>2, <2>5 DEF LoopCounts
<1>17. ASSUME loop \in X, loop.bus = b,
              loop'.bus = b, loop'.step = "exchange",
              loop'.rxcounter <= loop'.txcounter, loop'.txcounter <= loop'.size,
              b \notin disturbed' =>
                ~hw'[b].rov /\ hw'[b].tx + hw'[b].rx = loop'.txcounter - loop'.rxcounter
                            /\ hw'[b].tx + hw'[b].rx <= FifoSize
       PROVE  LoopCounts'
  BY <1>17 DEF LoopCounts
<1>18. hw[b].tx \in Nat /\ hw[b].rx \in Nat /\ hw[b].tx \in 0..FifoSize
       /\ hw[b] \in Hardware
  <2>1. hw[b] \in Hardware
    BY <1>1
  <2>2. hw[b].tx \in 0..FifoSize /\ hw[b].rx \in 0..FifoSize
    BY <2>1 DEF Hardware
  <2> QED
    BY <2>1, <2>2
<1>19. ASSUME AtStep(b, "exchange")
       PROVE  /\ loop \in X /\ loop.bus = b /\ loop.step = "exchange"
              /\ loop.size \in Nat /\ loop.txcounter \in Nat /\ loop.rxcounter \in Nat
              /\ loop.rxcounter <= loop.txcounter /\ loop.txcounter <= loop.size
              /\ b \notin disturbed =>
                   ~hw[b].rov /\ hw[b].tx + hw[b].rx = loop.txcounter - loop.rxcounter
                              /\ hw[b].tx + hw[b].rx <= FifoSize
  <2>1. loop.bus = b /\ loop.step = "exchange"
    BY <1>19 DEF AtStep
  <2>2. loop \in X
    BY <1>1, <2>1 DEF LoopType, PassStep
  <2>3. loop.size \in Nat /\ loop.txcounter \in Nat /\ loop.rxcounter \in Nat
    BY <2>2
  <2>4. /\ loop.rxcounter <= loop.txcounter /\ loop.txcounter <= loop.size
        /\ b \notin disturbed =>
             ~hw[b].rov /\ hw[b].tx + hw[b].rx = loop.txcounter - loop.rxcounter
                        /\ hw[b].tx + hw[b].rx <= FifoSize
    BY <1>1, <2>1, Zenon DEF LoopCounts
  <2> QED
    BY <2>1, <2>2, <2>3, <2>4
<1>20. CASE ExchangeFill(b)
  <2> DEFINE units == leastOf(FifoSize, loop.size - loop.txcounter)
  <2>1. /\ AtStep(b, "exchange") /\ loop.txcounter = loop.rxcounter
        /\ loop.txcounter < loop.size /\ hw[b].tx = 0
        /\ hw' = [hw EXCEPT ![b].tx = units]
        /\ loop' = [loop EXCEPT !.txcounter = @ + units]
    BY <1>20 DEF ExchangeFill
  <2>2. units \in Nat /\ units <= FifoSize /\ loop.txcounter + units <= loop.size
    BY <1>19, <2>1 DEF leastOf
  <2> HIDE DEF units
  <2>3. /\ loop'.bus = b /\ loop'.step = "exchange" /\ loop'.size = loop.size
        /\ loop'.txcounter = loop.txcounter + units
        /\ loop'.rxcounter = loop.rxcounter
    BY <1>19, <2>1
  <2>4. hw'[b].tx = units /\ hw'[b].rx = hw[b].rx /\ hw'[b].rov = hw[b].rov
    BY <1>1, <2>1 DEF Hardware
  <2>5. loop'.rxcounter <= loop'.txcounter /\ loop'.txcounter <= loop'.size
    BY <1>19, <2>1, <2>2, <2>3
  <2>6. ASSUME b \notin disturbed'
        PROVE  /\ hw'[b].tx + hw'[b].rx = loop'.txcounter - loop'.rxcounter
               /\ hw'[b].tx + hw'[b].rx <= FifoSize
    <3>1. hw[b].tx + hw[b].rx = loop.txcounter - loop.rxcounter
      BY <1>19, <1>a, <2>1, <2>6, Zenon
    <3>2. hw[b].rx = 0
      BY <1>18, <1>19, <2>1, <3>1
    <3> QED
      BY <1>19, <2>1, <2>2, <2>3, <2>4, <3>2
  <2>7. b \notin disturbed' => ~hw'[b].rov
    BY <1>19, <1>a, <2>1, <2>4, Zenon
  <2> QED
    BY <1>17, <1>19, <2>1, <2>3, <2>5, <2>6, <2>7, Zenon
<1>21. CASE ExchangeRead(b)
  <2>1. /\ AtStep(b, "exchange") /\ loop.txcounter # loop.rxcounter
        /\ hw[b].rx > 0
        /\ hw' = [hw EXCEPT ![b].rx = @ - 1]
        /\ loop' = [loop EXCEPT !.rxcounter = @ + 1]
    BY <1>21 DEF ExchangeRead
  <2>2. /\ loop'.bus = b /\ loop'.step = "exchange" /\ loop'.size = loop.size
        /\ loop'.txcounter = loop.txcounter
        /\ loop'.rxcounter = loop.rxcounter + 1
    BY <1>19, <2>1
  <2>3. /\ hw'[b].tx = hw[b].tx /\ hw'[b].rx = hw[b].rx - 1
        /\ hw'[b].rov = hw[b].rov
    BY <1>1, <2>1 DEF Hardware
  <2>4. loop'.rxcounter <= loop'.txcounter /\ loop'.txcounter <= loop'.size
    BY <1>19, <2>1, <2>2
  <2>5. ASSUME b \notin disturbed'
        PROVE  /\ hw'[b].tx + hw'[b].rx = loop'.txcounter - loop'.rxcounter
               /\ hw'[b].tx + hw'[b].rx <= FifoSize
    <3>1. /\ hw[b].tx + hw[b].rx = loop.txcounter - loop.rxcounter
          /\ hw[b].tx + hw[b].rx <= FifoSize
      BY <1>19, <1>a, <2>1, <2>5, Zenon
    <3> QED
      BY <1>18, <1>19, <2>1, <2>2, <2>3, <3>1
  <2>6. b \notin disturbed' => ~hw'[b].rov
    BY <1>19, <1>a, <2>1, <2>3, Zenon
  <2> QED
    BY <1>17, <1>19, <2>1, <2>2, <2>4, <2>5, <2>6, Zenon
<1>22. ASSUME UNCHANGED <<obj, job, loop>>, hw[b].rov => hw'[b].rov,
              AtStep(b, "exchange") /\ b \notin disturbed' =>
                /\ hw'[b].tx + hw'[b].rx = hw[b].tx + hw[b].rx
                /\ ~hw'[b].rov
       PROVE  LoopCounts'
  <2>1. CASE loop.bus = b
    BY <1>1, <1>22, <1>a, <2>1, Zenon DEF LoopCounts, AtStep
  <2>2. CASE loop.bus # b
    <3>1. loop.bus \in Bus
      BY <1>1 DEF LoopType
    <3>2. hw'[loop.bus] = hw[loop.bus]
      BY <1>1, <2>2, <3>1, OthersStay
    <3> QED
      BY <1>1, <1>22, <1>a, <3>2, Zenon DEF LoopCounts
  <2> QED
    BY <2>1, <2>2
<1>23. CASE Shift(b)
  <2> DEFINE g == Received([hw[b] EXCEPT !.tx = hw[b].tx - 1], 1)
  <2>1. hw[b].tx > 0 /\ hw' = [hw EXCEPT ![b] = g] /\ UNCHANGED <<obj, job, loop>>
    BY <1>23 DEF Shift
  <2>2. hw[b].tx - 1 \in 0..FifoSize /\ 1 \in Nat
    BY <1>18, <2>1
  <2>3. /\ g.tx = hw[b].tx - 1
        /\ hw[b].rov => g.rov
        /\ ~hw[b].rov /\ hw[b].rx + 1 <= FifoSize => ~g.rov /\ g.rx = hw[b].rx + 1
    BY <1>18, <2>2, ReceivedIs
  <2> HIDE DEF g
  <2>4. hw'[b] = g
    BY <1>1, <2>1
  <2>5. ASSUME AtStep(b, "exchange"), b \notin disturbed'
        PROVE  hw'[b].tx + hw'[b].rx = hw[b].tx + hw[b].rx /\ ~hw'[b].rov
    <3>1. ~hw[b].rov /\ hw[b].tx + hw[b].rx <= FifoSize
      BY <1>19, <1>a, <2>5, Zenon
    <3>2. hw[b].rx + 1 <= FifoSize
      BY <1>18, <2>1, <3>1
    <3>3. g.rx = hw[b].rx + 1 /\ ~g.rov
      BY <2>3, <3>1, <3>2, Zenon
    <3>4. (hw[b].tx - 1) + (hw[b].rx + 1) = hw[b].tx + hw[b].rx
      BY <1>18
    <3> QED
      BY <2>3, <2>4, <3>3, <3>4, Zenon
  <2>6. hw[b].rov => hw'[b].rov
    BY <2>3, <2>4, Zenon
  <2> QED
    BY <1>22, <2>1, <2>5, <2>6, Zenon
<1>24. CASE WriterStep(b)
  <2>1. /\ UNCHANGED <<obj, job, loop>> /\ disturbed' = disturbed \union {b}
        /\ hw[b].rov => hw'[b].rov
    BY <1>1, <1>24, WriterDoes
  <2>2. b \in disturbed'
    BY <2>1
  <2> QED
    BY <1>22, <2>1, <2>2, Zenon
<1>25. CASE ReceiveForNoJob(b)
  <2>1. UNCHANGED <<obj, hw, job, loop, disturbed>>
    BY <1>25 DEF ReceiveForNoJob
  <2> QED
    BY <1>1, <2>1, Zenon DEF LoopCounts
<1> QED
  BY <1>3, <1>4, <1>5, <1>6, <1>7, <1>8, <1>9, <1>10, <1>11, <1>12, <1>14, <1>15,
     <1>16, <1>20, <1>21, <1>23, <1>24, <1>25, Zenon
  DEF StepOf, QuietStep

\* The whole invariant of the driver is inductive.
LEMMA SpiInvNext ==
  ASSUME NoEmptyJob
  PROVE  SpiInv /\ [SpiNext]_spiVars => SpiInv'
<1>1. ASSUME SpiInv, SpiNext PROVE SpiInv'
  <2>1. PICK b \in Bus : StepOf(b)
    BY <1>1, StepIs
  <2>2. PoolInv /\ Selected /\ WaitingBalanced /\ disturbed \subseteq SharedBus
    BY <1>1 DEF SpiInv
  <2>3. PoolInv'
    BY <1>1, <2>2, PoolInvNext
  <2>4. Selected' /\ WaitingBalanced'
    BY <2>1, <2>2, SelectedStep, WaitingStep
  <2>5. Flows' /\ LoopCounts'
    BY <1>1, <2>1, FlowsStep, LoopCountsStep
  <2>6. disturbed' \subseteq SharedBus
    BY <2>1, <2>2, DisturbedStep DEF PoolInv, DataType
  <2> QED
    BY <2>3, <2>4, <2>5, <2>6 DEF SpiInv
<1>2. ASSUME SpiInv, UNCHANGED spiVars PROVE SpiInv'
  <2>1. PoolInv'
    BY <1>2, PoolInvNext DEF SpiInv
  <2>2. AllLists' = AllLists
    BY <1>2, ListsKept DEF spiVars
  <2>3. /\ obj' = obj /\ job' = job /\ hw' = hw /\ loop' = loop
        /\ disturbed' = disturbed
    BY <1>2 DEF spiVars
  <2>4. /\ Selected' /\ WaitingBalanced' /\ LoopCounts'
        /\ disturbed' \subseteq SharedBus
    BY <1>2, <2>2, <2>3, Zenon
    DEF SpiInv, Selected, WaitingBalanced, LoopCounts
  <2>5. Flows'
    BY <1>2, <2>3, Zenon DEF SpiInv, Flows, BusFlows, AtStep
  <2> QED
    BY <2>1, <2>4, <2>5 DEF SpiInv
<1> QED
  BY <1>1, <1>2

\* The driver starts in it.
LEMMA InitSpi == SpiInit => SpiInv
<1> SUFFICES ASSUME SpiInit PROVE SpiInv
  OBVIOUS
<1>1. /\ PoolInv /\ pool = Initialize /\ loop.step = "boot" /\ disturbed = {}
      /\ \A b \in Bus : obj[b] = InitialObject
      /\ \A b \in Bus : hw[b].tx = 0 /\ hw[b].rx = 0 /\ hw[b].rov = FALSE
  <2>1. hw = [b \in Bus |-> [tx |-> 0, rx |-> 0, rov |-> FALSE]]
    BY DEF SpiInit
  <2>2. \A b \in Bus : hw[b].tx = 0 /\ hw[b].rx = 0 /\ hw[b].rov = FALSE
    BY <2>1
  <2>3. loop.step = "boot" /\ disturbed = {}
    BY DEF SpiInit
  <2>4. pool = Initialize /\ \A b \in Bus : obj[b] = InitialObject
    BY DEF SpiInit
  <2> QED
    BY <2>2, <2>3, <2>4, InitPool
<1>2. Selected
  <2>1. /\ InitialObject.operationStarting = FALSE
        /\ InitialObject.operationEnded = FALSE /\ InitialObject.sel = FALSE
    BY DEF InitialObject
  <2> QED
    BY <1>1, <2>1, Zenon DEF Selected
<1>3. WaitingBalanced
  <2>1. \A b \in Bus : AllLists[WaitPlace(b)] \in Seq(Element)
    BY <1>1, BusPlaces DEF PoolInv, Arranged, Lists
  <2>2. \A b \in Bus : pool.queue[b].pHead = NULL
    BY <1>1, DriverAssumption DEF Initialize, NoQueue
  <2>3. \A b \in Bus : Len(AllLists[WaitPlace(b)]) = 0
    <3>1. AllLists \in Lists /\ Tells(pool, AllLists)
      BY <1>1 DEF PoolInv, Arranged
    <3> QED
      BY <2>2, <3>1, BusPlaces, Ends DEF Tells
  <2>4. Waiters(AllLists) = {}
    BY <2>3 DEF Waiters
  <2> QED
    BY <2>4 DEF WaitingBalanced
<1>4. Flows
  <2>1. \A b \in Bus : obj[b].currentJob = NULL
    BY <1>1 DEF InitialObject
  <2>2. \A b \in Bus : hw[b].tx + hw[b].rx = 0 /\ ~hw[b].rov
    BY <1>1
  <2> QED
    BY <2>1, <2>2, Zenon DEF Flows, BusFlows, Flow
<1>5. LoopCounts
  BY <1>1 DEF LoopCounts
<1> QED
  BY <1>1, <1>2, <1>3, <1>4, <1>5 DEF SpiInv

\* If no client queues an empty job, a bus nothing else has written on never
\* loses an answer: what the instance counts in progress is what is in the FIFOs
\* and makes up for what is left of the job, and without a job the bus is quiet.
\* On every bus the slave of an ended job is released
\* (drv_spi_static_ebm_tasks.c).
THEOREM SpiSymbolsBalanced ==
  ASSUME NoEmptyJob
  PROVE  SpiSpec => []SymbolsBalanced
<1>1. SpiInv => SymbolsBalanced
  <2> SUFFICES ASSUME SpiInv PROVE SymbolsBalanced
    OBVIOUS
  <2>1. DataType /\ Selected /\ Flows /\ disturbed \subseteq SharedBus
    BY DEF SpiInv, PoolInv
  <2>2. job \in [Element -> Job] /\ \A b \in Bus : obj[b] \in Object /\ hw[b] \in Hardware
    BY <2>1 DEF DataType
  <2>3. ASSUME NEW b \in Bus, b \notin disturbed, ~AtStep(b, "exchange")
        PROVE  Flow(obj[b], hw[b], job[obj[b].currentJob])
    BY <2>1, <2>3, Zenon DEF Flows, BusFlows
  <2>4. \A e : ToSend(job[e]) = LeftToTx(e) /\ ToGet(job[e]) = LeftToRx(e)
    BY DEF ToSend, ToGet, LeftToTx, LeftToRx
  <2> HIDE DEF Flow
  <2>5. ASSUME NEW b \in Bus, b \notin disturbed, ~AtStep(b, "exchange")
        PROVE  /\ ~hw[b].rov
               /\ LET e == obj[b].currentJob
                      inFlight == hw[b].tx + hw[b].rx
                  IN IF e = NULL THEN inFlight = 0
                     ELSE /\ inFlight = obj[b].symbolsInProgress
                          /\ inFlight <= FifoSize
                          /\ LeftToTx(e) + inFlight = LeftToRx(e)
    BY <2>3, <2>4, <2>5, Zenon DEF Flow
  <2> QED
    BY <2>1, <2>2, <2>5, Zenon DEF SymbolsBalanced, Selected
<1>2. SpiInv /\ [SpiNext]_spiVars => SpiInv'
  BY SpiInvNext
<1> QED
  BY <1>1, <1>2, InitSpi, PTL DEF SpiSpec
=============================================================================
