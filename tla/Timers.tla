------------------------------- MODULE Timers -------------------------------
(***************************************************************************)
(* The static timer driver (drv_tmr_static.c, drv_tmr_mapping.c): three    *)
(* instances, 0 to 2 on TMR_ID_1 to 3, that share nothing; a behaviour is  *)
(* that of one of them.  A call of the main loop is the list of its        *)
(* accesses to the registers; between any two the counter may reach its    *)
(* period and the timer's interrupt may run.  Pulses has what hangs on     *)
(* timer 2's counter; what the handlers do is in Scheduler and Sound.      *)
(***************************************************************************)
EXTENDS Naturals, Sequences

CONSTANTS
  Modulus,      \* of the counter and the period, 2^16
  ResetPeriod,  \* set by the initialisation: 4999, 499, 999
  Values,       \* 32-bit values clients give for the counter or the period
  Prescales,    \* divisors clients give for the clock
  Indices,      \* indices clients open the driver with
  PeripheralFrequency,
  SyncTimers,   \* the instances whose clock may be asynchronous: timer 1's
  MaxCalls      \* bound of the model on the calls of a life

Instance == 0..2

\* TMR_PRESCALE, and what the hardware divides its clock by.
Divisor ==
  [VALUE_1 |-> 1, VALUE_2 |-> 2, VALUE_4 |-> 4, VALUE_8 |-> 8, VALUE_16 |-> 16,
   VALUE_32 |-> 32, VALUE_64 |-> 64, VALUE_256 |-> 256]
Prescale == DOMAIN Divisor

ASSUME TimersAssumption ==
  /\ Modulus \in Nat \ {0, 1} /\ ResetPeriod \in 1..(Modulus - 1)
  /\ Values \subseteq {n \in Nat : n % Modulus # 0}
  /\ Prescales \subseteq Prescale /\ Indices \subseteq Nat
  /\ PeripheralFrequency \in Nat
  /\ SyncTimers \subseteq Instance /\ MaxCalls \in Nat

VARIABLES
  instance,  \* the one this behaviour is of
  counter, pr, on,               \* TMRx, PRx, TON
  source, prescale,              \* where its clock is from and how it is divided
  flag, enabled,                 \* TxIF, TxIE
  Running,                       \* DRV_TMRx_Running
  todo,      \* the accesses left of the call under way
  handling,  \* in the interrupt's handler, after it cleared the flag
  calls,     \* the calls made
  ready      \* initialised

timer == <<counter, pr, on, source, prescale>>
timersVars ==
  <<instance, timer, flag, enabled, Running, todo, handling, calls, ready>>

ClockSource == {"internal", "external synchronous", "external asynchronous"}
Access == {"clear flag", "enable source", "disable source", "start", "stop",
           "running", "ready"} \union ClockSource \union Prescale

TimersTypeOK ==
  /\ instance \in Instance
  /\ counter \in 0..(Modulus - 1) /\ pr \in 1..(Modulus - 1)
  /\ on \in BOOLEAN /\ source \in ClockSource /\ prescale \in Prescale
  /\ flag \in BOOLEAN /\ enabled \in BOOLEAN /\ Running \in BOOLEAN
  /\ todo \in Seq(Access) /\ handling \in BOOLEAN /\ calls \in 0..MaxCalls
  /\ ready \in BOOLEAN

TimersInit ==
  /\ instance \in Instance
  /\ counter = 0 /\ pr = ResetPeriod /\ on = FALSE
  /\ source = "internal" /\ prescale = "VALUE_1"
  /\ flag = FALSE /\ enabled = FALSE /\ Running = FALSE
  /\ todo = <<>> /\ handling = FALSE /\ calls = 0 /\ ready = FALSE
-----------------------------------------------------------------------------
Idle == ready /\ todo = <<>> /\ ~handling

\* Before any interrupt is enabled.
Initialize(i, first_prescale) ==
  /\ ~ready /\ instance = i
  /\ on' = FALSE /\ source' = "internal" /\ prescale' = first_prescale
  /\ counter' = 0 /\ pr' = ResetPeriod
  /\ ready' = TRUE
  /\ UNCHANGED <<instance, flag, enabled, Running, todo, handling, calls>>

_Resume(resume) ==
  IF resume THEN <<"clear flag", "enable source", "start">> ELSE <<>>

_Suspend == IF Running THEN <<"disable source", "stop">> ELSE <<>>

\* Mutant: the flag is cleared before the timer is stopped.
StopClearFirst == <<"clear flag">> \o _Suspend \o <<"ready">>

StopCall == _Suspend \o <<"clear flag", "ready">>
StartCall == _Resume(TRUE) \o <<"running">>

\* A source the timer cannot have is refused, and nothing is selected.
_ClockSourceSet(s) ==
  IF s = "external asynchronous" /\ instance \notin SyncTimers THEN <<>> ELSE <<s>>

\* Nor is the prescaler then.
ClockAccesses(s, p) ==
  _ClockSourceSet(s) \o (IF _ClockSourceSet(s) = <<>> THEN <<>> ELSE <<p>>)

\* Mutant: the timer is started whether it ran or not.
ClockSetCallStarts(s, p) == _Suspend \o ClockAccesses(s, p) \o _Resume(TRUE)

ClockSetCall(s, p) == _Suspend \o ClockAccesses(s, p) \o _Resume(Running)

Call(i, accesses) ==
  /\ Idle /\ instance = i /\ calls < MaxCalls
  /\ todo' = accesses
  /\ calls' = calls + 1
  /\ UNCHANGED <<instance, timer, flag, enabled, Running, handling, ready>>

\* A call that is one access.
CounterSet(i, value) ==
  /\ Idle /\ instance = i /\ calls < MaxCalls
  /\ counter' = value % Modulus
  /\ calls' = calls + 1
  /\ UNCHANGED <<instance, pr, on, source, prescale, flag, enabled, Running,
                 todo, handling, ready>>

PeriodSet(i, value) ==
  /\ Idle /\ instance = i /\ calls < MaxCalls
  /\ pr' = value % Modulus
  /\ calls' = calls + 1
  /\ UNCHANGED <<instance, counter, on, source, prescale, flag, enabled, Running,
                 todo, handling, ready>>

\* The next access of the call under way.
AccessRegister ==
  /\ todo # <<>> /\ ~handling
  /\ LET a == Head(todo) IN
     /\ flag' = (flag /\ a # "clear flag")
     /\ enabled' = ((enabled \/ a = "enable source") /\ a # "disable source")
     /\ on' = ((on \/ a = "start") /\ a # "stop")
     /\ Running' = ((Running \/ a = "running") /\ a # "ready")
     /\ source' = IF a \in ClockSource THEN a ELSE source
     /\ prescale' = IF a \in Prescale THEN a ELSE prescale
  /\ todo' = Tail(todo)
  /\ UNCHANGED <<instance, counter, pr, handling, calls, ready>>

\* What the getters answer.
ClientStatus == IF Running THEN "RUNNING" ELSE "READY"
PrescalerGet ==
  LET prescale_value == Divisor[prescale]
  IN  CHOOSE p \in Prescale : Divisor[p] = prescale_value
CounterFrequencyGet == PeripheralFrequency \div Divisor[prescale]
CounterValueGet == counter
DividerRangeGet == [dividerMin |-> 2, dividerMax |-> Modulus]
-----------------------------------------------------------------------------
DRV_TMR0_Initialize == Initialize(0, "VALUE_8")
DRV_TMR0_Start == Call(0, StartCall)
DRV_TMR0_Stop == Call(0, StopCall)
DRV_TMR0_CounterValueSet == \E v \in Values : CounterSet(0, v)
DRV_TMR0_CounterClear == CounterSet(0, 0)
DRV_TMR0_PeriodValueSet == \E v \in Values : PeriodSet(0, v)
DRV_TMR0_ClockSet ==
  \E s \in ClockSource, p \in Prescales : Call(0, ClockSetCall(s, p))
DRV_TMR0_ClientStatus == ClientStatus
DRV_TMR0_PrescalerGet == PrescalerGet
DRV_TMR0_CounterFrequencyGet == CounterFrequencyGet
DRV_TMR0_CounterValueGet == CounterValueGet
DRV_TMR0_DividerRangeGet == DividerRangeGet

DRV_TMR1_Initialize == Initialize(1, "VALUE_2")
DRV_TMR1_Start == Call(1, StartCall)
DRV_TMR1_Stop == Call(1, StopCall)
DRV_TMR1_CounterValueSet == \E v \in Values : CounterSet(1, v)
DRV_TMR1_CounterClear == CounterSet(1, 0)
DRV_TMR1_PeriodValueSet == \E v \in Values : PeriodSet(1, v)
DRV_TMR1_ClockSet ==
  \E s \in ClockSource, p \in Prescales : Call(1, ClockSetCall(s, p))
DRV_TMR1_ClientStatus == ClientStatus
DRV_TMR1_PrescalerGet == PrescalerGet
DRV_TMR1_CounterFrequencyGet == CounterFrequencyGet
DRV_TMR1_CounterValueGet == CounterValueGet
DRV_TMR1_DividerRangeGet == DividerRangeGet

DRV_TMR2_Initialize == Initialize(2, "VALUE_4")
DRV_TMR2_Start == Call(2, StartCall)
DRV_TMR2_Stop == Call(2, StopCall)
DRV_TMR2_CounterValueSet == \E v \in Values : CounterSet(2, v)
DRV_TMR2_CounterClear == CounterSet(2, 0)
DRV_TMR2_PeriodValueSet == \E v \in Values : PeriodSet(2, v)
DRV_TMR2_ClockSet ==
  \E s \in ClockSource, p \in Prescales : Call(2, ClockSetCall(s, p))
DRV_TMR2_ClientStatus == ClientStatus
DRV_TMR2_PrescalerGet == PrescalerGet
DRV_TMR2_CounterFrequencyGet == CounterFrequencyGet
DRV_TMR2_CounterValueGet == CounterValueGet
DRV_TMR2_DividerRangeGet == DividerRangeGet

-----------------------------------------------------------------------------
\* drv_tmr_mapping.c: the handle is the index of the instance; an index that
\* is not one gives NULL, which is the handle of instance 0.
DRV_TMR_Open(index) == IF index \in Instance THEN index ELSE 0

DRV_TMR_Initialize(index) ==
  \/ index = 0 /\ DRV_TMR0_Initialize
  \/ index = 1 /\ DRV_TMR1_Initialize
  \/ index = 2 /\ DRV_TMR2_Initialize
DRV_TMR_Start(handle) ==
  \/ handle = 0 /\ DRV_TMR0_Start
  \/ handle = 1 /\ DRV_TMR1_Start
  \/ handle = 2 /\ DRV_TMR2_Start
DRV_TMR_Stop(handle) ==
  \/ handle = 0 /\ DRV_TMR0_Stop
  \/ handle = 1 /\ DRV_TMR1_Stop
  \/ handle = 2 /\ DRV_TMR2_Stop
DRV_TMR_CounterValueSet(handle) ==
  \/ handle = 0 /\ DRV_TMR0_CounterValueSet
  \/ handle = 1 /\ DRV_TMR1_CounterValueSet
  \/ handle = 2 /\ DRV_TMR2_CounterValueSet
DRV_TMR_CounterClear(handle) ==
  \/ handle = 0 /\ DRV_TMR0_CounterClear
  \/ handle = 1 /\ DRV_TMR1_CounterClear
  \/ handle = 2 /\ DRV_TMR2_CounterClear
DRV_TMR_ClockSet(handle) ==
  \/ handle = 0 /\ DRV_TMR0_ClockSet
  \/ handle = 1 /\ DRV_TMR1_ClockSet
  \/ handle = 2 /\ DRV_TMR2_ClockSet

\* They stop the timer, and it may be started again at once.
DRV_TMR_Close(handle) == DRV_TMR_Stop(handle)
DRV_TMR_Deinitialize(object) == DRV_TMR_Stop(object)

DRV_TMRx_PeriodValueSet ==
  DRV_TMR0_PeriodValueSet \/ DRV_TMR1_PeriodValueSet \/ DRV_TMR2_PeriodValueSet

DRV_TMR_ClientStatus(handle) ==
  CASE handle = 0 -> DRV_TMR0_ClientStatus
    [] handle = 1 -> DRV_TMR1_ClientStatus
    [] handle = 2 -> DRV_TMR2_ClientStatus
    [] OTHER -> "INVALID"
DRV_TMR_PrescalerGet(handle) ==
  CASE handle = 0 -> DRV_TMR0_PrescalerGet
    [] handle = 1 -> DRV_TMR1_PrescalerGet
    [] handle = 2 -> DRV_TMR2_PrescalerGet
    [] OTHER -> "none"
DRV_TMR_CounterFrequencyGet(handle) ==
  CASE handle = 0 -> DRV_TMR0_CounterFrequencyGet
    [] handle = 1 -> DRV_TMR1_CounterFrequencyGet
    [] handle = 2 -> DRV_TMR2_CounterFrequencyGet
    [] OTHER -> 0
DRV_TMR_CounterValueGet(handle) ==
  CASE handle = 0 -> DRV_TMR0_CounterValueGet
    [] handle = 1 -> DRV_TMR1_CounterValueGet
    [] handle = 2 -> DRV_TMR2_CounterValueGet
    [] OTHER -> 0
DRV_TMR_DividerRangeGet(handle) ==
  CASE handle = 0 -> DRV_TMR0_DividerRangeGet
    [] handle = 1 -> DRV_TMR1_DividerRangeGet
    [] handle = 2 -> DRV_TMR2_DividerRangeGet
    [] OTHER -> "none"
-----------------------------------------------------------------------------
\* A clock of the counter: it starts again after its period, and after its
\* last value when the period was set behind it.
CountClock ==
  /\ on
  /\ counter' = IF counter = pr THEN 0 ELSE (counter + 1) % Modulus
  /\ flag' = (flag \/ counter = pr)
  /\ UNCHANGED <<instance, pr, on, source, prescale, enabled, Running, todo,
                 handling, calls, ready>>

\* IntHandlerDrvTmrInstance0 to 2: they clear the flag, then do their work.
EnterHandler ==
  /\ flag /\ enabled /\ ~handling
  /\ flag' = FALSE
  /\ handling' = TRUE
  /\ UNCHANGED <<instance, timer, enabled, Running, todo, calls, ready>>

LeaveHandler ==
  /\ handling
  /\ handling' = FALSE
  /\ UNCHANGED <<instance, timer, flag, enabled, Running, todo, calls, ready>>

Client(handle) ==
  \/ DRV_TMR_Start(handle)
  \/ DRV_TMR_Close(handle)
  \/ DRV_TMR_ClockSet(handle)
  \/ DRV_TMR_CounterValueSet(handle)
  \/ DRV_TMR_CounterClear(handle)

TimersNext ==
  \/ \E index \in Indices : DRV_TMR_Initialize(index)
  \/ \E index \in Indices : DRV_TMR_Deinitialize(index)
  \/ \E index \in Indices : Client(DRV_TMR_Open(index))
  \/ DRV_TMRx_PeriodValueSet
  \/ AccessRegister
  \/ CountClock
  \/ EnterHandler
  \/ LeaveHandler

TimersSpec == TimersInit /\ [][TimersNext]_timersVars
-----------------------------------------------------------------------------
\* Between calls what the driver answers is the truth: it says running exactly
\* when the timer counts and its interrupt is enabled (Start, Stop and ClockSet
\* set the three in different orders, ClockSet by what Suspend returned), the
\* prescaler it says divides the clock, and the period is within the range of
\* dividers it says.
StatusTellsTruth ==
  Idle =>
    /\ DRV_TMR_ClientStatus(instance) = "RUNNING" <=> on
    /\ on <=> enabled
    /\ DRV_TMR_PrescalerGet(instance) = prescale
    /\ source = "internal" =>
         DRV_TMR_CounterFrequencyGet(instance) =
           PeripheralFrequency \div Divisor[DRV_TMR_PrescalerGet(instance)]
    /\ LET range == DRV_TMR_DividerRangeGet(instance) IN
       /\ pr + 1 \in range.dividerMin..range.dividerMax
       /\ DRV_TMR_CounterValueGet(instance) < range.dividerMax

\* Once Stop has returned no tick comes, and none is kept for later: the period
\* may end between any two of its accesses.
StoppedIsQuiet == todo = <<>> /\ ~Running => ~flag /\ ~handling
=============================================================================
