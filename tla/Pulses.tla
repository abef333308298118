------------------------------- MODULE Pulses -------------------------------
(***************************************************************************)
(* The output-compare driver (drv_oc_static.c, drv_oc_mapping.c) on timer  *)
(* 2's counter.  Its pin is the STEP input of a motor's driver, which the  *)
(* handler of the same timer raises once for each step it counts: the rod  *)
(* moves only if the pin was low.  The two outputs share nothing; a        *)
(* behaviour is that of one.                                               *)
(***************************************************************************)
EXTENDS Timers

CONSTANT PulseWidth  \* 200, of the modes that have one

ASSUME PulsesAssumption == PulseWidth \in 1..(Modulus - 1)

VARIABLES
  output,   \* 0 or 1, on OC_ID_2 or 3
  pin,      \* off: the port holds it low
  compare,  \* the counter at which the pin falls
  due,      \* the handler has not treated the motor yet
  changed,  \* history: a client has set the compare value
  clean     \* history: no tick was waiting when the pin was raised last

oc == <<output, pin, compare>>
pulses == <<oc, due, changed, clean>>

Output == 0..1

\* Mutant: the pin falls at the end of the pulse width.
InitializeAtWidth == pin = "off" /\ compare = PulseWidth

InitializeOC == pin = "off" /\ compare = 0

DRV_OC0_Initialize == output = 0 /\ InitializeOC
DRV_OC1_Initialize == output = 1 /\ InitializeOC
DRV_OC_Initialize(index) ==
  \/ index = 0 /\ DRV_OC0_Initialize
  \/ index = 1 /\ DRV_OC1_Initialize

PulsesInit ==
  /\ TimersInit
  /\ \E index \in Output : DRV_OC_Initialize(index)
  /\ due = FALSE /\ changed = FALSE /\ clean = TRUE
-----------------------------------------------------------------------------
\* Enabled, an output that was off raises its pin; one that is on goes on.
Enabled(p) == IF p = "off" THEN "high" ELSE p

OnCounter == Idle /\ instance = 1 /\ calls < MaxCalls

ByClient(i, level) ==
  /\ OnCounter /\ output = i
  /\ pin' = level
  /\ clean' = IF pin = "off" /\ level = "high" THEN ~flag ELSE clean
  /\ calls' = calls + 1
  /\ UNCHANGED <<instance, timer, flag, enabled, Running, todo, handling, ready,
                 output, compare, due, changed>>

CompareSet(i, compareValue) ==
  /\ OnCounter /\ output = i
  /\ compare' = compareValue % Modulus
  /\ changed' = TRUE
  /\ calls' = calls + 1
  /\ UNCHANGED <<instance, timer, flag, enabled, Running, todo, handling, ready,
                 output, pin, due, clean>>

DRV_OC0_Start == ByClient(0, Enabled(pin))
DRV_OC0_Stop == ByClient(0, "off")
DRV_OC0_CompareValuesSingleSet == \E v \in Values : CompareSet(0, v)
DRV_OC1_Start == ByClient(1, Enabled(pin))
DRV_OC1_Stop == ByClient(1, "off")
DRV_OC1_CompareValuesSingleSet == \E v \in Values : CompareSet(1, v)

DRV_OC_Start(drvIndex) ==
  \/ drvIndex = 0 /\ DRV_OC0_Start
  \/ drvIndex = 1 /\ DRV_OC1_Start
DRV_OC_Stop(handle) ==
  \/ handle = 0 /\ DRV_OC0_Stop
  \/ handle = 1 /\ DRV_OC1_Stop
DRV_OC_CompareValuesSingleSet(handle) ==
  \/ handle = 0 /\ DRV_OC0_CompareValuesSingleSet
  \/ handle = 1 /\ DRV_OC1_CompareValuesSingleSet

\* A step of the motor, by the handler of timer 2: stopped, then started.
Stepper_StartOC ==
  /\ instance = 1 /\ handling /\ due
  /\ pin' = Enabled("off")
  /\ clean' = ~flag
  /\ due' = FALSE
  /\ UNCHANGED <<timersVars, output, compare, changed>>

\* The pin falls when the counter comes to the compare value.
PinAfter ==
  IF pin = "high" /\ counter' # counter /\ counter' = compare THEN "low" ELSE pin

Timer ==
  /\ TimersNext
  /\ pin' = PinAfter
  /\ due' = (handling' /\ (due \/ ~handling))
  /\ UNCHANGED <<output, compare, changed, clean>>

PulsesNext ==
  \/ Timer
  \/ \E i \in Output : DRV_OC_Start(i)
  \/ \E i \in Output : DRV_OC_Stop(i)
  \/ \E i \in Output : DRV_OC_CompareValuesSingleSet(i)
  \/ Stepper_StartOC

PulsesSpec == PulsesInit /\ [][PulsesNext]_<<timersVars, pulses>>
-----------------------------------------------------------------------------
PulsesTypeOK ==
  /\ TimersTypeOK
  /\ output \in Output /\ pin \in {"off", "high", "low"}
  /\ compare \in 0..(Modulus - 1)
  /\ due \in BOOLEAN /\ changed \in BOOLEAN /\ clean \in BOOLEAN

\* Every step is a pulse of its own: when the handler comes to raise the pin,
\* the pulse of the step before is over, whatever was done meanwhile to the
\* counter, the period or the clock.  It rests on the compare value, at which
\* the pin falls before the tick of the next step can be served, and on the
\* handler not having been so late for its last step that a tick was waiting.
StepsArePulses == due /\ clean /\ ~changed /\ instance = 1 => pin # "high"
=============================================================================
