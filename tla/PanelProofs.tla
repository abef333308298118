---------------------------- MODULE PanelProofs ----------------------------
(***************************************************************************)
(* What holds of the panel for every converter, dead zone, hold and set of *)
(* tunes.                                                                  *)
(***************************************************************************)
EXTENDS Panel, SequenceTheorems, TLAPS

\* What the digital reading of a stick says.
LEMMA DigIsWay ==
  ASSUME NEW adc, NEW m
  PROVE  ADC_TO_DIG(adc, m) \in {"L", "R", "middle"}
BY DEF ADC_TO_DIG

\* One more read of an axis, for the counter and for the history.
LEMMA CountRange ==
  ASSUME NEW c \in 0..(CounterWord - 1), NEW o \in 0..(2 * Hold), NEW dig
  PROVE  /\ Count(c, dig) \in 0..(CounterWord - 1)
         /\ CountOut(o, dig) \in 0..(2 * Hold)
<1>1. (c + 1) % CounterWord \in 0..(CounterWord - 1)
  BY JoystickAssumption
<1> QED
  BY <1>1, JoystickAssumption DEF Count, CountOut

(***************************************************************************)
(* Types.  A step of the sticks, then one of the tune.                     *)
(***************************************************************************)
LEMMA SpeedType ==
  ASSUME JoystickTypeOK, NEW adc \in 0..MaxADC, ADC_TO_SPEED(adc)
  PROVE  direction' \in Direction /\ speed' \in 0..5
<1>1. CASE KeepGoingDown(adc)
  BY <1>1 DEF KeepGoingDown, Limited, Direction
<1>2. CASE KeepGoingUp(adc)
  BY <1>2 DEF KeepGoingUp, Limited, Direction
<1>3. CASE ComeToRest(adc) \/ SetOut(adc)
  BY <1>3 DEF ComeToRest, SetOut, Direction, JoystickTypeOK
<1> QED
  BY <1>1, <1>2, <1>3 DEF ADC_TO_SPEED

\* A reading of the sticks keeps the types.
LEMMA ScanType ==
  ASSUME JoystickTypeOK, NEW adc1, NEW adc2, Scan_X_AXIS(adc1, adc2)
  PROVE  /\ ctr_joystick1' \in 0..(CounterWord - 1)
         /\ ctr_joystick2' \in 0..(CounterWord - 1)
         /\ raised' \subseteq Gesture
         /\ out' \in [{"Y1", "Y2"} -> 0..(2 * Hold)]
<1> DEFINE d1 == ADC_TO_DIG(adc1, CentreY)
           d2 == ADC_TO_DIG(adc2, CentreY)
           n1 == Count(ctr_joystick1, d1)
           n2 == Count(ctr_joystick2, d2)
<1>1. /\ d1 \in {"L", "R", "middle"}
      /\ d2 \in {"L", "R", "middle"}
  BY DigIsWay
<1>2. /\ n1 \in 0..(CounterWord - 1) /\ CountOut(out.Y1, d1) \in 0..(2 * Hold)
      /\ n2 \in 0..(CounterWord - 1) /\ CountOut(out.Y2, d2) \in 0..(2 * Hold)
  BY CountRange DEF JoystickTypeOK
<1>3. Held(n1, n2) => d1 # "middle" /\ d2 # "middle"
  BY JoystickAssumption DEF Held, Count
<1> HIDE DEF d1, d2, n1, n2
<1>4. CASE Held(n1, n2)
  <2>1. /\ ctr_joystick1' = 0 /\ ctr_joystick2' = 0
        /\ raised' = raised \union {<<d1, d2>>}
        /\ out' = [a \in {"Y1", "Y2"} |-> 0]
    BY <1>4 DEF Scan_X_AXIS, d1, d2, n1, n2
  <2>2. <<d1, d2>> \in Gesture
    BY <1>1, <1>3, <1>4 DEF Gesture
  <2> QED
    BY <2>1, <2>2, JoystickAssumption DEF JoystickTypeOK
<1>5. CASE ~Held(n1, n2)
  <2>1. /\ ctr_joystick1' = n1 /\ ctr_joystick2' = n2
        /\ raised' = raised
        /\ out' = [Y1 |-> CountOut(out.Y1, d1), Y2 |-> CountOut(out.Y2, d2)]
    BY <1>5 DEF Scan_X_AXIS, d1, d2, n1, n2
  <2> QED
    BY <1>2, <2>1 DEF JoystickTypeOK
<1> QED
  BY <1>4, <1>5

\* The table of notes keeps its type.
LEMMA NotesType ==
  ASSUME SoundTypeOK, NEW t \in Seq(Note), NEW k
  PROVE  Over(t, k) \in [1..4 -> Nat]
<1>1. ASSUME NEW n \in 1..4, n <= Len(t)
      PROVE  t[n] \in Nat
  BY <1>1 DEF Note
<1> QED
  BY <1>1 DEF Over, SoundTypeOK

\* A tick of the tune keeps the types.
LEMMA TickType ==
  ASSUME SoundTypeOK, Play_Sound_1_Tick
  PROVE  SoundTypeOK'
<1>1. /\ nb_note' \in 0..4 /\ current_note' \in 1..5
      /\ sound_for_a_tick' = FALSE
      /\ UNCHANGED <<frequency_note, minormax, written, tune>>
  BY DEF SoundTypeOK, Play_Sound_1_Tick, Clamped, LastNoteOver
<1>2. period' \in Period
  <2>1. \A note \in Nat : Pitch(note) \in Period
    BY SoundAssumption DEF Pitch, Period
  <2> QED
    BY <2>1 DEF SoundTypeOK, Play_Sound_1_Tick, Audio_SetFrequency
<1>3. amp' \in BOOLEAN
  BY Zenon DEF SoundTypeOK, Play_Sound_1_Tick, AmpOff
<1>4. heard' \in Seq(Period)
  BY <1>2 DEF SoundTypeOK, Play_Sound_1_Tick
<1> QED
  BY <1>1, <1>2, <1>3, <1>4, Zenon DEF SoundTypeOK

\* So does a field of the first tune.
LEMMA FirstTuneType ==
  ASSUME SoundTypeOK, WriteFirstTune
  PROVE  SoundTypeOK'
<1>1. frequency_note' \in [1..4 -> Nat]
  BY NotesType, SoundAssumption DEF WriteFirstTune
<1>2. /\ written' \in 0..(Len(FirstTune) + 2)
      /\ nb_note' \in 0..4
  BY SoundAssumption DEF SoundTypeOK, WriteFirstTune
<1>3. sound_for_a_tick' \in BOOLEAN
  BY Zenon DEF SoundTypeOK, WriteFirstTune, FlagWritten
<1> QED
  BY <1>1, <1>2, <1>3 DEF SoundTypeOK, WriteFirstTune

\* So does a tune of the menu.
LEMMA AskTuneType ==
  ASSUME SoundTypeOK, NEW t \in Tunes, AskTune(t)
  PROVE  SoundTypeOK'
<1>1. t \in Seq(Note) /\ Len(t) \in 1..4
  BY SoundAssumption
<1>2. frequency_note' \in [1..4 -> Nat]
  BY <1>1, NotesType DEF AskTune
<1>3. nb_note' \in 0..4 /\ tune' \in Seq(Note) /\ sound_for_a_tick' = TRUE
  BY <1>1 DEF AskTune
<1> QED
  BY <1>2, <1>3, Zenon DEF SoundTypeOK, AskTune

\* The types of the panel: a speed is 0 to 5, the notes stay within the tune.
THEOREM PanelTypeCorrect == Spec => []TypeOK
<1>1. Init => TypeOK
  <2> SUFFICES ASSUME Init PROVE TypeOK
    OBVIOUS
  <2>1. JoystickTypeOK
    BY JoystickAssumption
    DEF Init, JoystickInit, JoystickTypeOK, Direction, Gesture
  <2>2. SoundTypeOK
    <3>1. FirstTune \in Seq(Note) /\ Len(FirstTune) \in 1..4
      BY SoundAssumption
    <3>2. frequency_note \in [1..4 -> Nat] /\ heard \in Seq(Period)
      BY DEF Init, SoundInit
    <3>3. /\ nb_note \in 0..4 /\ current_note \in 1..5 /\ period \in Period
          /\ written \in 0..(Len(FirstTune) + 2) /\ tune \in Seq(Note)
      BY <3>1, SoundAssumption DEF Init, SoundInit
    <3>4. /\ sound_for_a_tick \in BOOLEAN /\ amp \in BOOLEAN
          /\ minormax \in BOOLEAN
      BY Zenon DEF Init, SoundInit
    <3> QED
      BY <3>2, <3>3, <3>4, Zenon DEF SoundTypeOK
  <2> QED
    BY <2>1, <2>2 DEF Init, TypeOK
<1>2. TypeOK /\ [Next]_vars => TypeOK'
  <2> SUFFICES ASSUME TypeOK, [Next]_vars PROVE TypeOK'
    OBVIOUS
  <2>1. JoystickTypeOK /\ SoundTypeOK
    BY DEF TypeOK
  <2>2. ASSUME UNCHANGED stickVars PROVE JoystickTypeOK'
    BY <2>1, <2>2 DEF JoystickTypeOK, stickVars, rod, scan
  <2>3. ASSUME UNCHANGED soundVars PROVE SoundTypeOK'
    BY <2>1, <2>3, Zenon DEF SoundTypeOK, soundVars, data
  <2>4. CASE AskTasks
    BY <2>1, <2>2, <2>4, TickType DEF AskTasks, TypeOK
  <2>5. CASE AskReadAdc
    BY <2>2, <2>3, <2>5 DEF AskReadAdc, TypeOK
  <2>6. CASE SERVICE_READ_ADC
    <3>1. adcRes_X' \in 0..MaxADC /\ mid' = mid /\ appState' = "WAIT"
      BY <2>6, JoystickAssumption DEF SERVICE_READ_ADC, InHandler
    <3>2. direction' \in Direction /\ speed' \in 0..5
      BY <2>1, <2>6, <3>1, SpeedType DEF SERVICE_READ_ADC
    <3>3. JoystickTypeOK'
      BY <2>1, <2>6, <3>1, <3>2, ScanType DEF SERVICE_READ_ADC, JoystickTypeOK
    <3> QED
      BY <2>3, <2>6, <3>1, <3>3 DEF SERVICE_READ_ADC, TypeOK
  <2>7. CASE SERVICE_TASKS
    <3>1. JoystickTypeOK'
      BY <2>1, <2>7 DEF SERVICE_TASKS, JoystickTypeOK, Direction
    <3>2. SoundTypeOK'
      BY <2>1, <2>3, <2>7, AskTuneType DEF SERVICE_TASKS
    <3> QED
      BY <2>7, <3>1, <3>2 DEF SERVICE_TASKS, InHandler, TypeOK
  <2>8. CASE FirstTuneStep
    BY <2>1, <2>2, <2>8, FirstTuneType DEF FirstTuneStep, TypeOK
  <2>9. CASE Swing
    <3>1. SoundTypeOK'
      BY <2>1, <2>9, Zenon
      DEF Swing, dac_ad5620_generate_pulse, SoundTypeOK, data
    <3> QED
      BY <2>2, <2>9, <3>1 DEF Swing, TypeOK
  <2>10. CASE UNCHANGED vars
    BY <2>2, <2>3, <2>10 DEF vars, TypeOK
  <2> QED
    BY <2>4, <2>5, <2>6, <2>7, <2>8, <2>9, <2>10 DEF Next, MainLoop
<1> QED
  BY <1>1, <1>2, PTL DEF Spec
-----------------------------------------------------------------------------
(***************************************************************************)
(* The speed.  The thresholds above the centre never wrap around; those    *)
(* below it do not for a centre no lower than the dead zone.               *)
(***************************************************************************)
LEMMA Thresholds ==
  ASSUME JoystickTypeOK
  PROVE  /\ upper_stop = mid + DEAD_ZONE_JOYSTICK
         /\ mid >= DEAD_ZONE_JOYSTICK => lower_stop = mid - DEAD_ZONE_JOYSTICK
<1>1. ASSUME NEW n \in Nat, n < Word PROVE n % Word = n
  BY <1>1, JoystickAssumption
<1>2. mid \in 0..MaxADC
  BY JoystickAssumption DEF JoystickTypeOK
<1>3. mid + DEAD_ZONE_JOYSTICK \in Nat /\ mid + DEAD_ZONE_JOYSTICK < Word
  BY <1>2, JoystickAssumption
<1>4. ASSUME mid >= DEAD_ZONE_JOYSTICK
      PROVE  /\ mid - DEAD_ZONE_JOYSTICK \in Nat
             /\ mid - DEAD_ZONE_JOYSTICK < Word
  BY <1>2, <1>4, JoystickAssumption
<1> QED
  BY <1>1, <1>3, <1>4 DEF upper_stop, lower_stop

\* A rod without a direction has no speed: the speed of the read that gives it one
\* waits for the next.
CentredIsStill == direction = "CENTRED" => speed = 0

\* A reading makes the speed that of the stick.
LEMMA SpeedStep ==
  ASSUME JoystickTypeOK, CentredIsStill, SERVICE_READ_ADC
  PROVE  /\ CentredIsStill'
         /\ mid >= DEAD_ZONE_JOYSTICK /\ speed' > 0 =>
              \/ direction' = "DOWN" /\ adcRes_X' > mid + DEAD_ZONE_JOYSTICK
              \/ direction' = "UP" /\ adcRes_X' < mid - DEAD_ZONE_JOYSTICK
<1>1. ADC_TO_SPEED(adcRes_X')
  BY DEF SERVICE_READ_ADC
<1>2. CASE KeepGoingDown(adcRes_X')
  BY <1>2, Thresholds DEF KeepGoingDown, CentredIsStill
<1>3. CASE KeepGoingUp(adcRes_X')
  BY <1>3, Thresholds DEF KeepGoingUp, CentredIsStill
<1>4. CASE ComeToRest(adcRes_X')
  BY <1>4 DEF ComeToRest, CentredIsStill
<1>5. CASE SetOut(adcRes_X')
  BY <1>5 DEF SetOut, CentredIsStill
<1> QED
  BY <1>1, <1>2, <1>3, <1>4, <1>5 DEF ADC_TO_SPEED

\* A rod has a speed only while its stick is held out on the side it goes to, for
\* every dead zone and hysteresis and wherever the stick jumps between two reads.
THEOREM PanelSpeedFollowsStick == Spec => SpeedFollowsStick
<1>1. Init => CentredIsStill
  BY DEF Init, JoystickInit, CentredIsStill
<1>2. TypeOK /\ CentredIsStill /\ [Next]_vars => CentredIsStill'
  <2> SUFFICES ASSUME TypeOK, CentredIsStill, [Next]_vars PROVE CentredIsStill'
    OBVIOUS
  <2>1. CASE SERVICE_READ_ADC
    BY <2>1, SpeedStep DEF TypeOK
  <2>2. CASE SERVICE_TASKS
    BY <2>2 DEF SERVICE_TASKS, CentredIsStill
  <2>3. CASE AskTasks \/ AskReadAdc \/ FirstTuneStep \/ Swing \/ UNCHANGED vars
    BY <2>3 DEF AskTasks, AskReadAdc, FirstTuneStep, Swing, vars, stickVars, rod,
                CentredIsStill
  <2> QED
    BY <2>1, <2>2, <2>3 DEF Next, MainLoop
<1>3. TypeOK /\ CentredIsStill /\ [Next]_vars =>
        [SERVICE_READ_ADC /\ mid >= DEAD_ZONE_JOYSTICK /\ speed' > 0 =>
           \/ direction' = "DOWN" /\ adcRes_X' > mid + DEAD_ZONE_JOYSTICK
           \/ direction' = "UP" /\ adcRes_X' < mid - DEAD_ZONE_JOYSTICK]_vars
  BY SpeedStep DEF TypeOK
<1> QED
  BY <1>1, <1>2, <1>3, PanelTypeCorrect, PTL DEF Spec, SpeedFollowsStick
-----------------------------------------------------------------------------
(***************************************************************************)
(* The gestures.  While an axis has been out for less than two holds its   *)
(* counter has not wrapped around and is that time.  Once it may have, and *)
(* the other axis has been out for a hold, they have counted together      *)
(* since the other one reached the hold, and the gesture is due before the *)
(* other has been out for a second one.                                    *)
(***************************************************************************)
Counted(ctr, o) == o < 2 * Hold => ctr = o

Together(ctr1, o1, ctr2, o2) ==
  o1 = 2 * Hold /\ o2 >= Hold => o2 < 2 * Hold /\ ctr1 >= o2 - Hold

GestureInv ==
  /\ Counted(ctr_joystick1, out.Y1) /\ Counted(ctr_joystick2, out.Y2)
  /\ ~Held(ctr_joystick1, ctr_joystick2)
  /\ Together(ctr_joystick1, out.Y1, ctr_joystick2, out.Y2)
  /\ Together(ctr_joystick2, out.Y2, ctr_joystick1, out.Y1)

\* One more read, of one axis and of both.
LEMMA CountedStep ==
  ASSUME NEW c \in 0..(CounterWord - 1), NEW o \in 0..(2 * Hold), NEW dig,
         Counted(c, o)
  PROVE  /\ Counted(Count(c, dig), CountOut(o, dig))
         /\ Count(c, dig) >= Hold => o + 1 >= Hold
<1>1. c + 1 < CounterWord => (c + 1) % CounterWord = c + 1
  BY JoystickAssumption
<1>2. (c + 1) % CounterWord \in 0..(CounterWord - 1)
  BY JoystickAssumption
<1> QED
  BY <1>1, <1>2, JoystickAssumption DEF Counted, Count, CountOut

\* One reading of both counters that makes no gesture.
LEMMA TogetherStep ==
  ASSUME NEW c1 \in 0..(CounterWord - 1), NEW o1 \in 0..(2 * Hold), NEW dig1,
         NEW c2 \in 0..(CounterWord - 1), NEW o2 \in 0..(2 * Hold), NEW dig2,
         Counted(c1, o1), Counted(c2, o2), ~Held(c1, c2),
         Together(c1, o1, c2, o2), Together(c2, o2, c1, o1),
         ~Held(Count(c1, dig1), Count(c2, dig2))
  PROVE  Together(Count(c1, dig1), CountOut(o1, dig1),
                  Count(c2, dig2), CountOut(o2, dig2))
<1>1. /\ c1 + 1 < CounterWord => (c1 + 1) % CounterWord = c1 + 1
      /\ c2 + 1 < CounterWord => (c2 + 1) % CounterWord = c2 + 1
  BY JoystickAssumption
<1>2. /\ (c1 + 1) % CounterWord \in 0..(CounterWord - 1)
      /\ (c2 + 1) % CounterWord \in 0..(CounterWord - 1)
  BY JoystickAssumption
<1> QED
  BY <1>1, <1>2, JoystickAssumption
  DEF Counted, Together, Held, Count, CountOut

\* A reading keeps the counters true, and what it raises was held.
LEMMA GestureStep ==
  ASSUME JoystickTypeOK, GestureInv, NEW adc1, NEW adc2,
         Scan_X_AXIS(adc1, adc2)
  PROVE  /\ GestureInv'
         /\ raised' \ raised # {} =>
              \A a \in {"Y1", "Y2"} : out[a] + 1 >= Hold
<1> DEFINE d1 == ADC_TO_DIG(adc1, CentreY)
           d2 == ADC_TO_DIG(adc2, CentreY)
           n1 == Count(ctr_joystick1, d1)
           n2 == Count(ctr_joystick2, d2)
<1>1. /\ ctr_joystick1 \in 0..(CounterWord - 1) /\ out.Y1 \in 0..(2 * Hold)
      /\ ctr_joystick2 \in 0..(CounterWord - 1) /\ out.Y2 \in 0..(2 * Hold)
  BY DEF JoystickTypeOK
<1>2. /\ Counted(n1, CountOut(out.Y1, d1)) /\ (n1 >= Hold => out.Y1 + 1 >= Hold)
      /\ Counted(n2, CountOut(out.Y2, d2)) /\ (n2 >= Hold => out.Y2 + 1 >= Hold)
  BY <1>1, CountedStep DEF GestureInv
<1>3. ~Held(n1, n2) =>
        /\ Together(n1, CountOut(out.Y1, d1), n2, CountOut(out.Y2, d2))
        /\ Together(n2, CountOut(out.Y2, d2), n1, CountOut(out.Y1, d1))
  <2>1. ~Held(n1, n2) =>
          Together(n1, CountOut(out.Y1, d1), n2, CountOut(out.Y2, d2))
    BY <1>1, TogetherStep DEF GestureInv
  <2>2. /\ ~Held(ctr_joystick2, ctr_joystick1)
        /\ ~Held(n1, n2) => ~Held(n2, n1)
    BY DEF GestureInv, Held
  <2>3. ~Held(n1, n2) =>
          Together(n2, CountOut(out.Y2, d2), n1, CountOut(out.Y1, d1))
    BY <1>1, <2>2, TogetherStep DEF GestureInv
  <2> QED
    BY <2>1, <2>3
<1> HIDE DEF d1, d2, n1, n2
<1>4. CASE Held(n1, n2)
  <2>1. /\ ctr_joystick1' = 0 /\ ctr_joystick2' = 0
        /\ out' = [a \in {"Y1", "Y2"} |-> 0]
    BY <1>4 DEF Scan_X_AXIS, d1, d2, n1, n2
  <2>2. GestureInv'
    BY <2>1, JoystickAssumption DEF GestureInv, Counted, Together, Held
  <2> QED
    BY <1>2, <1>4, <2>2 DEF Held
<1>5. CASE ~Held(n1, n2)
  <2>1. /\ ctr_joystick1' = n1 /\ ctr_joystick2' = n2
        /\ raised' = raised
        /\ out'.Y1 = CountOut(out.Y1, d1) /\ out'.Y2 = CountOut(out.Y2, d2)
    BY <1>5 DEF Scan_X_AXIS, d1, d2, n1, n2
  <2> QED
    BY <1>2, <1>3, <1>5, <2>1 DEF GestureInv
<1> QED
  BY <1>4, <1>5

\* The counters are true at every moment.
LEMMA GestureInductive ==
  Spec => [](JoystickTypeOK /\ GestureInv)
<1>1. Init => GestureInv
  BY JoystickAssumption
  DEF Init, JoystickInit, GestureInv, Counted, Together, Held
<1>2. TypeOK /\ GestureInv /\ [Next]_vars => GestureInv'
  <2> SUFFICES ASSUME TypeOK, GestureInv, [Next]_vars PROVE GestureInv'
    OBVIOUS
  <2>1. CASE SERVICE_READ_ADC
    BY <2>1, GestureStep DEF SERVICE_READ_ADC, TypeOK
  <2>2. CASE UNCHANGED <<ctr_joystick1, ctr_joystick2, out>>
    BY <2>2 DEF GestureInv
  <2>3. CASE SERVICE_TASKS \/ AskTasks \/ AskReadAdc \/ FirstTuneStep \/ Swing
             \/ UNCHANGED vars
    BY <2>2, <2>3 DEF SERVICE_TASKS, AskTasks, AskReadAdc, FirstTuneStep, Swing,
                      vars, stickVars, scan
  <2> QED
    BY <2>1, <2>3 DEF Next, MainLoop
<1>3. TypeOK => JoystickTypeOK
  BY DEF TypeOK
<1> QED
  BY <1>1, <1>2, <1>3, PanelTypeCorrect, PTL DEF Spec

\* A gesture is made only by sticks that have both been out for the whole hold.
THEOREM PanelGestureMeant == Spec => GestureMeant
<1>1. JoystickTypeOK /\ GestureInv /\ [Next]_vars =>
        [raised' \ raised # {} =>
           \A a \in {"Y1", "Y2"} : out[a] + 1 >= Hold]_vars
  <2> SUFFICES ASSUME JoystickTypeOK, GestureInv, Next, raised' \ raised # {}
               PROVE  \A a \in {"Y1", "Y2"} : out[a] + 1 >= Hold
    OBVIOUS
  <2>1. CASE SERVICE_READ_ADC
    BY <2>1, GestureStep DEF SERVICE_READ_ADC
  <2>2. CASE SERVICE_TASKS
    BY <2>2 DEF SERVICE_TASKS
  <2>3. CASE AskTasks \/ AskReadAdc \/ FirstTuneStep \/ Swing
    BY <2>3 DEF AskTasks, AskReadAdc, FirstTuneStep, Swing, stickVars, scan
  <2> QED
    BY <2>1, <2>2, <2>3 DEF Next, MainLoop
<1> QED
  BY <1>1, GestureInductive, PTL DEF Spec, GestureMeant

\* Both sticks held make a gesture within two holds, for every hold the counters
\* can hold twice.
THEOREM PanelGesturePrompt == Spec => []GesturePrompt
<1>1. JoystickTypeOK /\ GestureInv => GesturePrompt
  BY JoystickAssumption DEF JoystickTypeOK, GestureInv, Together, GesturePrompt
<1> QED
  BY <1>1, GestureInductive, PTL
-----------------------------------------------------------------------------
(***************************************************************************)
(* The tune.  Once written, its notes are those asked for last; while the  *)
(* amplifier is on the note to come tells how much was heard, and it is    *)
(* off only before the first tune and after all of one.                    *)
(***************************************************************************)
Asked ==
  /\ nb_note = Len(tune)
  /\ \A n \in 1..Len(tune) : frequency_note[n] = tune[n]

Unfinished ==
  /\ heard = <<>> /\ tune = FirstTune
  /\ \A n \in 1..Len(FirstTune) : n <= written => frequency_note[n] = FirstTune[n]
  /\ written = Len(FirstTune) + 1 => nb_note = Len(FirstTune)

Played ==
  /\ amp => current_note <= Len(tune) + 1 /\ Len(heard) = current_note
  /\ ~amp => Len(heard) = Len(tune) + 1
  /\ \A i \in 1..(Len(heard) - 1) : heard[i + 1] = Pitch(tune[i])

TuneInv ==
  /\ tune \in Tunes \union {FirstTune}
  /\ heard = <<>> => ~amp
  /\ FirstTuneWritten => Asked
  /\ ~FirstTuneWritten => Unfinished /\ ~sound_for_a_tick
  /\ heard # <<>> /\ ~sound_for_a_tick => Played

\* The tunes have one to four notes.
LEMMA TuneType ==
  ASSUME TuneInv
  PROVE  /\ tune \in Seq(Note) /\ Len(tune) \in 1..4
         /\ FirstTune \in Seq(Note) /\ Len(FirstTune) \in 1..4
BY SoundAssumption DEF TuneInv

\* A note becomes a period.
LEMMA PitchType ==
  ASSUME NEW note \in Nat
  PROVE  Pitch(note) \in Period
BY SoundAssumption DEF Pitch, Period

\* A tick of a tune that has been asked for.
LEMMA TickBegins ==
  ASSUME SoundTypeOK, TuneInv, Play_Sound_1_Tick, sound_for_a_tick
  PROVE  amp' /\ current_note' = 1 /\ heard' = <<period'>>
BY Zenon DEF Play_Sound_1_Tick

\* A tick while nothing sounds.
LEMMA TickIdles ==
  ASSUME SoundTypeOK, TuneInv, Play_Sound_1_Tick, ~sound_for_a_tick, ~amp
  PROVE  ~amp' /\ heard' = heard
<1>1. ~amp'
  BY DEF Play_Sound_1_Tick, AmpOff
<1>2. heard' = IF sound_for_a_tick THEN <<period'>>
               ELSE IF amp' /\ Len(heard) < 6 THEN Append(heard, period') ELSE heard
  BY Zenon DEF Play_Sound_1_Tick
<1> QED
  BY <1>1, <1>2, Zenon

\* What a tick leaves alone; the number of notes is within its limits already.
LEMMA TickKeeps ==
  ASSUME SoundTypeOK, TuneInv, Play_Sound_1_Tick
  PROVE  /\ UNCHANGED <<frequency_note, written, tune>> /\ ~sound_for_a_tick'
         /\ FirstTuneWritten \/ written = Len(FirstTune) + 1 => nb_note' = nb_note
<1>1. /\ UNCHANGED <<frequency_note, written, tune>> /\ ~sound_for_a_tick'
      /\ nb_note' = Clamped(nb_note)
  BY DEF Play_Sound_1_Tick
<1>2. ASSUME FirstTuneWritten \/ written = Len(FirstTune) + 1
      PROVE  nb_note \in 1..4
  BY <1>2, TuneType DEF TuneInv, Asked, Unfinished, FirstTuneWritten
<1>3. ASSUME nb_note \in 1..4
      PROVE  Clamped(nb_note) = nb_note
  BY <1>3 DEF Clamped
<1> QED
  BY <1>1, <1>2, <1>3

\* A tick in the middle of a tune or at its end.
LEMMA TickGoesOn ==
  ASSUME SoundTypeOK, TuneInv, Play_Sound_1_Tick, ~sound_for_a_tick, amp
  PROVE  heard' # <<>> /\ Played'
<1>1. /\ FirstTuneWritten /\ Asked /\ Played /\ heard # <<>>
      /\ nb_note' = Len(tune) /\ tune' = tune
  <2>1. heard # <<>> /\ Played
    BY Zenon DEF TuneInv
  <2>2. FirstTuneWritten /\ Asked
    BY <2>1, Zenon DEF TuneInv, Unfinished
  <2> QED
    BY <2>1, <2>2, TickKeeps DEF Asked
<1>2. heard \in Seq(Period) /\ current_note \in 1..5
  BY DEF SoundTypeOK
<1>3. CASE current_note > Len(tune)
  <2>1. ~amp' /\ heard' = heard
    BY <1>1, <1>2, <1>3, TuneType
    DEF Play_Sound_1_Tick, LastNoteOver, AmpOff
  <2>2. Len(heard') = Len(tune') + 1
    BY <1>1, <1>2, <1>3, <2>1, TuneType DEF Played
  <2>3. \A i \in 1..(Len(heard') - 1) : heard'[i + 1] = Pitch(tune'[i])
    BY <1>1, <2>1 DEF Played
  <2> QED
    BY <1>1, <2>1, <2>2, <2>3, Zenon DEF Played, Pitch
<1>4. CASE current_note <= Len(tune)
  <2>1. /\ amp' /\ current_note' = current_note + 1
        /\ heard' = IF Len(heard) < 6 THEN Append(heard, period') ELSE heard
    <3>1. ~LastNoteOver
      BY <1>1, <1>2, <1>4, TuneType DEF LastNoteOver
    <3> QED
      BY <3>1, Zenon DEF Play_Sound_1_Tick
  <2>2. Len(heard) = current_note /\ current_note \in 1..4
    BY <1>1, <1>2, <1>4, TuneType DEF Played
  <2>3. heard' = Append(heard, period')
    BY <2>1, <2>2
  <2>4. period' = Pitch(tune[current_note])
    <3>1. frequency_note[current_note] = tune[current_note]
      BY <1>1, <1>2, <1>4 DEF Asked
    <3>2. tune[current_note] \in Note
      BY <1>2, <1>4, TuneType
    <3>3. Audio_SetFrequency(frequency_note[current_note])
      BY <2>2 DEF Play_Sound_1_Tick
    <3> QED
      BY <3>1, <3>2, <3>3 DEF Audio_SetFrequency, Note
  <2>5. period' \in Period
    BY <1>2, <1>4, <2>4, TuneType, PitchType DEF Note
  <2>6. /\ Len(heard') = current_note + 1 /\ heard' # <<>>
        /\ heard'[current_note + 1] = period'
        /\ \A i \in 1..current_note : heard'[i] = heard[i]
    BY <1>2, <2>2, <2>3, <2>5, AppendProperties
  <2>7. ASSUME NEW i \in 1..(Len(heard') - 1)
        PROVE  heard'[i + 1] = Pitch(tune'[i])
    <3>1. CASE i = current_note
      BY <1>1, <2>4, <2>6, <3>1
    <3>2. CASE i # current_note
      <4>1. i \in 1..(Len(heard) - 1) /\ i + 1 \in 1..current_note
        BY <2>2, <2>6, <3>2
      <4> QED
        BY <1>1, <2>6, <4>1 DEF Played
    <3> QED
      BY <3>1, <3>2
  <2>8. current_note' <= Len(tune') + 1 /\ Len(heard') = current_note'
    BY <1>1, <1>2, <1>4, <2>1, <2>6, TuneType
  <2> QED
    BY <2>1, <2>6, <2>7, <2>8, Zenon DEF Played, Pitch
<1> QED
  BY <1>2, <1>3, <1>4, TuneType

\* A tick keeps the invariant.
LEMMA TickStep ==
  ASSUME SoundTypeOK, TuneInv, Play_Sound_1_Tick
  PROVE  TuneInv'
<1>1. /\ tune' \in Tunes \union {FirstTune}
      /\ (FirstTuneWritten' <=> FirstTuneWritten) /\ ~sound_for_a_tick'
  BY TickKeeps DEF TuneInv, FirstTuneWritten
<1>2. FirstTuneWritten => Asked'
  BY TickKeeps DEF TuneInv, Asked
<1>3. ~FirstTuneWritten => ~amp /\ ~sound_for_a_tick
  BY Zenon DEF TuneInv, Unfinished
<1>4. ~FirstTuneWritten => Unfinished'
  BY <1>3, TickIdles, TickKeeps DEF TuneInv, Unfinished
<1>5. CASE sound_for_a_tick
  <2>1. amp' /\ current_note' = 1 /\ heard' = <<period'>> /\ tune' = tune
    BY <1>5, TickBegins, TickKeeps
  <2>2. /\ 1 <= Len(tune') + 1 /\ Len(heard') = 1 /\ heard' # <<>>
        /\ \A i \in 1..(Len(heard') - 1) : heard'[i + 1] = Pitch(tune'[i])
    BY <2>1, TuneType
  <2>3. Played'
    BY <2>1, <2>2 DEF Played, Pitch
  <2> QED
    BY <1>1, <1>2, <1>4, <2>2, <2>3, Zenon DEF TuneInv
<1>6. CASE ~sound_for_a_tick /\ amp
  BY <1>1, <1>2, <1>4, <1>6, TickGoesOn, Zenon DEF TuneInv
<1>7. CASE ~sound_for_a_tick /\ ~amp
  <2>1. ~amp' /\ heard' = heard /\ tune' = tune
    BY <1>7, TickIdles, TickKeeps
  <2>2. heard # <<>> => Played'
    BY <1>7, <2>1 DEF TuneInv, Played, Pitch
  <2> QED
    BY <1>1, <1>2, <1>4, <2>1, <2>2, Zenon DEF TuneInv
<1> QED
  BY <1>5, <1>6, <1>7

\* A field of the first tune keeps it.
LEMMA FirstTuneStore ==
  ASSUME SoundTypeOK, TuneInv, WriteFirstTune
  PROVE  TuneInv'
<1>1. ~FirstTuneWritten /\ Unfinished /\ ~sound_for_a_tick /\ ~amp
  <2>1. written < Len(FirstTune) + 2
    BY DEF WriteFirstTune
  <2>2. ~FirstTuneWritten
    BY <2>1, TuneType DEF FirstTuneWritten
  <2> QED
    BY <2>2, Zenon DEF TuneInv, Unfinished
<1>2. /\ UNCHANGED <<current_note, amp, tune, heard>> /\ written' = written + 1
      /\ written \in 0..(Len(FirstTune) + 1)
  BY TuneType DEF WriteFirstTune, SoundTypeOK
<1>3. \A n \in 1..Len(FirstTune) : n <= written' => frequency_note'[n] = FirstTune[n]
  <2>1. frequency_note' = Over(FirstTune, written')
    BY DEF WriteFirstTune
  <2> QED
    BY <2>1, TuneType DEF Over
<1>4. written' > Len(FirstTune) => nb_note' = Len(FirstTune)
  BY <1>1, <1>2, TuneType DEF WriteFirstTune, Unfinished
<1>5. /\ heard' = <<>> /\ tune' = FirstTune /\ ~amp'
      /\ tune' \in Tunes \union {FirstTune}
  BY <1>1, <1>2 DEF Unfinished
<1>6. FirstTuneWritten' => Asked'
  BY <1>2, <1>3, <1>4, <1>5, TuneType DEF FirstTuneWritten, Asked
<1>7. ~FirstTuneWritten' => Unfinished' /\ ~sound_for_a_tick'
  <2>1. Unfinished'
    BY <1>2, <1>3, <1>4, <1>5, TuneType DEF Unfinished
  <2>2. ASSUME ~FirstTuneWritten' PROVE ~FlagWritten(written)
    BY <1>2, <2>2, TuneType DEF FirstTuneWritten, FlagWritten
  <2>3. sound_for_a_tick' <=> sound_for_a_tick \/ FlagWritten(written)
    BY Zenon DEF WriteFirstTune
  <2> QED
    BY <1>1, <2>1, <2>2, <2>3, Zenon
<1> QED
  BY <1>5, <1>6, <1>7, Zenon DEF TuneInv

\* A tune of the menu keeps it.
LEMMA AskedFor ==
  ASSUME SoundTypeOK, TuneInv, NEW t \in Tunes, AskTune(t)
  PROVE  TuneInv'
<1>1. /\ FirstTuneWritten /\ nb_note' = Len(t) /\ sound_for_a_tick' = TRUE
      /\ tune' = t /\ UNCHANGED <<amp, written, heard>>
      /\ frequency_note' = Over(t, Len(t))
  BY DEF AskTune
<1>2. t \in Seq(Note) /\ Len(t) \in 1..4
  BY SoundAssumption
<1>3. FirstTuneWritten' /\ Asked'
  BY <1>1, <1>2 DEF FirstTuneWritten, Asked, Over
<1>4. heard' = <<>> => ~amp'
  BY <1>1, Zenon DEF TuneInv
<1> QED
  BY <1>1, <1>3, <1>4, Zenon DEF TuneInv

\* What leaves the tune alone keeps it.
LEMMA SameTune ==
  ASSUME TuneInv,
         UNCHANGED <<frequency_note, nb_note, sound_for_a_tick, current_note, amp,
                     written, tune, heard>>
  PROVE  TuneInv'
<1>1. /\ FirstTuneWritten' <=> FirstTuneWritten
      /\ Asked' <=> Asked
      /\ Unfinished' <=> Unfinished
  BY DEF FirstTuneWritten, Asked, Unfinished
<1>2. Played' <=> Played
  BY DEF Played, Pitch
<1> QED
  BY <1>1, <1>2 DEF TuneInv

\* A note the register can hold is its own period.
LEMMA PitchFits ==
  ASSUME NEW note \in Period
  PROVE  Pitch(note) = note
BY SoundAssumption DEF Pitch, Period

\* A tune is heard whole, in order and from its start, each note the period
\* register can hold as it was asked for, for every tune, whatever notes it has,
\* and every moment at which it is written or asked for.
THEOREM PanelTuneWhole == Spec => []TuneWhole
<1>1. Init => TuneInv
  <2> SUFFICES ASSUME Init PROVE TuneInv
    OBVIOUS
  <2>1. /\ heard = <<>> /\ tune = FirstTune /\ written = 0 /\ ~amp
        /\ ~sound_for_a_tick /\ Len(FirstTune) \in 1..4
    BY SoundAssumption DEF Init, SoundInit
  <2>2. ~FirstTuneWritten /\ Unfinished
    BY <2>1 DEF FirstTuneWritten, Unfinished
  <2> QED
    BY <2>1, <2>2, Zenon DEF TuneInv
<1>2. TypeOK /\ TuneInv /\ [Next]_vars => TuneInv'
  <2> SUFFICES ASSUME TypeOK, TuneInv, [Next]_vars PROVE TuneInv'
    OBVIOUS
  <2>1. SoundTypeOK
    BY DEF TypeOK
  <2>2. CASE AskTasks
    BY <2>1, <2>2, TickStep DEF AskTasks
  <2>3. CASE FirstTuneStep
    BY <2>1, <2>3, FirstTuneStore DEF FirstTuneStep
  <2>4. CASE SERVICE_TASKS
    BY <2>1, <2>4, AskedFor, SameTune DEF SERVICE_TASKS, soundVars, data
  <2>5. CASE AskReadAdc \/ SERVICE_READ_ADC \/ Swing \/ UNCHANGED vars
    BY <2>5, SameTune
    DEF AskReadAdc, SERVICE_READ_ADC, Swing, dac_ad5620_generate_pulse, vars,
        soundVars, data
  <2> QED
    BY <2>2, <2>3, <2>4, <2>5 DEF Next, MainLoop
<1>3. TypeOK /\ TuneInv => TuneWhole
  <2> SUFFICES ASSUME SoundTypeOK, TuneInv, heard # <<>>, ~sound_for_a_tick
               PROVE  /\ Len(Tail(heard)) <= Len(tune)
                      /\ \A i \in 1..Len(Tail(heard)) :
                           tune[i] \in Period => Tail(heard)[i] = tune[i]
                      /\ ~amp => Len(Tail(heard)) = Len(tune)
    BY Zenon DEF TypeOK, TuneWhole
  <2>1. Played /\ heard \in Seq(Period) /\ current_note \in 1..5
    BY DEF TuneInv, SoundTypeOK
  <2>2. /\ Tail(heard) \in Seq(Period) /\ Len(Tail(heard)) = Len(heard) - 1
        /\ \A i \in 1..Len(Tail(heard)) : Tail(heard)[i] = heard[i + 1]
    BY <2>1, HeadTailProperties
  <2>3. Len(Tail(heard)) <= Len(tune) /\ (~amp => Len(Tail(heard)) = Len(tune))
    <3> DEFINE h == Len(heard)
               n == Len(tune)
               k == Len(Tail(heard))
    <3>1. h \in Nat /\ n \in Nat /\ k = h - 1
      BY <2>1, <2>2, TuneType
    <3>2. ~amp => h = n + 1
      BY <2>1, Zenon DEF Played
    <3>3. amp => h <= n + 1
      BY <2>1 DEF Played
    <3> HIDE DEF h, n, k
    <3>4. /\ h = n + 1 => k = n /\ k <= n
          /\ h <= n + 1 => k <= n
      BY <3>1
    <3>5. k <= n /\ (~amp => k = n)
      BY <3>2, <3>3, <3>4, Zenon
    <3> QED
      BY <3>5 DEF k, n
  <2>4. ASSUME NEW i \in 1..Len(Tail(heard)), tune[i] \in Period
        PROVE  Tail(heard)[i] = tune[i]
    <3>1. Tail(heard)[i] = Pitch(tune[i])
      BY <2>1, <2>2 DEF Played
    <3> QED
      BY <2>4, <3>1, PitchFits
  <2> QED
    BY <2>3, <2>4
<1> QED
  BY <1>1, <1>2, <1>3, PanelTypeCorrect, PTL DEF Spec
=============================================================================
