------------------------------- MODULE Sound -------------------------------
(***************************************************************************)
(* The loudspeaker (AD5620.c).  A tune is up to four notes in Sound_Data   *)
(* and a flag.  Timer 1's interrupt gives it a tick each time it asks for  *)
(* the menu, a note a tick, as a period of timer 3, whose own interrupt    *)
(* swings the DAC between two levels all the time: only the amplifier's    *)
(* pin makes it heard.  A note is the period its frequency asks for, and   *)
(* 0 is a frequency that was never set.                                    *)
(***************************************************************************)
EXTENDS Integers, Sequences

CONSTANTS
  PeriodWord,   \* modulus of the period register, 2^16
  FirstPeriod,  \* of timer 3, 999
  FirstTune,    \* the tune of app.c, once the calibrations are over
  Tunes         \* the tunes of Ges_Menu.c

Note == Nat \ {0}
Period == 0..(PeriodWord - 1)

ASSUME SoundAssumption ==
  /\ PeriodWord \in Nat \ {0} /\ FirstPeriod \in Period
  /\ Len(FirstTune) \in 1..4
  /\ \A t \in Tunes \union {FirstTune} : t \in Seq(Note) /\ Len(t) \in 1..4

VARIABLES
  frequency_note, nb_note, sound_for_a_tick,   \* Sound_Data
  current_note,
  period,     \* PR3
  amp,        \* the amplifier is on
  minormax,   \* the next level is the high one
  written,    \* the fields of the first tune written so far
  tune,       \* history: the tune asked for last
  heard       \* history: the first six periods it was heard with, one a tick

data == <<frequency_note, nb_note, sound_for_a_tick>>
soundVars == <<data, current_note, period, amp, minormax, written, tune, heard>>

SoundTypeOK ==
  /\ frequency_note \in [1..4 -> Nat] /\ nb_note \in 0..4
  /\ sound_for_a_tick \in BOOLEAN
  /\ current_note \in 1..5 /\ period \in Period
  /\ amp \in BOOLEAN /\ minormax \in BOOLEAN
  /\ written \in 0..(Len(FirstTune) + 2)
  /\ tune \in Seq(Note) /\ heard \in Seq(Period)

SoundInit ==
  /\ frequency_note = [n \in 1..4 |-> 0] /\ nb_note = 0
  /\ sound_for_a_tick = FALSE
  /\ current_note = 1 /\ period = FirstPeriod
  /\ amp = FALSE /\ minormax = TRUE
  /\ written = 0 /\ tune = FirstTune /\ heard = <<>>
-----------------------------------------------------------------------------
\* The first k notes of a tune over those of the tunes before.
Over(t, k) ==
  [n \in 1..4 |-> IF n <= k /\ n <= Len(t) THEN t[n] ELSE frequency_note[n]]

\* The first tune goes field by field: its notes, their number, the flag.
FlagWritten(k) == k = Len(FirstTune) + 1

WriteFirstTune ==
  /\ written < Len(FirstTune) + 2
  /\ written' = written + 1
  /\ frequency_note' = Over(FirstTune, written')
  /\ nb_note' = IF written = Len(FirstTune) THEN Len(FirstTune) ELSE nb_note
  /\ sound_for_a_tick' = (sound_for_a_tick \/ FlagWritten(written))
  /\ UNCHANGED <<current_note, period, amp, minormax, tune, heard>>

FirstTuneWritten == written = Len(FirstTune) + 2

\* A handler of the menu asks for a tune; no tick comes while it writes.
AskTune(t) ==
  /\ FirstTuneWritten
  /\ frequency_note' = Over(t, Len(t))
  /\ nb_note' = Len(t)
  /\ sound_for_a_tick' = TRUE
  /\ tune' = t
  /\ UNCHANGED <<current_note, period, amp, minormax, written, heard>>
-----------------------------------------------------------------------------
\* The period register keeps the low bits: the lowest notes, under 77 Hz, come
\* out higher than they were asked.
Pitch(note) == note % PeriodWord

Audio_SetFrequency(note) == period' = IF note = 0 THEN period ELSE Pitch(note)

Clamped(n) == IF n > 4 THEN 4 ELSE IF n < 1 THEN 1 ELSE n

\* The tune has run out.
\* Mutant: it stops at its last note.
LastNoteShort == current_note >= nb_note'

LastNoteOver == current_note > nb_note'

\* Mutant: the amplifier is left on at the end.
AmpForgotten == UNCHANGED amp
AmpOff == amp' = FALSE

\* The frequency is set before the tick looks whether a tune begins: for one
\* tick a new tune sounds with the note the old one was at.
Play_Sound_1_Tick ==
  /\ nb_note' = Clamped(nb_note)
  /\ IF current_note <= 4 THEN Audio_SetFrequency(frequency_note[current_note])
                          ELSE UNCHANGED period
  /\ \/ /\ sound_for_a_tick
        /\ amp' = TRUE /\ current_note' = 1
     \/ /\ ~sound_for_a_tick /\ LastNoteOver
        /\ AmpOff /\ current_note' = 1
     \/ /\ ~sound_for_a_tick /\ ~LastNoteOver
        /\ current_note' = current_note + 1
        /\ UNCHANGED amp
  /\ sound_for_a_tick' = FALSE
  /\ heard' = IF sound_for_a_tick THEN <<period'>>
              ELSE IF amp' /\ Len(heard) < 6 THEN Append(heard, period')
              ELSE heard
  /\ UNCHANGED <<frequency_note, minormax, written, tune>>

\* Timer 3's interrupt gives the DAC the other level.
dac == IF minormax THEN "min" ELSE "max"

dac_ad5620_generate_pulse ==
  /\ minormax' = ~minormax
  /\ UNCHANGED <<data, current_note, period, amp, written, tune, heard>>
-----------------------------------------------------------------------------
\* A tune is heard whole and in order, a note a tick, and then no more, even the
\* one the main loop writes field by field between two ticks: after the tick it
\* begins with, one note was heard for each note asked for, all of them once the
\* amplifier is off, and every note the period register can hold was the very
\* note asked for in its place (AD5620.c: Play_Sound_1_Tick, app.c).
TuneWhole ==
  heard # <<>> /\ ~sound_for_a_tick =>
    LET notes == Tail(heard) IN
    /\ Len(notes) <= Len(tune)
    /\ \A i \in 1..Len(notes) : tune[i] \in Period => notes[i] = tune[i]
    /\ ~amp => Len(notes) = Len(tune)

\* Every note is heard at the frequency asked for (AD5620.c:82).  It is not: the
\* lowest notes of Ges_Menu.c, 20 to 66 Hz, do not fit the period register.
TunesAtPitch ==
  heard # <<>> /\ ~sound_for_a_tick =>
    \A i \in 1..(Len(heard) - 1) : heard[i + 1] = tune[i]

\* The loudspeaker falls silent, unless another tune is asked for.
SilenceComes == amp ~> (~amp \/ sound_for_a_tick)
=============================================================================
