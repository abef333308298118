------------------------------ MODULE MCPanel ------------------------------
(***************************************************************************)
(* The panel and the timers for TLC: MCPanel.cfg, a converter of ten       *)
(* values, short tunes and a short counter; MCTunePitch.cfg, tunes and a   *)
(* register of the code's own sizes.  Sticks, tunes and timers share       *)
(* nothing here but the turns of the main loop, so a behaviour need not    *)
(* vary them together: it has a player who leaves the sticks alone, or a   *)
(* loudspeaker that has not been asked for anything yet, or calls of the   *)
(* timer drivers.  The fairness is that of the panel, so that SilenceComes *)
(* is about the tunes.                                                     *)
(***************************************************************************)
EXTENDS Panel, Pulses

MCFirstTune == <<1, 2>>

\* One of them has a note that does not fit the period register.
MCTunes == {<<3>>, <<9, 4, 5>>, <<6, 1, 2, 4>>}

\* app.c:259-261, and the settings of Ges_Menu.c:47-49: 20, 40 and 60 Hz.
MCTuneOfTheCode == <<9555, 6377, 5362>>
MCLowTune == {<<250000, 125000, 83333>>}

MCCentre == CHOOSE m \in Centres : TRUE

VARIABLE part

panelVars == <<vars, timersVars, pulses, part>>

MCInit ==
  /\ Init /\ PulsesInit
  /\ \/ part = "timers" /\ mid = MCCentre /\ direction = "UP"
     \/ part = "sticks" /\ instance = 0 /\ output = 0
     \/ part = "tunes" /\ mid \in PositionsX /\ instance = 0 /\ output = 0

PanelNext ==
  /\ Next
  /\ IF part = "sticks" THEN UNCHANGED <<written, minormax>>
     ELSE adcRes_X' = mid /\ UNCHANGED scan
  /\ UNCHANGED <<timersVars, pulses>>

MCNext ==
  /\ IF part = "timers" THEN PulsesNext /\ UNCHANGED vars ELSE PanelNext
  /\ UNCHANGED part

MCSpec == MCInit /\ [][MCNext]_panelVars /\ Fairness
=============================================================================
