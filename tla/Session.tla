------------------------------ MODULE Session ------------------------------
(***************************************************************************)
(* What the menu of the cabinet promises of the games of a session: they   *)
(* are played one after the other, each is over once, however that comes   *)
(* about, and is counted and saved when the player closes it.              *)
(***************************************************************************)
EXTENDS Naturals

VARIABLES
  phase,  \* idle, playing, over
  games,  \* the games counted since power-on
  kept    \* the count in the EEPROM

Init == phase = "idle" /\ games = 0 /\ kept \in Nat

Begin == phase = "idle" /\ phase' = "playing" /\ UNCHANGED <<games, kept>>

End == phase = "playing" /\ phase' = "over" /\ UNCHANGED <<games, kept>>

Close ==
  /\ phase = "over" /\ phase' = "idle"
  /\ games' = games + 1
  /\ kept' = games'

\* The settings may be saved between two games, and the count with them.
SaveSettings == phase = "idle" /\ kept' = games /\ UNCHANGED <<phase, games>>

Next == Begin \/ End \/ Close \/ SaveSettings

Spec == Init /\ [][Next]_<<phase, games, kept>>
=============================================================================
