------------------------------- MODULE MCPlay -------------------------------
(* Cabinets of a few steps for TLC: MCPlay.cfg and MCPlayDrift.cfg.        *)
EXTENDS Play

\* The shortest course on which both rods can be sent up and down.
MCTravel == <<3, 3>>
MCDriftTravel == <<6, 5>>
=============================================================================
