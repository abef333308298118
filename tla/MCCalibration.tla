--------------------------- MODULE MCCalibration ---------------------------
(***************************************************************************)
(* Small cabinets for TLC: the rods travel a few steps instead of 16000.   *)
(* MCCalibration.cfg: the interrupt may fall anywhere or, from rods at the *)
(* same height, only between two passes; MCCalibrationJam.cfg: only        *)
(* between two passes.                                                     *)
(***************************************************************************)
EXTENDS Calibration

\* Rods of different courses, level or not.
MCTravel == <<6, 5>>
MCHeights ==
  {<<h, h>> : h \in 0..5} \union {<<1, 3>>, <<3, 1>>, <<6, 5>>, <<0, 5>>}

\* Proportions of the real cabinet: the limit is a quarter of the travel, and
\* the count starts at the middle.  The rods stand one limit apart.
MCJamTravel == <<8, 8>>
MCJamHeights == {<<3, 5>>}

VARIABLE lockstep   \* no interrupt falls inside a pass

Level == height[1] = height[2]

MCInit == Init /\ lockstep \in BOOLEAN /\ (lockstep => Level)
MCJamInit == Init /\ lockstep = TRUE

MCNext ==
  /\ IF lockstep THEN BetweenPasses \/ MainLoop ELSE Next
  /\ UNCHANGED lockstep

\* The fairness of Spec and of LockstepSpec.
MCFairness ==
  /\ WF_vars(~lockstep /\ Interrupt)
  /\ SF_vars(lockstep /\ BetweenPasses)
  /\ WF_vars(MainLoop)

MCSpec == MCInit /\ [][MCNext]_<<vars, lockstep>> /\ MCFairness
MCJamSpec == MCJamInit /\ [][MCNext]_<<vars, lockstep>> /\ MCFairness
-----------------------------------------------------------------------------
\* From rods at the same height calibration does complete, jam or no jam, when
\* the interrupt keeps out of the passes (app.c: Stepper_RunCalibration treats
\* both motors in the same pass, and they then start and stop together).
LevelCompletes == lockstep => CalibrationCompletes
=============================================================================
