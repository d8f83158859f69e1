------------------------------- MODULE MCBatSoc -------------------------------
(* The battery gauge over a battery of a few levels.                       *)
EXTENDS BatSoc

\* Bound: the Bluetooth time kept over resets.
Bounded == active <= MaxClock + 1
=============================================================================
