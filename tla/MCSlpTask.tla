------------------------------ MODULE MCSlpTask ------------------------------
(* An instance of SlpTask small enough for TLC: the proportions of the       *)
(* counter, the readings and the timer are those of the device, scaled down. *)
EXTENDS SlpTask
=============================================================================
