----------------------------- MODULE MCLoraTask -----------------------------
(* Instances of LoraTask for model checking.  The retry limit of the        *)
(* product is ~0u: UNLIMITED lies above FailCap, so it is never reached.    *)
EXTENDS LoraTask

UNLIMITED == 3
=============================================================================
