------------------------------ MODULE MCBleTask ------------------------------
(* The instance of BleTask for model checking: its one constant is a switch, *)
(* set by the configurations.                                                *)
EXTENDS BleTask
=============================================================================
