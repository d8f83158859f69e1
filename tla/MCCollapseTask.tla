---------------------------- MODULE MCCollapseTask ----------------------------
(* Instances of CollapseTask for model checking: the configuration chooses   *)
(* the depth of the FIFO.                                                    *)
EXTENDS CollapseTask
=============================================================================
