------------------------------ MODULE MCSysProc ------------------------------
(* Instances of SysProc for model checking: the configurations choose the    *)
(* version of the device, who disturbs it and how often.                     *)
EXTENDS SysProc
=============================================================================
