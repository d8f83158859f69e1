----------------------------- MODULE MCParamStore -----------------------------
(* The instance of ParamStore for model checking: one parameter besides the  *)
(* addresses and two values.                                                 *)
EXTENDS ParamStore
=============================================================================
