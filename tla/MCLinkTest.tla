----------------------------- MODULE MCLinkTest -----------------------------
(* The instance of LinkTest for model checking: tests by count, by time and  *)
(* with neither.                                                             *)
EXTENDS LinkTest
=============================================================================
