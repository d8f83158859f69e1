----------------------------- MODULE MCGateway -----------------------------
(* Bounded instance of Gateway: what one publication's answer may write.   *)
(* Mode 2 and interval 0 are values nothing checks at the gateway.         *)
EXTENDS Gateway

Nothing == {[p \in {} |-> 0]}

MCPublications ==
  Nothing
    \cup [mode : {0, 1, 2}, interval : {8}]
    \cup [offset : {1, 6}, interval : {0}, unknown : {0}]
    \cup [short : Shorts, mode : {1}]
    \cup [long : {"l2", "foreign"}, mode : {0}, interval : {8}]
=============================================================================
