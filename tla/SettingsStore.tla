---------------------------- MODULE SettingsStore ----------------------------
(***************************************************************************)
(* What the parameter store promises: whenever the device restarts, it     *)
(* finds the default settings or one complete set of settings it had       *)
(* before, never a part of one.  A setting changed while a set is being    *)
(* kept may be in it or not.                                               *)
(***************************************************************************)
CONSTANTS Fields, Values, Default

VARIABLES
  want,   \* the settings in use
  kept,   \* the settings a restart brings back
  moving  \* the settings changed since keeping them began

Init == want = Default /\ kept = Default /\ moving = {}

Change(f, v) ==
  /\ want' = [want EXCEPT ![f] = v]
  /\ moving' \in {moving, moving \cup {f}}
  /\ UNCHANGED kept

\* Two settings change at once: the address and the kind of device it implies.
ChangeTwo(f, g, v) ==
  /\ want' = [want EXCEPT ![f] = v, ![g] = v]
  /\ UNCHANGED <<kept, moving>>

Begin == moving' = {} /\ UNCHANGED <<want, kept>>

Lose == kept' = Default /\ UNCHANGED <<want, moving>>

Keep ==
  /\ kept' \in [Fields -> Values]
  /\ \A f \in Fields \ moving : kept'[f] = want[f]
  /\ UNCHANGED <<want, moving>>

Restart == want' = kept /\ moving' = {} /\ UNCHANGED kept

Next ==
  \/ \E f \in Fields, v \in Values : Change(f, v)
  \/ \E f, g \in Fields, v \in Values : ChangeTwo(f, g, v)
  \/ Begin \/ Lose \/ Keep \/ Restart

Spec == Init /\ [][Next]_<<want, kept, moving>>
=============================================================================
