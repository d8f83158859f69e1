----------------------------- MODULE LoraService -----------------------------
(***************************************************************************)
(* What the LoRa task promises the scheduler and the gateway's handler     *)
(* (lora_transmission.c seen through lora_task_stop_handler): a session    *)
(* ends with one report, and the connection changes only with the report   *)
(* that says so.  An interrupt that falls inside the handler that closes a *)
(* session, or inside a reset, may add one more report, which is not about *)
(* the connection unless it says that one was made.                        *)
(***************************************************************************)
CONSTANTS
  Slow,    \* TRUE: waiting for one reply may take longer than a session
  Retries  \* TRUE: a session outlasts a first failed attempt

VARIABLES
  session,  \* "none" or "open"
  began,    \* the connection when the scheduler last asked for a session
  heard,    \* a reply was accepted since the last session was opened
  link,     \* the connection: "OFFLINE" or "CONNECT"
  said,     \* the last report
  again     \* "no", "yes": one more report may follow, or "reset"

Init ==
  /\ session = "none" /\ began = "OFFLINE" /\ heard = "no"
  /\ link = "OFFLINE" /\ said = "NONE" /\ again = "no"

\* A session is asked for ...
Ask ==
  /\ session = "none" /\ began' = link /\ again' = "no"
  /\ UNCHANGED <<session, heard, link, said>>

\* ... and opened.  A link test and a late timer open one nobody asked for.
Open ==
  /\ session = "none" /\ session' = "open"
  /\ heard' = "no" /\ again' = "no"
  /\ UNCHANGED <<began, link, said>>

\* The reply to a publication.  The session is still to be closed.
Hear ==
  /\ session = "open" \/ again = "yes"
  /\ link = "CONNECT" /\ heard = "no"
  /\ heard' = "yes"
  /\ UNCHANGED <<session, began, link, said, again>>

\* A session is closed, once; a report that follows it is the last one.
Closes ==
  /\ session' = "none" /\ UNCHANGED began
  /\ \/ session = "open" /\ again' \in {"no", "yes"}
     \/ session = "none" /\ again = "yes" /\ again' = "no"

\* The reply of a new connection or of a link test closes the session.
Connect ==
  /\ Closes /\ heard = "no" /\ link = "OFFLINE"
  /\ heard' = "yes" /\ link' = "CONNECT" /\ said' = "LINK"

Test ==
  /\ Closes /\ heard' \in {heard, "yes"} /\ said' = "TEST"
  /\ UNCHANGED link

\* The time slice is over: a session begun without a connection ...
Miss ==
  /\ Closes /\ began = "OFFLINE" /\ said' = "OFFLINE"
  /\ UNCHANGED <<heard, link>>

\* ... one whose publication was received ...
Confirm ==
  /\ Closes /\ began = "CONNECT" /\ said' = "CONNECT"
  /\ session = "open" => heard = "yes" \/ Slow
  /\ UNCHANGED <<heard, link>>

\* ... and one that lost its connection.
Lose ==
  /\ Closes /\ began = "CONNECT" /\ heard = "no"
  /\ (session = "open" \/ ~Retries)
  /\ link' = "OFFLINE" /\ said' = "DISCON"
  /\ UNCHANGED heard

\* Nothing more was to be reported.
Fade ==
  /\ again = "yes" /\ again' = "no"
  /\ UNCHANGED <<session, began, heard, link, said>>

Forget ==
  /\ session' = "none" /\ began' = "OFFLINE" /\ link' = "OFFLINE"
  /\ again' = "reset"
  /\ UNCHANGED <<heard, said>>

Forgotten ==
  /\ again = "reset" /\ again' \in {"no", "yes"} /\ said' = "DISCON"
  /\ UNCHANGED <<session, began, heard, link>>

\* The device restarts.
Restart ==
  /\ session' = "none" /\ began' = "OFFLINE" /\ heard' = "no"
  /\ link' = "OFFLINE" /\ said' = "NONE" /\ again' = "no"

Next ==
  \/ Ask \/ Open \/ Hear \/ Connect \/ Test \/ Miss \/ Confirm \/ Lose
  \/ Fade \/ Forget \/ Forgotten \/ Restart

Spec == Init /\ [][Next]_<<session, began, heard, link, said, again>>
=============================================================================
