--------------------------- MODULE CollapseService ---------------------------
(***************************************************************************)
(* What the collapse task promises the scheduler (collapse.c seen through  *)
(* collapse_task_stop_handler): a measurement that was started is reported *)
(* with a sample, or is still going on, or waits for motion.  A motion or  *)
(* the timer that spaces the samples out may fall inside the handler that  *)
(* takes a measurement up and start a second one.                          *)
(***************************************************************************)
VARIABLES
  mode,   \* "PERIOD", "TRIGGER" or "OTHER", a value that is neither
  ears,   \* "on": the pin waits for motion
  wait,   \* "yes": the next motion starts a measurement
  work,   \* "none", "one" or "two" measurements are going on
  spaced, \* "yes": the timer between two samples is running
  said    \* the report that is being made: "SAMPLE", "EMPTY" or "NONE"

Init ==
  /\ mode \in {"PERIOD", "TRIGGER", "OTHER"}
  /\ ears = IF mode = "TRIGGER" THEN "on" ELSE "off"
  /\ wait = "no" /\ work = "none" /\ spaced = "no" /\ said = "NONE"

More == IF work = "none" THEN "one" ELSE "two"

Fewer == IF work = "two" THEN "one" ELSE "none"

Start ==
  /\ work = "none" /\ work' = "one"
  /\ UNCHANGED <<mode, ears, wait, spaced, said>>

\* A motion starts the measurement that waited for it.
Motion ==
  /\ ears = "on" /\ wait = "yes" /\ wait' = "no"
  /\ work' \in {More} \cup ({work} \ {"none"})
  /\ UNCHANGED <<mode, ears, spaced, said>>

Expire ==
  /\ spaced = "yes" /\ spaced' = "no"
  /\ UNCHANGED <<mode, ears, wait, work, said>>

\* The timer falls between a measurement's being taken up and its end.
Double ==
  /\ spaced = "yes" /\ spaced' = "no"
  /\ work # "two" /\ work' = More
  /\ UNCHANGED <<mode, ears, wait, said>>

\* The second measurement goes on where the gate holds the first back.
Merge ==
  /\ work = "two" /\ work' = "one"
  /\ UNCHANGED <<mode, ears, wait, spaced, said>>

Measured ==
  /\ said = "NONE" /\ said' = "SAMPLE"
  /\ work # "none" /\ work' = Fewer
  /\ spaced' = IF mode = "TRIGGER" THEN "yes" ELSE spaced
  /\ UNCHANGED <<mode, ears, wait>>

\* Every measurement in the periodic mode finds a sample.
Empty ==
  /\ said = "NONE" /\ said' = "EMPTY"
  /\ mode # "PERIOD" /\ work # "none" /\ work' = Fewer
  /\ wait' = "yes"
  /\ UNCHANGED <<mode, ears, spaced>>

\* The report is made, and the next measurement may be taken up.
Rest ==
  /\ said # "NONE" /\ said' = "NONE"
  /\ UNCHANGED <<mode, ears, wait, work, spaced>>

\* A value that is neither mode leaves the pin as it is.
SetMode ==
  /\ \/ mode # "PERIOD" /\ mode' = "PERIOD" /\ ears' = "off"
     \/ mode # "TRIGGER" /\ mode' = "TRIGGER" /\ ears' = "on"
     \/ mode # "OTHER" /\ mode' = "OTHER" /\ UNCHANGED ears
  /\ UNCHANGED <<wait, work, spaced, said>>

Next ==
  \/ Start \/ Motion \/ Expire \/ Double \/ Merge \/ Measured \/ Empty
  \/ Rest \/ SetMode

Spec == Init /\ [][Next]_<<mode, ears, wait, work, spaced, said>>
=============================================================================
