----------------------------- MODULE CollapseTask -----------------------------
(***************************************************************************)
(* The collapse meter (KEIL-MDK/APP/collapse.c): the BMA456 sensor with    *)
(* its latched interrupt line, the pin interrupt, the sample FIFO and the  *)
(* task that hands samples to the scheduler, one per iot_trigger_period.   *)
(* The line is high while an interrupt is latched and falls when the       *)
(* status is read; the pin interrupt sees rising edges only.               *)
(***************************************************************************)
EXTENDS Naturals

CONSTANT Cap  \* samples the FIFO holds

ASSUME CollapseAssumption == Cap \in Nat \ {0}

\* sens_mode_t, and every other byte the gateway may set and the storage may
\* hold, which is neither mode.
Modes == {"PERIOD", "TRIGGER", "OTHER"}

Sources == {"motion", "wm"}

Locations == {"loop", "read", "rearm", "erase", "status", "dispatch", "taken",
              "gate", "take", "sampled", "empty", "config"}

VARIABLES
  mode,   \* collapse_obj.mode
  latch,  \* the sensor's latched interrupts
  pin,    \* the pin interrupt: "on", "off", or "none" when not configured
  edge,   \* "pending": an edge whose interrupt has not been served
  evt,    \* bma456_evt
  wait,   \* wait_trigger_flag
  state,  \* collapse_state
  obj,    \* collapse_obj.state
  lpm,    \* the task's entry in the low-power table
  mtx,    \* fifo_mtx: "shut" until the next sample may go out
  armed,  \* the running timers: "in" and "out"
  fifo,   \* the number of samples stored
  struck, \* history: "yes" since an interrupt did harm, until trigger mode is
          \* set with nothing latched
  pc

hw == <<mode, latch, pin, edge>>
task == <<wait, state, obj, lpm>>
vars == <<mode, latch, pin, edge, evt, wait, state, obj, lpm, mtx, armed, fifo,
          struck, pc>>

\* collapse_init
Init ==
  /\ mode \in Modes
  /\ pin = IF mode = "TRIGGER" THEN "on" ELSE "none"
  /\ latch = {} /\ edge = "none" /\ evt = {}
  /\ wait = "no" /\ state = "IDLE" /\ obj = "IDLE" /\ lpm = "STOP"
  /\ mtx = "open" /\ armed = {} /\ fifo = 0 /\ struck = "no" /\ pc = "loop"

-----------------------------------------------------------------------------
(* The sensor and the interrupts.                                          *)

\* The main loop is inside a transfer on the software SPI bus.
OnBus == pc \in {"read", "status", "config"}

(***************************************************************************)
(* An interrupt may fall anywhere.  In four stretches of code, each of     *)
(* some microseconds to milliseconds, it does harm:                        *)
(*   - between enabling the pin and reading the status in                  *)
(*     swt_collapse_fifo_in_cb                                             *)
(*   - between the look at a source in bma456_evt and bma456_evt = 0       *)
(*   - while the main loop uses the sensor's software SPI bus              *)
(*   - between releasing the pin and switching the motion feature off in   *)
(*     collapse_iot_set_mode                                               *)
(***************************************************************************)
Strike == struck' = "yes"

\* bma456_evt_handler has looked for the source s, the only one, and is going
\* to erase it.
Overlooks == pc = "erase" \/ (pc = "rearm" /\ latch = {"wm"})

\* The source s latches while the sensor's features are on, which they are as
\* long as the pin is configured.  An edge reaches an enabled pin at once.
Latches(s) ==
  /\ pin # "none" /\ edge = "none" /\ s \notin latch
  /\ latch' = latch \cup {s}
  /\ edge' = IF pin = "on" /\ latch = {} THEN "pending" ELSE "none"
  /\ UNCHANGED <<mode, pin, evt, task, mtx, armed, fifo, struck, pc>>

Moves == Latches("motion")

Fills == Latches("wm")

\* Reading the status clears the latch, unless the transfer is cut into
\* another one: then what is read and whether it clears is anyone's guess.
ReadStatus(status) ==
  IF OnBus
  THEN status \in SUBSET Sources /\ latch' \in {latch, {}}
  ELSE status = latch /\ latch' = {}

\* gpiote_in_pin_handler.  A motion starts a measurement that waits for it.
PinIrq ==
  /\ edge = "pending" /\ edge' = "none" /\ pin' = "off"
  /\ \E status \in SUBSET Sources :
       /\ ReadStatus(status)
       /\ evt' = status
       /\ IF "motion" \in status /\ wait = "yes" /\ obj = "IDLE"
          THEN wait' = "no" /\ state' = "ACTIVE"
          ELSE UNCHANGED <<wait, state>>
  /\ IF OnBus \/ Overlooks THEN Strike ELSE UNCHANGED struck
  /\ UNCHANGED <<mode, obj, lpm, mtx, armed, fifo, pc>>

\* Mutated form: the gate opens, the blocked measurement is not resumed.
OpenOnly == UNCHANGED state

\* The measurement the closed gate holds back goes on.
Resume == state' = IF obj = "ACTIVE" THEN "ACTIVE" ELSE state

\* swt_collapse_fifo_out_cb
FifoOut ==
  /\ "out" \in armed /\ edge = "none"
  /\ mtx' = "open" /\ armed' = armed \ {"out"} /\ Resume
  /\ UNCHANGED <<hw, evt, wait, obj, lpm, fifo, pc, struck>>

\* Mutated form: the status is read without enabling the pin.
ReadOnly == UNCHANGED pin

\* nrf_drv_gpiote_in_event_enable; a pin that is not configured stays so.
EnablePin == pin' = IF pin = "none" THEN "none" ELSE "on"

\* swt_collapse_fifo_in_cb.  An edge between its two steps is served after it,
\* and finds the status read.
FifoIn ==
  /\ "in" \in armed /\ edge = "none"
  /\ EnablePin /\ armed' = armed \ {"in"}
  /\ IF OnBus THEN latch' \in {latch, {}} ELSE latch' = {}
  /\ \/ UNCHANGED edge /\ (IF OnBus THEN Strike ELSE UNCHANGED struck)
     \/ pin' = "on" /\ latch = {} /\ edge' = "pending" /\ Strike
  /\ UNCHANGED <<mode, evt, task, mtx, fifo, pc>>

Interrupt == PinIrq \/ FifoOut \/ FifoIn

-----------------------------------------------------------------------------
(* The main loop, which a pending edge interrupts at once.                 *)

Main(from, to) == edge = "none" /\ pc = from /\ pc' = to

\* collapse_task_start, by the COLLAPSE branch of sys_task_schd
TaskStart ==
  /\ Main("loop", "loop")
  /\ IF obj = "IDLE"
     THEN lpm' = "RUN" /\ state' = "ACTIVE" /\ obj' = "ACTIVE"
     ELSE UNCHANGED <<lpm, state, obj>>
  /\ UNCHANGED <<hw, evt, wait, mtx, armed, fifo, struck>>

\* Leaving the trigger mode leaves its timers running.
KeepTimers == UNCHANGED armed

\* collapse_iot_set_mode(PERIOD_MODE), in a session with the gateway: the pin
\* is released, the sensor still to be configured.  What latches before its
\* features are off stays latched.
SetPeriod ==
  /\ Main("loop", "config") /\ mode # "PERIOD"
  /\ mode' = "PERIOD" /\ pin' = "none" /\ KeepTimers
  /\ \/ UNCHANGED <<latch, struck>>
     \/ pin # "none" /\ latch' = latch \cup {"motion"} /\ Strike
  /\ UNCHANGED <<edge, evt, task, mtx, fifo>>

\* collapse_iot_set_mode with any other value: it is stored, the sensor and the
\* pin stay as they are.
SetOther ==
  /\ Main("loop", "loop") /\ mode # "OTHER"
  /\ mode' = "OTHER"
  /\ UNCHANGED <<latch, pin, edge, evt, task, mtx, armed, fifo, struck>>

\* collapse_iot_set_mode(TRIGGER_MODE): the pin is enabled, the sensor's FIFO
\* is still to be configured.  A change of the time offset sets the mode anew.
SetTrigger ==
  /\ Main("loop", "config")
  /\ mode' = "TRIGGER" /\ pin' = "on"
  /\ struck' = IF latch = {} THEN "no" ELSE struck
  /\ UNCHANGED <<latch, edge, evt, task, mtx, armed, fifo>>

SetModeEnds ==
  /\ Main("config", "loop")
  /\ UNCHANGED <<hw, evt, task, mtx, armed, fifo, struck>>

\* The head of bma456_evt_handler.
HandleEvt ==
  /\ Main("loop", IF evt = {} THEN "dispatch" ELSE "read")
  /\ UNCHANGED <<hw, evt, task, mtx, armed, fifo, struck>>

\* bma456_read_fifo; a full sensor FIFO has nothing more to wait for.
ReadFifo ==
  /\ Main("read", "rearm")
  /\ IF "wm" \in evt THEN EnablePin ELSE UNCHANGED pin
  /\ UNCHANGED <<mode, latch, edge, evt, task, mtx, armed, fifo, struck>>

\* easy_fifo_write drops what does not fit.
Stored == fifo' = IF fifo < Cap THEN fifo + 1 ELSE fifo

\* Mutated form: the timer that enables the pin is not started.
StoreOnly == Stored /\ UNCHANGED armed

\* The sample of a motion is stored and the pin left disabled for 500 ms.
StoreAndPause == Stored /\ armed' = armed \cup {"in"}

Rearm ==
  /\ Main("rearm", "erase")
  /\ IF "motion" \in evt THEN StoreAndPause ELSE UNCHANGED <<fifo, armed>>
  /\ UNCHANGED <<hw, evt, task, mtx, struck>>

\* bma456_evt = 0
Erase ==
  /\ Main("erase", "status") /\ evt' = {}
  /\ UNCHANGED <<hw, task, mtx, armed, fifo, struck>>

\* The status is read to clear the latch, which a transfer that an interrupt
\* cut into may leave set.
ClearStatus ==
  /\ Main("status", "dispatch")
  /\ \/ latch' = {}
     \/ struck = "yes" /\ UNCHANGED latch
  /\ UNCHANGED <<mode, pin, edge, evt, task, mtx, armed, fifo, struck>>

\* collapse_operate after the event handler.
Dispatch ==
  /\ Main("dispatch", IF state = "ACTIVE" THEN "taken" ELSE "loop")
  /\ state' = "IDLE"
  /\ UNCHANGED <<hw, evt, wait, obj, lpm, mtx, armed, fifo, struck>>

Activate ==
  /\ Main("taken", "gate") /\ obj' = "ACTIVE"
  /\ UNCHANGED <<hw, evt, wait, state, lpm, mtx, armed, fifo, struck>>

Blocked == mode = "TRIGGER" /\ mtx = "shut"

GateShut ==
  /\ Main("gate", "loop") /\ Blocked
  /\ lpm' = "LP"
  /\ UNCHANGED <<hw, evt, wait, state, obj, mtx, armed, fifo, struck>>

\* In periodic mode a sample is measured here.
GateOpen ==
  /\ Main("gate", "take") /\ ~Blocked
  /\ lpm' = "RUN"
  /\ IF mode = "PERIOD" THEN Stored ELSE UNCHANGED fifo
  /\ UNCHANGED <<hw, evt, wait, state, obj, mtx, armed, struck>>

\* A sample is handed over; in trigger mode the next has to wait.
Deliver ==
  /\ Main("take", "sampled") /\ fifo > 0
  /\ fifo' = fifo - 1
  /\ IF mode = "TRIGGER"
     THEN mtx' = "shut" /\ armed' = armed \cup {"out"}
     ELSE UNCHANGED <<mtx, armed>>
  /\ UNCHANGED <<hw, evt, task, struck>>

\* Mutated form: nobody waits for the next motion.
WaitForNothing == wait' = "no"

WaitForMotion == wait' = "yes"

\* No sample: the scheduler does not go on, the next motion does.
Empty ==
  /\ Main("take", "empty") /\ fifo = 0
  /\ WaitForMotion
  /\ UNCHANGED <<hw, evt, state, obj, lpm, mtx, armed, fifo, struck>>

ToRest == obj' = "IDLE" /\ lpm' = "STOP"

Finish ==
  /\ \E report \in {"sampled", "empty"} : Main(report, "loop")
  /\ ToRest
  /\ UNCHANGED <<hw, evt, wait, state, mtx, armed, fifo, struck>>

Handler ==
  \/ HandleEvt \/ ReadFifo \/ Rearm \/ Erase \/ ClearStatus
  \/ Dispatch \/ Activate \/ GateShut \/ GateOpen \/ Deliver \/ Empty \/ Finish

Next ==
  \/ Moves \/ Fills \/ Interrupt \/ Handler
  \/ TaskStart \/ SetPeriod \/ SetOther \/ SetTrigger \/ SetModeEnds

Spec == Init /\ [][Next]_vars

\* Interrupts are served, timers fire, the main loop turns and the scheduler
\* starts the task again and again; the sensor moves again and again, also when
\* its pin is enabled: the handlers take milliseconds, the sensor's FIFO takes
\* 20 seconds to fill.  Frames that set the mode anew are rare among the turns,
\* so not every motion has its event overwritten before a turn serves it.
FairSpec ==
  /\ Spec
  /\ WF_vars(PinIrq) /\ SF_vars(FifoOut) /\ SF_vars(FifoIn)
  /\ SF_vars(Handler) /\ SF_vars(HandleEvt /\ "motion" \in evt)
  /\ WF_vars(SetModeEnds)
  /\ SF_vars(TaskStart)
  /\ SF_vars(Moves /\ edge' = "pending")

-----------------------------------------------------------------------------
(* Properties.                                                             *)

\* Every variable of the task keeps a value of its type.
TypeOK ==
  /\ mode \in Modes /\ latch \subseteq Sources
  /\ pin \in {"on", "off", "none"} /\ edge \in {"none", "pending"}
  /\ evt \subseteq Sources /\ wait \in {"yes", "no"}
  /\ {state, obj} \subseteq {"IDLE", "ACTIVE"} /\ lpm \in {"STOP", "LP", "RUN"}
  /\ mtx \in {"open", "shut"} /\ armed \subseteq {"in", "out"}
  /\ fifo \in 0..Cap /\ struck \in {"yes", "no"} /\ pc \in Locations

\* The gate that spaces the samples out never stays shut: its timer is running,
\* whatever modes were set since it was started.
GateReopens == mtx = "shut" => "out" \in armed

\* A device whose sensor is set to trigger goes deaf in the four ways Strike
\* names and in no other: until one of them has happened, and again once the
\* mode was set anew, the pin waits for an edge, or an event, or a timer that
\* enables it, is on its way.
Listens ==
  (mode = "TRIGGER" \/ pin # "none") /\ struck = "no" =>
    \/ pin = "on" /\ (latch = {} \/ pc = "status")
    \/ edge = "pending" \/ "in" \in armed \/ evt # {}

\* Between two turns the processor is kept awake only for a measurement.
AwakeForAReason == pc = "loop" /\ lpm = "RUN" => state = "ACTIVE"

\* A measurement that found the gate shut is resumed when the gate opens: the
\* task is never left active with nothing to wake it.
HeldBackResumes ==
  pc = "loop" /\ obj = "ACTIVE" => state = "ACTIVE" \/ "out" \in armed

\* The measurements that are going on: one the handler has taken up, and one
\* that is due.
TakenUp ==
  \/ pc \in {"taken", "gate", "take"}
  \/ obj = "ACTIVE" /\ pc \notin {"sampled", "empty"} /\ state = "IDLE"

Work ==
  IF state = "ACTIVE" /\ TakenUp THEN "two"
  ELSE IF state = "ACTIVE" \/ TakenUp THEN "one" ELSE "none"

Spaced == IF "out" \in armed THEN "yes" ELSE "no"

\* The report to the scheduler that is being made.
Report ==
  IF pc = "sampled" THEN "SAMPLE"
  ELSE IF pc = "empty" THEN "EMPTY" ELSE "NONE"

Ears == IF pin = "none" THEN "off" ELSE "on"

Service == INSTANCE CollapseService WITH
  work <- Work, spaced <- Spaced, ears <- Ears, said <- Report

\* The task keeps the promise of CollapseService: no measurement is forgotten,
\* and only a motion or the timer starts one the scheduler did not ask for.
KeepsService == Service!Spec

\* While the sensor moves again and again, samples are handed over again and
\* again, and none is stranded in the FIFO.
SamplesGetOut == fifo > 0 ~> pc = "take" /\ fifo > 0

\* collapse.h:7: under continuous motion samples are written periodically,
\* until the periodic mode is set or an interrupt has done harm.
KeepsWriting ==
  mode = "TRIGGER" ~>
    pin = "none" \/ struck = "yes" \/ (pc = "rearm" /\ "motion" \in evt)
=============================================================================
