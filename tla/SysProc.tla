------------------------------ MODULE SysProc ------------------------------
(***************************************************************************)
(* The task scheduler (KEIL-MDK/APP/sys_proc.c): the event word            *)
(* sys_task_evt, the four tasks it starts and the handlers their stopping  *)
(* runs.  A task is idle or running; what it does in between is modelled   *)
(* in the module of that task.  LoRa and the collapse task are the         *)
(* services LoraTask and CollapseTask are shown to implement: they report  *)
(* as LoraService and CollapseService say.  The measuring chain is         *)
(*     collapse (measure) -> LoRa (publish) -> system low power -> ...     *)
(* and goes through Bluetooth when LoRa finds no gateway.                  *)
(***************************************************************************)
EXTENDS Naturals, FiniteSets

CONSTANTS
  Version,   \* object_version
  Periodic,  \* iot_clinometer.iot_mode is 0
  Preempt,   \* TRUE: interrupts fall inside an update of sys_task_evt,
             \* slp_reset or a handler of LoRa, FALSE: between two of them
  SlowLink,  \* TRUE: waiting for one reply may take longer than a session
  Budget     \* bound on departing clients, link tests, resets, changes of
             \* mode, measurements that are doubled and sessions that repeat
             \* themselves together

ASSUME SysAssumption ==
  /\ Version \in {"inclinometer", "collapse"}
  /\ Periodic \in BOOLEAN /\ Preempt \in BOOLEAN
  /\ SlowLink \in BOOLEAN /\ Budget \in Nat

Events == {"BLE", "COLLAPSE", "LORA", "SYS_LP"}

VARIABLES
  evts,     \* sys_task_evt
  ble, slp, \* "idle" or "run"; slp is "late" when its timer fired while the
            \* task was being reset
  mode, ears, wait, work, spaced, sample,  \* the collapse task, as
                                           \* CollapseService tells it
  asked,    \* LoRa was started and has not opened its session yet
  lora, pre, heard, conn, said, again,  \* LoRa, as LoraService tells it
  disconn,  \* lora_disconn
  llrt,     \* llrt_status
  sig,      \* the signal-detection input: "on" or "off"
  gateway,  \* dev_gateway_addr: "set" or "none"
  budget

loraVars == <<asked, lora, pre, heard, conn, said, again>>

collapseVars == <<mode, ears, wait, work, spaced, sample>>

vars == <<evts, ble, slp, collapseVars, loraVars, disconn, llrt, sig, gateway,
          budget>>

\* The product sets no limit to a session's attempts.
Lora == INSTANCE LoraService WITH
  Slow <- SlowLink, Retries <- TRUE,
  session <- lora, began <- pre, link <- conn

Collapse == INSTANCE CollapseService WITH said <- sample

\* sys_startup
Init ==
  /\ gateway \in {"set", "none"}
  /\ evts = {"BLE"} \cup (IF gateway = "set" THEN {"LORA"} ELSE {})
  /\ ble = "idle" /\ slp = "idle"
  /\ Lora!Init /\ asked = "no" /\ disconn = "no" /\ llrt = "STOP"
  /\ Collapse!Init /\ (Version = "inclinometer" => mode = "PERIOD")
  /\ sig = "on" /\ budget = Budget

-----------------------------------------------------------------------------
(***************************************************************************)
(* SET_TASK_EVT and CLEAR_TASK_EVT load, change and store the word.  A     *)
(* signal edge between the load and the store switches its input off, and  *)
(* the store drops the event the interrupt set.                            *)
(***************************************************************************)
Undisturbed(new) == evts' = new /\ UNCHANGED sig

Torn(new) == Preempt /\ sig = "on" /\ evts' = new /\ sig' = "off"

Store(new) == Undisturbed(new) \/ Torn(new)

\* hw_signal_detect_evt_handler, between two updates of the word.
SignalIrq ==
  /\ sig = "on"
  /\ sig' = "off" /\ evts' = evts \cup {"BLE"}
  /\ UNCHANGED <<ble, slp, collapseVars, loraVars, disconn, llrt, gateway,
                 budget>>

\* The motion interrupt starts a measurement that waits for it.
Motion ==
  /\ Collapse!Motion
  /\ UNCHANGED <<evts, ble, slp, loraVars, disconn, llrt, sig, gateway,
                 budget>>

\* One of the Budget disturbances from outside.
Spend == budget > 0 /\ budget' = budget - 1

\* swt_collapse_fifo_out_cb, between two measurements or inside one.
SampleDue ==
  /\ \/ Collapse!Expire /\ UNCHANGED budget
     \/ Collapse!Double /\ Spend
  /\ UNCHANGED <<evts, ble, slp, loraVars, disconn, llrt, sig, gateway>>

-----------------------------------------------------------------------------
(* sys_task_schd, one branch each.  A running task ignores the start.      *)

ScheduleBle ==
  /\ "BLE" \in evts
  /\ Store(evts \ {"BLE"}) /\ ble' = "run"
  /\ UNCHANGED <<slp, collapseVars, loraVars, disconn, llrt, gateway, budget>>

ScheduleCollapse ==
  /\ "COLLAPSE" \in evts
  /\ Store(evts \ {"COLLAPSE"})
  /\ IF work = "none" THEN Collapse!Start ELSE UNCHANGED collapseVars
  /\ UNCHANGED <<ble, slp, loraVars, disconn, llrt, gateway, budget>>

ScheduleLora ==
  /\ "LORA" \in evts
  /\ Store(evts \ {"LORA"})
  /\ IF gateway = "set" /\ lora = "none"
       THEN Lora!Ask /\ asked' = "yes"
       ELSE UNCHANGED loraVars
  /\ UNCHANGED <<ble, slp, collapseVars, disconn, llrt, gateway, budget>>

ScheduleSlp ==
  /\ "SYS_LP" \in evts
  /\ Store(evts \ {"SYS_LP"}) /\ slp' = "run"
  /\ UNCHANGED <<ble, collapseVars, loraVars, disconn, llrt, gateway, budget>>

-----------------------------------------------------------------------------
(* The handlers the tasks call when they stop.                             *)

\* Mutated form: the end of an advertising keeps the flag of the lost gateway.
FlagKept(cause) == UNCHANGED <<disconn, gateway>>

\* The flag and, with it, the default gateway address.
Forgive(cause) ==
  /\ disconn' = IF cause = "ADV_TIMEOUT" THEN "no" ELSE disconn
  /\ gateway' = IF cause = "ADV_TIMEOUT" /\ disconn = "yes" THEN "set"
                                                            ELSE gateway

\* Mutated form: LoRa is not retried.
NoRetry == {"BLE"}

\* Mutated form: Bluetooth is not asked to run again.
NoRestart == IF disconn = "yes" THEN {"LORA"} ELSE {}

\* What the end of the Bluetooth task starts: itself, and LoRa while it has no
\* gateway.
Restart == {"BLE"} \cup (IF disconn = "yes" THEN {"LORA"} ELSE {})

(***************************************************************************)
(* ble_task_stop_handler, after an advertising (ADV_TIMEOUT) or after a    *)
(* client left (ADV_STOP).  It ends by switching the signal detection on.  *)
(***************************************************************************)
BleStops(cause) ==
  /\ ble = "run"
  /\ IF cause = "ADV_STOP" THEN Spend ELSE UNCHANGED budget
  /\ evts' = evts \cup Restart
  /\ ble' = "idle" /\ sig' = "on"
  /\ Forgive(cause)
  /\ UNCHANGED <<slp, collapseVars, loraVars, llrt>>

\* Mutated form: the collapse version publishes in trigger mode only.
PublishTriggered ==
  IF (Version = "inclinometer" /\ Periodic) \/ mode = "TRIGGER" THEN {"LORA"}
                                                             ELSE {}

(***************************************************************************)
(* What collapse_task_stop_handler adds after a measurement.  Without one  *)
(* the task of the collapse version passes NULL: the byte it reads at      *)
(* address 0 belongs to the SoftDevice's stack pointer and is no           *)
(* COLLAPSE_ACTIVE.                                                        *)
(***************************************************************************)
Publish ==
  IF Version = "collapse" \/ Periodic THEN {"LORA"} ELSE {}

\* collapse_operate with a sample
CollapseMeasured ==
  /\ Collapse!Measured
  /\ Store(evts \cup Publish)
  /\ UNCHANGED <<ble, slp, loraVars, disconn, llrt, gateway, budget>>

\* collapse_operate with an empty FIFO, or with the gate shut before the first
\* of two measurements
CollapseUnmeasured ==
  /\ Collapse!Empty \/ Collapse!Merge
  /\ UNCHANGED <<evts, ble, slp, loraVars, disconn, llrt, sig, gateway,
                 budget>>

\* The end of collapse_operate after either report.
CollapseRests ==
  /\ Collapse!Rest
  /\ UNCHANGED <<evts, ble, slp, loraVars, disconn, llrt, sig, gateway,
                 budget>>

\* slp_task_stop_handler
SlpEnds ==
  /\ slp \in {"run", "late"}
  /\ Store(evts \cup (IF llrt = "RUN" THEN {"LORA"} ELSE {"COLLAPSE"}))
  /\ slp' = "idle"
  /\ UNCHANGED <<ble, collapseVars, loraVars, disconn, llrt, gateway, budget>>

-----------------------------------------------------------------------------
(* The LoRa task and lora_task_stop_handler, one action per report.        *)

\* lora_status_active with no session open.  The task does not come to it
\* while a link test is asked for.
LoraOpens ==
  /\ asked = "yes" /\ asked' = "no" /\ llrt # "ACTIVE"
  /\ Lora!Open
  /\ UNCHANGED <<evts, ble, slp, collapseVars, disconn, llrt, sig, gateway,
                 budget>>

\* A back-off timer that outlives its session opens another one.
LoraReopens ==
  /\ Preempt /\ Spend /\ asked = "no"
  /\ Lora!Open
  /\ UNCHANGED <<evts, ble, slp, collapseVars, asked, disconn, llrt, sig,
                 gateway>>

\* Only an interrupt inside the handler that closes a session leaves a command
\* behind.
LoraLeaves == again' = "yes" => Preempt

LoraHears ==
  /\ llrt # "RUN" /\ Lora!Hear
  /\ UNCHANGED <<evts, ble, slp, collapseVars, asked, disconn, llrt, sig,
                 gateway, budget>>

LoraFades ==
  /\ Lora!Fade
  /\ UNCHANGED <<evts, ble, slp, collapseVars, asked, disconn, llrt, sig,
                 gateway, budget>>

\* The event a delivered publication is followed by: none in the collapse
\* version's mode that is neither periodic nor trigger.
AfterPublication ==
  IF Version = "inclinometer" \/ mode = "PERIOD" THEN {"SYS_LP"}
  ELSE IF mode = "TRIGGER" THEN {"COLLAPSE"} ELSE {}

\* What the handler posts.  The report of a session that is over is one of the
\* Budget disturbances.
Reports(events) ==
  /\ Store(evts \cup events)
  /\ IF lora = "none" THEN Spend ELSE UNCHANGED budget
  /\ LoraLeaves
  /\ UNCHANGED <<ble, slp, collapseVars, asked, gateway>>

\* llrt_lost_rate_calc ends the test after its last transmission.
TestReported(after) ==
  /\ llrt = "RUN" /\ Lora!Test /\ llrt' = after
  /\ Reports({"SYS_LP"}) /\ UNCHANGED disconn

LinkReported ==
  /\ llrt # "RUN" /\ Lora!Connect
  /\ Reports({"COLLAPSE"}) /\ UNCHANGED <<disconn, llrt>>

OfflineReported ==
  /\ llrt # "RUN" /\ Lora!Miss /\ disconn' = "yes"
  /\ Reports({"BLE"}) /\ UNCHANGED llrt

DisconReported ==
  /\ llrt # "RUN" /\ Lora!Lose
  /\ Reports({"LORA"}) /\ UNCHANGED <<disconn, llrt>>

ConnectReported ==
  /\ llrt # "RUN" /\ Lora!Confirm
  /\ Reports(AfterPublication) /\ UNCHANGED <<disconn, llrt>>

\* A session's transmission ends by switching the signal detection on.
LoraTransmits ==
  /\ lora = "open" /\ sig' = "on"
  /\ UNCHANGED <<evts, ble, slp, collapseVars, loraVars, disconn, llrt,
                 gateway,
                 budget>>

-----------------------------------------------------------------------------
(* Requests from a client and from the gateway.                            *)

\* misc_svc_char_change_handler: a client asks for a link test.
RequestTest ==
  /\ Spend /\ ble = "run" /\ llrt = "STOP"
  /\ llrt' = "ACTIVE"
  /\ UNCHANGED <<evts, ble, slp, collapseVars, loraVars, disconn, sig,
                 gateway>>

(***************************************************************************)
(* The start of the test in lora_task_operate.  slp_reset clears the       *)
(* mailbox of the low-power task before it stops the timer: the timer may  *)
(* fire in between.                                                        *)
(***************************************************************************)
LoraTestBegins ==
  /\ llrt = "ACTIVE" /\ llrt' = "RUN"
  /\ Lora!Open /\ asked' = "no"
  /\ \/ slp' = "idle"
     \/ Preempt /\ slp = "run" /\ slp' = "late"
  /\ UNCHANGED <<evts, ble, collapseVars, disconn, sig, gateway, budget>>

\* lora_reset: the gateway has changed an address, in this turn's session.
LoraReset ==
  /\ Spend /\ (lora = "open" \/ "COLLAPSE" \in evts)
  /\ Store(evts \cup {"LORA"})
  /\ lora' = "none" /\ asked' = "no" /\ pre' = "OFFLINE" /\ conn' = "OFFLINE"
  /\ said' = "DISCON" /\ again' \in {"no", "yes"} /\ LoraLeaves
  /\ UNCHANGED <<ble, slp, collapseVars, heard, disconn, llrt, gateway>>

\* iot_set_sample_mode: the gateway sets the mode of the collapse version to
\* any byte.
SetMode ==
  /\ Spend /\ Version = "collapse" /\ lora = "open"
  /\ Collapse!SetMode
  /\ UNCHANGED <<evts, ble, slp, loraVars, disconn, llrt, sig, gateway>>

TestStep == \E after \in {"RUN", "STOP"} : TestReported(after)

BleStep == \E cause \in {"ADV_TIMEOUT", "ADV_STOP"} : BleStops(cause)

Next ==
  \/ SignalIrq \/ Motion \/ SampleDue
  \/ ScheduleBle \/ ScheduleCollapse \/ ScheduleLora \/ ScheduleSlp
  \/ BleStep \/ CollapseMeasured \/ CollapseUnmeasured
  \/ CollapseRests \/ SlpEnds
  \/ LoraOpens \/ LoraReopens \/ LoraTransmits \/ LoraHears \/ LoraFades
  \/ TestStep \/ LinkReported \/ OfflineReported \/ DisconReported
  \/ ConnectReported
  \/ RequestTest \/ LoraTestBegins \/ LoraReset \/ SetMode

Spec == Init /\ [][Next]_vars

-----------------------------------------------------------------------------
(* Properties.                                                             *)

\* Every variable of the scheduler keeps a value of its type.
TypeOK ==
  /\ evts \subseteq Events
  /\ ble \in {"idle", "run"} /\ slp \in {"idle", "run", "late"}
  /\ work \in {"none", "one", "two"} /\ sample \in {"NONE", "SAMPLE", "EMPTY"}
  /\ lora \in {"none", "open"}
  /\ {pre, conn} \subseteq {"OFFLINE", "CONNECT"}
  /\ said \in {"NONE", "LINK", "TEST", "OFFLINE", "CONNECT", "DISCON"}
  /\ {asked, heard, again, disconn} \subseteq {"yes", "no"}
  /\ llrt \in {"STOP", "ACTIVE", "RUN"}
  /\ mode \in {"PERIOD", "TRIGGER", "OTHER"} /\ ears \in {"on", "off"}
  /\ {wait, spaced} \subseteq {"yes", "no"} /\ sig \in {"on", "off"}
  /\ gateway \in {"set", "none"} /\ budget \in 0..Budget

\* The places where the measuring chain can continue.
Links ==
  (evts \cap {"COLLAPSE", "LORA", "SYS_LP"}) \cup
  (IF work # "none" THEN {"measuring"} ELSE {}) \cup
  (IF work = "two" THEN {"again"} ELSE {}) \cup
  (IF asked = "yes" \/ lora = "open" THEN {"publishing"} ELSE {}) \cup
  (IF slp # "idle" THEN {"sleeping"} ELSE {})

\* A device that has a gateway and publishes what it measures.
Measuring == gateway = "set" /\ (Version = "inclinometer" => Periodic)

\* The one way in which the chain ends with nothing to wait for: a publication
\* is delivered while the mode is neither periodic nor trigger, and nothing is
\* posted after it.
Ended == mode = "OTHER" /\ said = "CONNECT"

\* The chain is dropped in one way only: whatever tests, resets, mode changes
\* and torn updates there are, it continues somewhere, waits for motion (which
\* can come: WaitsForMotion), or waits for the retry the Bluetooth task owes
\* it, unless it has Ended.
ChainAlive ==
  Measuring => Links # {} \/ wait = "yes" \/ disconn = "yes" \/ Ended

\* A chain that has nothing to continue it but a motion is in trigger mode, in
\* which the pin waits for the motion and the motion starts a measurement; in
\* periodic mode the chain is never at rest.  A mode that is neither is out of
\* this promise: a chain there has Ended or waits for a motion, which a pin
\* that was released does not hear.
WaitsForMotion ==
  Measuring /\ Links = {} /\ disconn = "no" =>
    (mode = "TRIGGER" /\ ears = "on" /\ wait = "yes") \/ mode = "OTHER"

\* The Bluetooth task, which brings back a device without a gateway, is never
\* forgotten.  This is why a signal edge that is lost in a torn update of the
\* event word, its input switched off, changes nothing.
BleAlive == ble = "run" \/ "BLE" \in evts

\* There is one measuring chain, and at most one more for every client that
\* left while the gateway was lost, every reset, every test, every measurement
\* that was doubled and every session that repeats itself: an undisturbed
\* device never measures and sleeps, or publishes and sleeps, at the same time.
OneChain == Cardinality(Links) <= 1 + (Budget - budget)

\* The main loop schedules pending events and the tasks stop; link tests end;
\* the gateway answers and the sensor moves now and then.
FairSpec ==
  /\ Spec
  /\ WF_vars(ScheduleBle) /\ WF_vars(ScheduleCollapse)
  /\ WF_vars(ScheduleLora) /\ WF_vars(ScheduleSlp)
  /\ WF_vars(BleStops("ADV_TIMEOUT")) /\ SF_vars(CollapseMeasured)
  /\ WF_vars(CollapseRests) /\ WF_vars(SlpEnds) /\ WF_vars(Motion)
  /\ WF_vars(LoraTestBegins)
  /\ WF_vars(LoraOpens)
  /\ SF_vars(LinkReported) /\ SF_vars(TestReported("STOP"))
  /\ WF_vars(OfflineReported \/ DisconReported \/ ConnectReported)

\* A device with a gateway publishes again and again, through every failed
\* session and every retry by way of Bluetooth, unless the chain has come to
\* rest in a mode that is neither periodic nor trigger.
KeepsPublishing ==
  Measuring ~> (lora = "open" /\ conn = "CONNECT")
                 \/ (mode = "OTHER" /\ Links = {})
=============================================================================
