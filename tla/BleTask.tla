------------------------------- MODULE BleTask -------------------------------
(***************************************************************************)
(* The Bluetooth task (KEIL-MDK/APP/bluetooth_low_power.c) between the     *)
(* SoftDevice, whose events are interrupts, and the scheduler of           *)
(* sys_proc.c.  Every interrupt writes ble_state (mail) without looking at *)
(* what it overwrites; the main loop serves one value at a time.           *)
(***************************************************************************)
EXTENDS Naturals

CONSTANT Bounded  \* ble_adv_time is not 0: advertising is ended by a timer

ASSUME BleAssumption == Bounded \in BOOLEAN

Mails == {"IDLE", "ADV", "CONN", "DISCON", "ADV_TIMEOUT", "ADV_STOP"}

Locations == {"loop", "ADV", "opened", "named", "CONN", "linked", "DISCON",
              "ADV_TIMEOUT", "ADV_STOP", "badstart", "badstop"}

VARIABLES
  mail,    \* ble_state
  obj,     \* ble_obj.state
  air,     \* the SoftDevice: "silent", advertising ("adv") or "conn"
  armed,   \* the running timers: "adv" and "led"
  lpm,     \* the task's entry in the low-power table
  evts,    \* the pending events of sys_task_evt: "BLE" and "LORA"
  lora,    \* the LoRa task: "idle" or "busy"
  offline, \* lora_disconn, "yes" or "no"
  gateway, \* dev_gateway_addr: "configured" or "default"
  sig,     \* the signal-detection input: "on" or "off"
  pc,
  hit      \* history: an event fell inside a handler since the last reset

vars == <<mail, obj, air, armed, lpm, evts, lora, offline, gateway, sig, pc,
          hit>>

\* sys_startup requests advertising, and LoRa when a gateway is configured.
Init ==
  /\ mail = "IDLE" /\ obj = "IDLE" /\ air = "silent" /\ armed = {}
  /\ lpm = "STOP" /\ evts \in {{"BLE"}, {"BLE", "LORA"}}
  /\ lora = "idle" /\ offline = "no" /\ gateway = "configured" /\ sig = "on"
  /\ pc = "loop" /\ hit = "no"

-----------------------------------------------------------------------------
(* Interrupt handlers.                                                     *)

\* An event inside a handler's few instructions is remembered.
Noted == hit' = IF pc = "loop" THEN hit ELSE "yes"

\* ble_conn_handler
Connected ==
  /\ air = "adv" /\ Noted
  /\ air' = "conn" /\ mail' = "CONN"
  /\ UNCHANGED <<obj, armed, lpm, evts, lora, offline, gateway, sig, pc>>

\* ble_disconn_handler
Disconnected ==
  /\ air = "conn" /\ Noted
  /\ air' = "silent" /\ mail' = "DISCON"
  /\ UNCHANGED <<obj, armed, lpm, evts, lora, offline, gateway, sig, pc>>

\* swt_ble_adv_cb, at least a second after the timer was started.
AdvTimerFires ==
  /\ "adv" \in armed /\ pc # "named" /\ Noted
  /\ armed' = armed \ {"adv"} /\ mail' = "ADV_TIMEOUT"
  /\ UNCHANGED <<obj, air, lpm, evts, lora, offline, gateway, sig, pc>>

\* The signal-detection edge switches its input off and asks for the task.
SignalIrq ==
  /\ sig = "on"
  /\ sig' = "off" /\ evts' = evts \cup {"BLE"}
  /\ UNCHANGED <<mail, obj, air, armed, lpm, lora, offline, gateway, pc, hit>>

Interrupt == Connected \/ Disconnected \/ AdvTimerFires \/ SignalIrq

-----------------------------------------------------------------------------
(* The LoRa side of the scheduler, as far as the Bluetooth task sees it.   *)

\* The LORA branch of sys_task_schd.
LoraScheduled ==
  /\ pc = "loop" /\ "LORA" \in evts
  /\ evts' = evts \ {"LORA"} /\ lora' = "busy"
  /\ UNCHANGED <<mail, obj, air, armed, lpm, offline, gateway, sig, pc, hit>>

\* lora_task_stop_handler for the report OFFLINE
LoraOffline ==
  /\ pc = "loop" /\ lora = "busy"
  /\ lora' = "idle" /\ offline' = "yes" /\ evts' = evts \cup {"BLE"}
  /\ UNCHANGED <<mail, obj, air, armed, lpm, gateway, sig, pc, hit>>

\* Any other report: the other tasks bring LoRa back.  A transmission also
\* switches the signal-detection input on again.
LoraGoesOn ==
  /\ pc = "loop" /\ lora = "busy"
  /\ lora' = "idle" /\ evts' = evts \cup {"LORA"} /\ sig' = "on"
  /\ UNCHANGED <<mail, obj, air, armed, lpm, offline, gateway, pc, hit>>

-----------------------------------------------------------------------------
(* The main loop.                                                          *)

\* Mutated form: a request is served in any state.
StartAlways == lpm' = "RUN" /\ mail' = "ADV"

\* ble_task_start
TaskStart ==
  IF obj = "IDLE" THEN lpm' = "RUN" /\ mail' = "ADV"
                  ELSE UNCHANGED <<lpm, mail>>

\* The BLE branch of sys_task_schd.
Schedule ==
  /\ pc = "loop" /\ "BLE" \in evts
  /\ evts' = evts \ {"BLE"}
  /\ TaskStart
  /\ UNCHANGED <<obj, air, armed, lora, offline, gateway, sig, pc, hit>>

Dispatch ==
  /\ pc = "loop" /\ mail # "IDLE"
  /\ pc' = mail
  /\ UNCHANGED <<mail, obj, air, armed, lpm, evts, lora, offline, gateway, sig,
                 hit>>

\* ble_adv_start; APP_ERROR_CHECK resets the device when it fails.
AdvOpen ==
  /\ pc = "ADV"
  /\ IF air = "silent" THEN air' = "adv" /\ pc' = "opened"
                       ELSE pc' = "badstart" /\ UNCHANGED air
  /\ UNCHANGED <<mail, obj, armed, lpm, evts, lora, offline, gateway, sig, hit>>

\* Mutated form: the advertising timer is not started.
ArmNothing == armed' = armed \cup {"led"}

ArmAdv == armed' = armed \cup {"led"} \cup (IF Bounded THEN {"adv"} ELSE {})

\* ble_obj.state = ble_state reads the mailbox once more.
AdvName ==
  /\ pc = "opened"
  /\ ArmAdv /\ obj' = mail /\ pc' = "named"
  /\ UNCHANGED <<mail, air, lpm, evts, lora, offline, gateway, sig, hit>>

\* ble_idle_lpm
IdleLpm == lpm' = IF obj # "IDLE" THEN "LP" ELSE lpm

AdvEnd ==
  /\ pc = "named"
  /\ mail' = "IDLE" /\ IdleLpm /\ pc' = "loop"
  /\ UNCHANGED <<obj, air, armed, evts, lora, offline, gateway, sig, hit>>

ConnName ==
  /\ pc = "CONN"
  /\ armed' = {"led"} /\ obj' = mail /\ pc' = "linked"
  /\ UNCHANGED <<mail, air, lpm, evts, lora, offline, gateway, sig, hit>>

ConnEnd ==
  /\ pc = "linked"
  /\ mail' = "IDLE" /\ pc' = "loop"
  /\ UNCHANGED <<obj, air, armed, lpm, evts, lora, offline, gateway, sig, hit>>

Discon ==
  /\ pc = "DISCON"
  /\ armed' = armed \ {"led"} /\ obj' = "IDLE" /\ mail' = "ADV_STOP"
  /\ lpm' = "RUN" /\ pc' = "loop"
  /\ UNCHANGED <<air, evts, lora, offline, gateway, sig, hit>>

\* ble_adv_stop; APP_ERROR_CHECK resets the device when it fails.
StopAdv ==
  /\ pc = "ADV_TIMEOUT"
  /\ IF air = "adv" THEN air' = "silent" /\ pc' = "ADV_STOP"
                    ELSE pc' = "badstop" /\ UNCHANGED air
  /\ UNCHANGED <<mail, obj, armed, lpm, evts, lora, offline, gateway, sig, hit>>

\* Mutated form: Bluetooth is not asked to run again.
NoRestart ==
  /\ evts' = evts \cup (IF offline = "yes" THEN {"LORA"} ELSE {})
  /\ UNCHANGED <<offline, gateway>>

\* Mutated form: the end of advertising forgets the LoRa task.
NoRetry == evts' = evts \cup {"BLE"} /\ UNCHANGED <<offline, gateway>>

(***************************************************************************)
(* ble_task_stop_handler: advertise again, and while LoRa has no gateway   *)
(* retry it, with the default gateway address when nobody configured one.  *)
(***************************************************************************)
StopHandler ==
  /\ evts' = evts \cup {"BLE"} \cup
       (IF offline = "yes" /\ mail \in {"ADV_TIMEOUT", "ADV_STOP"}
          THEN {"LORA"} ELSE {})
  /\ IF offline = "yes" /\ mail = "ADV_TIMEOUT"
       THEN offline' = "no" /\ gateway' = "default"
       ELSE UNCHANGED <<offline, gateway>>

Stop ==
  /\ pc = "ADV_STOP"
  /\ armed' = {} /\ obj' = "IDLE" /\ mail' = "IDLE" /\ lpm' = "STOP"
  /\ StopHandler /\ sig' = "on" /\ pc' = "loop"
  /\ UNCHANGED <<air, lora, hit>>

Reboot ==
  /\ pc \in {"badstart", "badstop"}
  /\ mail' = "IDLE" /\ obj' = "IDLE" /\ air' = "silent" /\ armed' = {}
  /\ lpm' = "STOP" /\ evts' \in {{"BLE"}, {"BLE", "LORA"}}
  /\ lora' = "idle" /\ offline' = "no" /\ gateway' = "configured"
  /\ sig' = "on" /\ pc' = "loop" /\ hit' = "no"

MainStep ==
  \/ Schedule \/ Dispatch \/ AdvOpen \/ AdvName \/ AdvEnd \/ ConnName
  \/ ConnEnd \/ Discon \/ StopAdv \/ Stop \/ Reboot

Next == MainStep \/ Interrupt \/ LoraScheduled \/ LoraOffline \/ LoraGoesOn

Spec == Init /\ [][Next]_vars

-----------------------------------------------------------------------------
(* Properties.                                                             *)

\* Every variable of bluetooth_low_power.c keeps a value of its type.
TypeOK ==
  /\ mail \in Mails /\ obj \in Mails
  /\ air \in {"silent", "adv", "conn"} /\ armed \subseteq {"adv", "led"}
  /\ lpm \in {"RUN", "LP", "STOP"} /\ evts \subseteq {"BLE", "LORA"}
  /\ lora \in {"idle", "busy"} /\ offline \in {"yes", "no"}
  /\ gateway \in {"configured", "default"}
  /\ sig \in {"on", "off"} /\ pc \in Locations /\ hit \in {"yes", "no"}

\* ble_adv_start (ble_init.c:755) is asserted to succeed: the task never opens
\* advertising while the SoftDevice advertises or is connected, whatever
\* requests, connections and timeouts came before.
AdvStartSucceeds == pc # "badstart"

\* With ble_adv_time set, advertising always has a running timer, or a timeout
\* in the mailbox, that will end it: the radio is never left advertising.
AdvertisingEnds ==
  Bounded /\ pc = "loop" /\ air = "adv" =>
    "adv" \in armed \/ mail = "ADV_TIMEOUT"

\* The task keeps the processor awake only while it has mail to serve.
AwakeForAReason == pc = "loop" /\ lpm = "RUN" => mail # "IDLE"

\* The device goes deaf only by an event inside a handler: without one, when
\* the SoftDevice is silent and the task has nothing to serve, a request to
\* advertise is pending.
NeverDeaf ==
  pc = "loop" /\ hit = "no" /\ air = "silent" /\ mail = "IDLE" =>
    "BLE" \in evts

\* Each turn of the main loop schedules and serves the mailbox; the
\* advertising timer fires and clients leave.
FairSpec ==
  /\ Spec /\ WF_vars(MainStep) /\ WF_vars(Dispatch)
  /\ WF_vars(AdvTimerFires) /\ WF_vars(Disconnected)

\* While LoRa has no gateway every device that advertises for a bounded time
\* retries LoRa, even if clients connect, leave and send wake-up signals,
\* unless the device resets first or an event falls inside a handler.
RetriesLora ==
  offline = "yes" ~> "LORA" \in evts \/ pc = "badstop" \/ hit = "yes"

-----------------------------------------------------------------------------
(* What the repository says of the task and its code does not do.          *)

\* bluetooth_low_power.c:176 updates the state to "not connected" on a
\* disconnection.
DisconUpdatesState == air = "silent" ~> obj = "IDLE"
=============================================================================
