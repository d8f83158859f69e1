------------------------------ MODULE LoraTask ------------------------------
(***************************************************************************)
(* The LoRa transmission task (KEIL-MDK/APP/lora_transmission.c).          *)
(*                                                                         *)
(* The task is a state machine run by the main loop and preempted by       *)
(* interrupt handlers.  One variable, lora_state, is the mailbox both      *)
(* sides write: cmd here.  A main-loop handler begins by emptying the      *)
(* mailbox and only then switches off the sources that fill it, so each    *)
(* handler is split below at the points where a preempting handler can be  *)
(* told apart; pc is the place the main loop has reached.  Every interrupt *)
(* of the application has the same priority (sdk_config.h: 6), so an       *)
(* interrupt handler is one atomic step.                                   *)
(***************************************************************************)
EXTENDS Naturals

CONSTANTS
  MaxFails,   \* param.tx_max_fail_times; a value above FailCap is never reached
  FailCap,    \* bound: the failure counter saturates here
  SlowLink    \* TRUE: waiting for one reply may take longer than the time slice

ASSUME LoraAssumption ==
  /\ MaxFails \in Nat \ {0}
  /\ FailCap \in Nat \ {0}
  /\ SlowLink \in BOOLEAN

Commands == {"IDLE", "ACTIVE", "TX_SUCCESS", "TX_FAIL", "STOP"}
Links    == {"OFFLINE", "CONNECT"}
Reports  == {"NONE", "OFFLINE", "DISCON", "LINK", "CONNECT", "TEST"}

(***************************************************************************)
(* What the receive buffer of wireless_comm_services.c holds, told apart   *)
(* by what _parseMasterMsg makes of it: a frame it accepts, a frame it     *)
(* rejects and clears, a link-test reply with a wrong payload, which it    *)
(* rejects without clearing, and a frame whose length does not fit, for    *)
(* which only the flag is set.                                             *)
(***************************************************************************)
Frames == {"valid", "junk", "badtest", "empty"}

Locations == {"loop", "active", "transmit", "success", "parse", "fail",
              "backoff", "stop", "halt", "reset", "unwind", "report", "fault"}

VARIABLES
  cmd,     \* lora_state, the mailbox
  obj,     \* lora_obj.state
  conn,    \* lora_conn_status
  pre,     \* lora_pre_conn_status
  fails,   \* lora_obj.param.tx_fail_times
  out,     \* lora_out_status, the last report
  lpm,     \* the task's entry in the low-power table
  armed,   \* the running timers: "slice", "reply" and "backoff"
  radio,   \* "off": not configured, "on": configured, "rx": receiving
  rx,      \* the receive buffer: "none" or a frame
  llrt,    \* llrt_status
  ctrl,    \* llrt_mod.dev_comm_ctrl
  sig,     \* the signal-detection input: "on" or "off"
  answer,  \* history: the last session "awaits" its first answer, has "failed"
           \* an attempt since, or "got" an accepted reply
  pc

vars == <<cmd, obj, conn, pre, fails, out, lpm, armed, radio,
          rx, llrt, ctrl, sig, answer, pc>>

Init ==
  /\ cmd = "IDLE" /\ obj = "IDLE"
  /\ conn = "OFFLINE" /\ pre = "OFFLINE"
  /\ fails = 0 /\ out = "NONE" /\ lpm = "STOP"
  /\ armed = {}
  /\ radio = "off" /\ rx = "none"
  /\ llrt = "STOP" /\ ctrl = "NULL"
  /\ sig = "on" /\ answer = "awaits"
  /\ pc = "loop"

-----------------------------------------------------------------------------
(* Interrupt handlers.                                                     *)

\* Mutated form: the last writer wins.
Overwrite(c) == cmd' = c

\* Written by every timer handler: a pending STOP is never overwritten here.
Post(c) == cmd' = IF cmd = "STOP" THEN "STOP" ELSE c

(***************************************************************************)
(* With ordinary radio parameters one attempt resolves well within the     *)
(* 30 s slice, so the slice can only end after a failed attempt or an      *)
(* accepted reply.  With SlowLink (SF12 at 7.8 kHz: the reply alone takes  *)
(* longer than 30 s) it can end during the first attempt.                  *)
(***************************************************************************)
SliceFires ==
  /\ "slice" \in armed
  /\ SlowLink \/ answer # "awaits"
  /\ armed' = armed \ {"slice"}
  /\ Post("STOP")
  /\ UNCHANGED <<obj, conn, pre, fails, out, lpm, radio, rx, llrt, ctrl, sig,
                 answer, pc>>

TxTimeoutFires ==
  /\ "reply" \in armed
  /\ armed' = armed \ {"reply"}
  /\ Post("TX_FAIL")
  /\ UNCHANGED <<obj, conn, pre, fails, out, lpm, radio, rx, llrt, ctrl, sig,
                 answer, pc>>

IdleFires ==
  /\ "backoff" \in armed
  /\ armed' = armed \ {"backoff"}
  /\ Post("ACTIVE")
  /\ UNCHANGED <<obj, conn, pre, fails, out, lpm, radio, rx, llrt, ctrl, sig,
                 answer, pc>>

\* wirelessRxCpltCallBack: a frame is kept only when the buffer is empty.
Store(f) ==
  rx' = IF rx \in {"none", "empty"} THEN f ELSE rx

\* The radio's DIO1 edge.  A receive window raises it once.
RadioIrq(f) ==
  /\ radio = "rx"
  /\ radio' = "on"
  /\ IF obj = "ACTIVE" /\ cmd # "STOP"
       THEN Store(f) /\ cmd' = "TX_SUCCESS"
       ELSE UNCHANGED <<rx, cmd>>
  /\ UNCHANGED <<obj, conn, pre, fails, out, lpm, armed, llrt, ctrl, sig,
                 answer, pc>>

\* The signal-detection edge switches its own input off.
SignalIrq ==
  /\ sig = "on"
  /\ sig' = "off"
  /\ UNCHANGED <<cmd, obj, conn, pre, fails, out, lpm, armed, radio, rx, llrt,
                 ctrl, answer, pc>>

Interrupt ==
  \/ SliceFires \/ TxTimeoutFires \/ IdleFires \/ SignalIrq
  \/ \E f \in Frames : RadioIrq(f)

-----------------------------------------------------------------------------
(* Requests made of the task by the other tasks of the main loop.          *)

\* lora_task_start
Start ==
  /\ pc = "loop" /\ obj = "IDLE"
  /\ lpm' = "RUN" /\ cmd' = "ACTIVE" /\ pre' = conn
  /\ UNCHANGED <<obj, conn, fails, out, armed, radio, rx, llrt, ctrl, sig,
                 answer, pc>>

\* A BLE client asks for a link test, of single attempts or with retries.
LlrtRequest ==
  /\ pc = "loop" /\ llrt = "STOP"
  /\ llrt' = "ACTIVE" /\ ctrl' \in {"START", "RETRANSMISSION"}
  /\ UNCHANGED <<cmd, obj, conn, pre, fails, out, lpm, armed, radio, rx, sig,
                 answer, pc>>

\* lora_reset, called when an address is rewritten.
ResetBegin ==
  /\ pc = "loop"
  /\ cmd' = "IDLE" /\ pc' = "reset"
  /\ UNCHANGED <<obj, conn, pre, fails, out, lpm, armed, radio, rx, llrt,
                 ctrl, sig, answer>>

ResetForget ==
  /\ pc = "reset"
  /\ obj' = "IDLE" /\ conn' = "OFFLINE" /\ pre' = "OFFLINE" /\ fails' = 0
  /\ pc' = "unwind"
  /\ UNCHANGED <<cmd, out, lpm, armed, radio, rx, llrt, ctrl, sig, answer>>

\* Mutated form: the slice survives.
SliceForgotten == armed' = armed \ {"reply", "backoff"}

AllTimersOff == armed' = {}

ResetEnd ==
  /\ pc = "unwind"
  /\ AllTimersOff /\ radio' = "off" /\ lpm' = "STOP"
  /\ out' = "DISCON" /\ pc' = "report"
  /\ UNCHANGED <<cmd, obj, conn, pre, fails, rx, llrt, ctrl, sig, answer>>

Request == Start \/ LlrtRequest \/ ResetBegin

-----------------------------------------------------------------------------
(* The main loop: lora_task_operate and its four handlers.                 *)

Handler == [ACTIVE |-> "active", TX_SUCCESS |-> "success", TX_FAIL |-> "fail",
            STOP |-> "stop", IDLE |-> "loop"]

\* A requested link test starts as soon as no session is open.
Dispatch ==
  /\ pc = "loop"
  /\ IF obj = "IDLE" /\ llrt = "ACTIVE"
       THEN llrt' = "RUN" /\ cmd' = "ACTIVE" /\ pc' = "active"
       ELSE cmd # "IDLE" /\ pc' = Handler[cmd] /\ UNCHANGED <<llrt, cmd>>
  /\ UNCHANGED <<obj, conn, pre, fails, out, lpm, armed, radio, rx, ctrl, sig,
                 answer>>

(***************************************************************************)
(* lora_status_active up to lora_cfg: a new session when none is open, and *)
(* the signal-detection input off during the transmission.                 *)
(***************************************************************************)
ActiveBegin ==
  /\ pc = "active"
  /\ cmd' = "IDLE" /\ lpm' = "RUN" /\ sig' = "off"
  /\ IF obj = "IDLE"
       THEN /\ obj' = "ACTIVE" /\ armed' = armed \cup {"slice"}
            /\ answer' = "awaits"
       ELSE UNCHANGED <<obj, armed, answer>>
  /\ pc' = "transmit"
  /\ UNCHANGED <<conn, pre, fails, out, radio, rx, llrt, ctrl>>

(***************************************************************************)
(* lora_cfg, channel detection, the blocking transmission and the opening  *)
(* of the receive window.  Configuring a radio that is configured already  *)
(* fails APP_ERROR_CHECK, which resets the device.                         *)
(***************************************************************************)
CadBusy == radio' = "on" /\ cmd' = "TX_FAIL" /\ UNCHANGED armed

TxError == radio' = "rx" /\ cmd' = "TX_FAIL" /\ UNCHANGED armed

\* Mutated form: the reply timer is not started.
TxUntimed == radio' = "rx" /\ UNCHANGED <<armed, cmd>>

TxOk == radio' = "rx" /\ armed' = armed \cup {"reply"} /\ UNCHANGED cmd

Transmit ==
  /\ pc = "transmit" /\ radio = "off"
  /\ CadBusy \/ TxError \/ TxOk
  /\ sig' = "on" /\ pc' = "loop"
  /\ UNCHANGED <<obj, conn, pre, fails, out, lpm, rx, llrt, ctrl, answer>>

DoubleInit ==
  /\ pc = "transmit" /\ radio # "off"
  /\ pc' = "fault"
  /\ UNCHANGED <<cmd, obj, conn, pre, fails, out, lpm, armed, radio, rx, llrt,
                 ctrl, sig, answer>>

\* lora_status_tx_success up to lora_cfg_default.
SuccessBegin ==
  /\ pc = "success"
  /\ cmd' = "IDLE" /\ armed' = armed \ {"reply"} /\ radio' = "off"
  /\ pc' = "parse"
  /\ UNCHANGED <<obj, conn, pre, fails, out, lpm, rx, llrt, ctrl, sig,
                 answer>>

\* _parseMasterMsg: it empties the buffer except for a bad link-test reply.
ParseFails ==
  /\ pc = "parse" /\ rx # "valid"
  /\ rx' = IF rx = "badtest" THEN rx ELSE "none"
  /\ cmd' = "TX_FAIL" /\ pc' = "loop"
  /\ UNCHANGED <<obj, conn, pre, fails, out, lpm, armed, radio, llrt, ctrl,
                 sig, answer>>

\* A link test and a connection end the session here, a publication by STOP.
ParseAccepts ==
  /\ pc = "parse" /\ rx = "valid"
  /\ rx' = "none" /\ fails' = 0 /\ answer' = "got"
  /\ IF llrt = "RUN" \/ conn = "OFFLINE"
       THEN /\ armed' = armed \ {"slice"} /\ obj' = "IDLE" /\ lpm' = "STOP"
            /\ out' = IF llrt = "RUN" THEN "TEST" ELSE "LINK"
            /\ conn' = IF llrt = "RUN" THEN conn ELSE "CONNECT"
            /\ pc' = "report"
            /\ UNCHANGED cmd
       ELSE /\ cmd' = "STOP" /\ pc' = "loop"
            /\ UNCHANGED <<armed, obj, lpm, out, conn>>
  /\ UNCHANGED <<pre, radio, llrt, ctrl, sig>>

\* Mutated form: a failed attempt is not counted.
NotCounted == UNCHANGED fails

CountFailure == fails' = IF fails < FailCap THEN fails + 1 ELSE fails

\* lora_status_tx_fail up to the comparison with the limit.
FailBegin ==
  /\ pc = "fail"
  /\ cmd' = "IDLE" /\ pc' = "backoff"
  /\ CountFailure /\ answer' = IF answer = "got" THEN "got" ELSE "failed"
  /\ UNCHANGED <<obj, conn, pre, out, lpm, armed, radio, rx, llrt, ctrl,
                 sig>>

Limit == IF llrt = "RUN" /\ ctrl = "START" THEN 1 ELSE MaxFails

GiveUp ==
  /\ pc = "backoff" /\ fails >= Limit
  /\ cmd' = "STOP" /\ pc' = "loop"
  /\ UNCHANGED <<obj, conn, pre, fails, out, lpm, armed, radio, rx, llrt,
                 ctrl, sig, answer>>

SleepUntilRetry == lpm' = "LP" /\ armed' = armed \cup {"backoff"}

BackOff ==
  /\ pc = "backoff" /\ fails < Limit
  /\ radio' = "off" /\ SleepUntilRetry /\ pc' = "loop"
  /\ UNCHANGED <<cmd, obj, conn, pre, fails, out, rx, llrt, ctrl, sig,
                 answer>>

\* lora_status_stop.
StopBegin ==
  /\ pc = "stop"
  /\ cmd' = "IDLE" /\ pc' = "halt"
  /\ UNCHANGED <<obj, conn, pre, fails, out, lpm, armed, radio, rx, llrt,
                 ctrl, sig, answer>>

Verdict ==
  IF llrt = "RUN" THEN "TEST"
  ELSE IF pre = "OFFLINE" THEN "OFFLINE"
  ELSE IF fails # 0 THEN "DISCON" ELSE "CONNECT"

\* Mutated form: a lost connection is reported but kept.
StayConnected == UNCHANGED conn

Disconnect == conn' = IF Verdict = "DISCON" THEN "OFFLINE" ELSE conn

StopEnd ==
  /\ pc = "halt"
  /\ AllTimersOff /\ radio' = "off" /\ obj' = "IDLE" /\ lpm' = "STOP"
  /\ out' = Verdict /\ Disconnect
  /\ fails' = 0 /\ pc' = "report"
  /\ UNCHANGED <<cmd, pre, rx, llrt, ctrl, sig, answer>>

\* lora_task_stop_handler; it may end a link test, never start one.
Report ==
  /\ pc = "report"
  /\ pc' = "loop"
  /\ \/ UNCHANGED <<llrt, ctrl>>
     \/ out = "TEST" /\ llrt' = "STOP" /\ ctrl' = "NULL"
  /\ UNCHANGED <<cmd, obj, conn, pre, fails, out, lpm, armed, radio, rx, sig,
                 answer>>

\* The reset that follows a failed APP_ERROR_CHECK.
Reboot ==
  /\ pc = "fault"
  /\ cmd' = "IDLE" /\ obj' = "IDLE" /\ conn' = "OFFLINE" /\ pre' = "OFFLINE"
  /\ fails' = 0 /\ out' = "NONE" /\ lpm' = "STOP"
  /\ AllTimersOff /\ radio' = "off" /\ rx' = "none"
  /\ llrt' = "STOP" /\ ctrl' = "NULL"
  /\ sig' = "on" /\ answer' = "awaits" /\ pc' = "loop"

MainStep ==
  \/ Dispatch \/ ActiveBegin \/ Transmit \/ DoubleInit
  \/ SuccessBegin \/ ParseFails \/ ParseAccepts
  \/ FailBegin \/ GiveUp \/ BackOff \/ StopBegin \/ StopEnd
  \/ ResetForget \/ ResetEnd \/ Report \/ Reboot

Next == MainStep \/ Request \/ Interrupt

Spec == Init /\ [][Next]_vars

\* The main loop keeps turning and a running timer fires; the gateway, the
\* client and the other tasks owe nothing.
Fairness ==
  /\ WF_vars(MainStep)
  /\ WF_vars(SliceFires) /\ WF_vars(TxTimeoutFires) /\ WF_vars(IdleFires)

FairSpec == Spec /\ Fairness

-----------------------------------------------------------------------------
(* Properties.                                                             *)

\* Every variable of lora_transmission.c keeps a value of its type.
TypeOK ==
  /\ cmd \in Commands /\ obj \in {"IDLE", "ACTIVE"}
  /\ conn \in Links /\ pre \in Links
  /\ fails \in 0..FailCap /\ out \in Reports
  /\ lpm \in {"RUN", "LP", "STOP"}
  /\ armed \subseteq {"slice", "reply", "backoff"}
  /\ radio \in {"off", "on", "rx"} /\ rx \in Frames \cup {"none"}
  /\ llrt \in {"STOP", "ACTIVE", "RUN"} 
  /\ ctrl \in {"NULL", "START", "RETRANSMISSION"}
  /\ sig \in {"on", "off"} /\ answer \in {"awaits", "failed", "got"}
  /\ pc \in Locations

\* Between sessions the radio is unconfigured (it draws no power and its SPI
\* driver may be initialised again) and neither the slice nor the reply timer
\* runs, however the session ended: by an answer, by STOP or by lora_reset.
IdleMeansQuiet ==
  pc = "loop" /\ obj = "IDLE" => radio = "off" /\ armed \subseteq {"backoff"}

\* The task never sleeps through its session: with the mailbox empty an open
\* session awaits the reply timer, or sleeps and awaits the back-off timer.
NoLostWakeup ==
  pc = "loop" /\ obj = "ACTIVE" /\ cmd = "IDLE" =>
    \/ lpm = "RUN" /\ "reply" \in armed
    \/ lpm = "LP" /\ "backoff" \in armed

\* The task keeps the processor awake (LPM_TASK_STA_RUN) only while it has a
\* command to serve or a reply window that will be closed by a timer.
AwakeForAReason ==
  pc = "loop" /\ lpm = "RUN" => cmd # "IDLE" \/ "reply" \in armed

\* lora_status_stop infers the outcome from the failure counter alone.  A
\* session in which a reply was accepted never ends as a lost connection.
AnsweredIsNotLost ==
  [][pc = "halt" /\ pc' = "report" /\ out' = "DISCON" => answer # "got"]_vars

\* And an open session ends as confirmed only if a reply was accepted.
ConfirmedMeansAnswered ==
  [][pc = "halt" /\ obj = "ACTIVE" /\ pc' = "report" /\ out' = "CONNECT"
       => answer = "got"]_vars

\* An open session never stalls: from the main loop it always comes to another
\* attempt or to a report, whatever the gateway does or fails to do.
AttemptsContinue ==
  obj = "ACTIVE" /\ pc = "loop" ~> pc \in {"transmit", "report"}

\* A command that is served though the session it was meant for is over.
Served ==
  \/ cmd \in {"STOP", "TX_SUCCESS", "TX_FAIL"}
  \/ pc \in {"stop", "halt", "success", "parse", "fail", "backoff"}

Again == IF pc = "unwind" THEN "reset"
         ELSE IF obj = "IDLE" /\ Served THEN "yes" ELSE "no"

Session == IF obj = "ACTIVE" THEN "open" ELSE "none"

Heard == IF answer = "got" THEN "yes" ELSE "no"

Service == INSTANCE LoraService WITH
  Slow <- SlowLink, Retries <- MaxFails > 1,
  session <- Session, began <- pre, heard <- Heard, link <- conn, said <- out,
  again <- Again

\* The task keeps the promise of LoraService: one report for a session and one
\* more at most, and no change of the connection but the reported one.
KeepsService == Service!Spec

-----------------------------------------------------------------------------
(* What the repository says of the task and its code does not do.          *)

\* sys_param.h:59 gives a session a time slice: an open session ends.
SessionEnds == obj = "ACTIVE" ~> obj = "IDLE"
=============================================================================
