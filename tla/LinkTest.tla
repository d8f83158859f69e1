------------------------------ MODULE LinkTest ------------------------------
(***************************************************************************)
(* The test of the LoRa link's loss rate: the test itself                  *)
(* (KEIL-MDK/FUNC/lora_lost_rate_test.c), the client's parameters and      *)
(* commands, which an interrupt writes and the main loop serves            *)
(* (BLE/ble_char_handler.c), and the reports of the LoRa task that drive   *)
(* it (APP/sys_proc.c).  Of a session only its kind and its end are left.  *)
(***************************************************************************)
EXTENDS Naturals

CONSTANTS
  Nums,     \* values a client gives counting_nums
  Times,    \* values a client gives timer_time
  Commands, \* commands a client writes
  MaxTx     \* bound: with so many counted only a last exchange begins

ASSUME LinkTestAssumption ==
  /\ Nums \subseteq Nat /\ Times \subseteq Nat
  /\ Commands \subseteq {"NULL", "START", "RETRANSMISSION", "STOP"}
  /\ MaxTx \in Nat \ {0} /\ Nums # {} /\ Times # {}

Controls == {"NULL", "START", "RETRANSMISSION", "STOP"}
Starts == {"START", "RETRANSMISSION"}

VARIABLES
  status,  \* llrt_status
  flag,    \* llrt_start_flag
  ctrl,    \* llrt_mod.comm_ctrl, written by the client and the device
  dev,     \* llrt_mod.dev_comm_ctrl
  nums,    \* llrt_mod.counting_nums
  time,    \* llrt_mod.timer_time
  tx, rx,  \* llrt_tx_cnt, llrt_rx_cnt
  timer,   \* llrt_timer: "off", "this" if this test started it, else "old"
  req,     \* misc_param_req: "param" for its four parameter bits, "ctrl"
  copy,    \* the main loop's copy of req while it clears bits
  session, \* LoRa: "idle", "test", "other", or "late": none, but a STOP that
           \* the slice timer posted
  pc,      \* the main loop
  meddled, \* history: parameters were written after the test's start
  asked,   \* history: the client's last command until it is served
  lost,    \* history: how that command was overwritten, or "no"
  cause    \* history: why llrt_start_flag was cleared in this test

client == <<ctrl, nums, time, req, meddled, asked, lost>>
counts == <<tx, rx>>
vars == <<status, flag, ctrl, dev, nums, time, tx, rx, timer, req, copy,
          session, pc, meddled, asked, lost, cause>>

Init ==
  /\ status = "STOP" /\ flag = "off" /\ ctrl = "NULL" /\ dev = "NULL"
  /\ nums \in Nums /\ time \in Times
  /\ tx = 0 /\ rx = 0 /\ timer = "off"
  /\ req = {} /\ copy = {} /\ session = "idle" /\ pc = "loop"
  /\ meddled = "no" /\ asked = "NULL" /\ lost = "no" /\ cause = "none"

Counting == nums # 0
Timed == nums = 0 /\ time # 0

-----------------------------------------------------------------------------
(* Interrupts.                                                             *)

\* The write handlers of the miscellaneous service.
WriteParam ==
  /\ req' = req \cup {"param"}
  /\ \/ nums' \in Nums /\ UNCHANGED time
     \/ time' \in Times /\ UNCHANGED nums
  /\ meddled' = IF status = "STOP" THEN meddled ELSE "yes"
  /\ UNCHANGED <<status, flag, ctrl, dev, counts, timer, copy, session, pc,
                 asked, lost, cause>>

WriteCtrl(c) ==
  /\ req' = req \cup {"ctrl"} /\ ctrl' = c /\ asked' = c
  /\ lost' = IF pc = "params" THEN "cleared" ELSE "no"
  /\ UNCHANGED <<status, flag, dev, nums, time, counts, timer, copy, session,
                 pc, meddled, cause>>

Cleared(why) == flag' = "off" /\ cause' = IF flag = "on" THEN why ELSE cause

\* swt_llrt_timer_cb
TimerFires ==
  /\ timer # "off"
  /\ timer' = "off" /\ Cleared(IF timer = "this" THEN "time" ELSE "stale")
  /\ UNCHANGED <<status, dev, client, counts, copy, session, pc>>

Interrupt == WriteParam \/ TimerFires \/ \E c \in Commands : WriteCtrl(c)

-----------------------------------------------------------------------------
(* misc_svc_char_change_handler, after each turn of the tasks.             *)

Loaded(bit) == copy' = req \ {bit}

\* Mutated form: every request is taken as served.
StoreNone == req' = {} /\ copy' = {}

\* The second half of misc_param_req &= ~bit
Store == req' = copy /\ copy' = {}

BeginRequests ==
  /\ pc = "loop" /\ req # {}
  /\ IF "param" \in req THEN Loaded("param") /\ pc' = "params"
                        ELSE pc' = "ctrl" /\ UNCHANGED copy
  /\ UNCHANGED <<status, flag, dev, client, counts, timer, session, cause>>

ParamsSeen ==
  /\ pc = "params"
  /\ Store /\ pc' = "ctrl"
  /\ UNCHANGED <<status, flag, ctrl, dev, nums, time, counts, timer, session,
                 meddled, asked, lost, cause>>

TakeCtrl ==
  /\ pc = "ctrl"
  /\ IF "ctrl" \in req THEN Loaded("ctrl") /\ pc' = "clear"
                       ELSE pc' = "loop" /\ UNCHANGED copy
  /\ UNCHANGED <<status, flag, dev, client, counts, timer, session, cause>>

ClearCtrl ==
  /\ pc = "clear"
  /\ Store /\ pc' = "serve"
  /\ UNCHANGED <<status, flag, ctrl, dev, nums, time, counts, timer, session,
                 meddled, asked, lost, cause>>

Served == asked' = "NULL" /\ lost' = "no"

\* The device writes ctrl, and with it over a command not served yet.
Overwrite(c) ==
  ctrl' = c /\ lost' = IF asked # "NULL" THEN "overwritten" ELSE lost

\* A start with neither a count nor a time is refused, and one during a test
\* has the test's own command put back.
RefuseStart ==
  /\ pc = "serve" /\ ctrl \in Starts
  /\ IF ~Counting /\ ~Timed THEN pc' = "refuse"
                            ELSE dev \in Starts /\ pc' = "restore"
  /\ Served
  /\ UNCHANGED <<status, flag, ctrl, dev, nums, time, counts, timer, req, copy,
                 session, meddled, cause>>

Refused ==
  /\ pc \in {"refuse", "restore"}
  /\ IF pc = "refuse" THEN Overwrite("NULL") /\ dev' = "NULL"
                      ELSE Overwrite(dev) /\ UNCHANGED dev
  /\ pc' = "loop"
  /\ UNCHANGED <<status, flag, nums, time, counts, timer, req, copy, session,
                 meddled, asked, cause>>

AcceptStart ==
  /\ pc = "serve" /\ ctrl \in Starts
  /\ Counting \/ Timed
  /\ dev \notin Starts
  /\ IF status = "STOP"
       THEN /\ status' = "ACTIVE" /\ pc' = "name"
            /\ meddled' = IF timer = "off" THEN "no" ELSE meddled
       ELSE pc' = "loop" /\ UNCHANGED <<status, meddled>>
  /\ Served
  /\ UNCHANGED <<flag, ctrl, dev, nums, time, counts, timer, req, copy,
                 session, cause>>

\* dev_comm_ctrl = comm_ctrl, whatever the client has written meanwhile
NameTest ==
  /\ pc = "name"
  /\ dev' = ctrl /\ pc' = "loop"
  /\ UNCHANGED <<status, flag, client, counts, timer, copy, session, cause>>

\* llrt_stop
Stop == Cleared("client") /\ timer' = IF Timed THEN "off" ELSE timer

ServeStop ==
  /\ pc = "serve" /\ ctrl \notin Starts
  /\ IF ctrl = "STOP" THEN Stop ELSE UNCHANGED <<flag, timer, cause>>
  /\ Served /\ pc' = "loop"
  /\ UNCHANGED <<status, ctrl, dev, nums, time, counts, req, copy, session,
                 meddled>>

-----------------------------------------------------------------------------
(* The LoRa task and the reports it makes.                                 *)

\* Mutated form: the counters of the last test are kept.
KeepCounts == tx' = 0 /\ UNCHANGED rx

ZeroCounts == tx' = 0 /\ rx' = 0

\* Mutated form: a test by time starts no timer.
NoTimer == UNCHANGED timer

\* Starting a timer that runs is ignored.
StartTimer ==
  timer' = IF timer # "off" THEN "old" ELSE IF Timed THEN "this" ELSE "off"

MayStart == status = "ACTIVE"

\* lora_task_operate finds LLRT_ACTIVE with no session open: llrt_start.
StartTest ==
  /\ pc = "loop" /\ MayStart /\ session \in {"idle", "late"}
  /\ ZeroCounts /\ StartTimer /\ flag' = "on" /\ status' = "RUN"
  /\ session' = "test" /\ cause' = "none"
  /\ UNCHANGED <<dev, client, copy, pc>>

\* A session of the chain of measurements.
OtherSession ==
  /\ pc = "loop" /\ status # "RUN"
  /\ \/ session = "idle" /\ status = "STOP" /\ session' = "other"
     \/ session \in {"other", "late"} /\ session' = "idle"
  /\ UNCHANGED <<status, flag, dev, client, counts, timer, copy, pc, cause>>

\* slp_task_stop_handler
NextExchange ==
  /\ pc = "loop" /\ status = "RUN" /\ session = "idle"
  /\ tx < MaxTx \/ flag = "off"
  /\ session' = "test"
  /\ UNCHANGED <<status, flag, dev, client, counts, timer, copy, pc, cause>>

\* lora_status_tx_success and lora_status_stop; the slice timer may come
\* between an answer and its report.
Exchange ==
  /\ pc = "loop" /\ session = "test"
  /\ \/ rx' = rx + 1 /\ session' \in {"idle", "late"}
     \/ UNCHANGED rx /\ session' = "idle"
  /\ pc' = "add"
  /\ UNCHANGED <<status, flag, dev, client, tx, timer, copy, cause>>

\* A STOP without a session makes lora_status_stop report a test again.
LateStop ==
  /\ pc = "loop" /\ session = "late" /\ status = "RUN"
  /\ session' = "idle" /\ pc' = "add"
  /\ UNCHANGED <<status, flag, dev, client, counts, timer, copy, cause>>

\* Mutated form: one exchange too many.
CountPassed == Counting /\ tx >= nums

CountReached == Counting /\ tx + 1 >= nums

\* llrt_tx_add
AddTx ==
  /\ pc = "add"
  /\ tx' = tx + 1 /\ pc' = "calc"
  /\ IF CountReached THEN Cleared("count") ELSE UNCHANGED <<flag, cause>>
  /\ UNCHANGED <<status, dev, client, rx, timer, copy, session>>

EndTest == status' = "STOP" /\ Overwrite("NULL") /\ dev' = "NULL"

\* llrt_lost_rate_calc; its end overwrites a command not served yet.
Calc ==
  /\ pc = "calc"
  /\ pc' = "loop"
  /\ IF flag = "off" THEN EndTest /\ cause' = "none"
                     ELSE UNCHANGED <<status, ctrl, dev, lost, cause>>
  /\ UNCHANGED <<flag, nums, time, counts, timer, req, copy, session, meddled,
                 asked>>

Requests ==
  \/ BeginRequests \/ ParamsSeen \/ TakeCtrl \/ ClearCtrl
  \/ RefuseStart \/ Refused \/ AcceptStart \/ NameTest \/ ServeStop

Tasks ==
  \/ StartTest \/ OtherSession \/ NextExchange \/ Exchange \/ LateStop
  \/ AddTx \/ Calc

Next == Interrupt \/ Requests \/ Tasks

Spec == Init /\ [][Next]_vars

\* Each turn of the main loop comes by every task and by the requests; a
\* session of a test that does not repeat itself ends with its one attempt,
\* and a sleep between two exchanges ends.  One that repeats itself may wait
\* for an answer without end.
Fairness ==
  /\ WF_vars(Requests \/ AddTx \/ Calc) /\ WF_vars(TimerFires)
  /\ SF_vars(NextExchange \/ LateStop \/ (dev = "START" /\ Exchange))

FairSpec == Spec /\ Fairness

-----------------------------------------------------------------------------
(* Properties.                                                             *)

\* Every variable of the test and its commands keeps a value of its type.
TypeOK ==
  /\ status \in {"STOP", "ACTIVE", "RUN"} /\ flag \in {"on", "off"}
  /\ ctrl \in Controls /\ dev \in Controls /\ asked \in Controls
  /\ nums \in Nums /\ time \in Times
  /\ tx \in 0..(MaxTx + 2) /\ rx \in 0..(MaxTx + 2)
  /\ timer \in {"off", "this", "old"}
  /\ req \subseteq {"param", "ctrl"} /\ copy \subseteq {"param", "ctrl"}
  /\ session \in {"idle", "test", "other", "late"}
  /\ pc \in {"loop", "params", "ctrl", "clear", "serve", "refuse", "restore",
            "name", "add", "calc"}
  /\ meddled \in {"no", "yes"} /\ lost \in {"no", "cleared", "overwritten"}
  /\ cause \in {"none", "count", "time", "client", "stale"}

\* The loss rate (tx - rx) / tx, in unsigned numbers, is a share: at least one
\* exchange is counted when it is computed, and no more answers than these.
LossIsAShare == pc = "calc" => tx > 0 /\ rx \leq tx

\* A test nobody stopped has an end before it, unless the client changed its
\* parameters after the start: a count not reached or a timer that runs.
TestWillEnd ==
  status = "RUN" /\ flag = "on" /\ meddled = "no" =>
    IF Counting THEN tx < nums ELSE timer # "off"

\* A timer left over from an earlier test cuts a test short only if a client
\* changed the parameters of a test after its start.
CutShortByMeddling ==
  status = "RUN" /\ cause = "stale" => meddled = "yes"

\* When no test is requested or under way the device holds no command of its
\* own, or every later start would be taken for one during a test.
StoppedMayStart == status = "STOP" /\ pc # "name" => dev = "NULL"

\* A client's command waits with its bit set until it is served.  It is lost
\* only when it is written between the reading and the writing of the bits of
\* the parameters, or when the device writes its own state over it.
CommandWaits ==
  asked # "NULL" /\ lost = "no" =>
    /\ ctrl = asked
    /\ "ctrl" \in req \/ pc = "serve"

\* A stop served during a test is not taken back: the report of the exchange
\* under way ends the test.
StopSticks ==
  [][status = "RUN" /\ flag = "off" => flag' = "off" \/ status' # "RUN"]_vars

\* A test that does not repeat itself ends, whatever the gateway and the client
\* do, unless the client changes its parameters.
TestEnds ==
  status = "RUN" /\ dev = "START" ~> status # "RUN" \/ meddled = "yes"
=============================================================================
