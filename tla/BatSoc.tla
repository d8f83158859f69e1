------------------------------- MODULE BatSoc -------------------------------
(***************************************************************************)
(* The battery gauge (KEIL-MDK/FUNC/sw_bat_soc.c).  Every task adds what   *)
(* it consumed to a total and has the charge recomputed; LoRa's reply      *)
(* timer does so in an interrupt, inside the main loop's own computation,  *)
(* report or save.  The totals live in one flash page, rewritten each time *)
(* the charge falls by a level; the power may fail at any moment.          *)
(*                                                                         *)
(* Energies are counted in units, Unit of them to a level (a percent): one *)
(* consumption is 0, below the resolution of the floats, or 1.             *)
(***************************************************************************)
EXTENDS Integers

CONSTANTS Levels,   \* the levels of a full battery, 100 in the code
          Unit,     \* units to a level
          MaxClock  \* bound: run time counted between two resets

ASSUME BatSocAssumption ==
  /\ Levels \in Nat \ {0} /\ Unit \in Nat \ {0, 1} /\ MaxClock \in Nat

VARIABLES
  used,   \* the totals, added up
  bad,    \* totals read from a torn page are NaN: "no", "standby" or "ever"
  cap,    \* cap_percent
  pre,    \* m_pre_cap_percent
  flag,   \* m_power_update_flag
  save,   \* data_save_flag
  mine,   \* the main loop's copies: totals loaded, then the level
  page,   \* the flash page
  told,   \* the battery level last written to the object and to Bluetooth
  waits,  \* LoRa awaits a reply, its timer runs: "yes" or "no"
  ble,    \* [on, mtx, since, time]: the task, m_ble_time_mtx,
          \*   m_ble_run_time and ble_run_time
  clock,  \* calendar->get_run_time()
  active, \* history: the time Bluetooth has been active
  step,   \* the place the main loop has reached
  cut     \* history: since the last reset a reply timed out inside a
          \*   computation or a report, or that reset read a page whose
          \*   level is not the one of its totals

gauge == <<used, bad, cap, pre, flag, save>>
radio == <<ble, clock, active>>
gaugeVars == <<gauge, mine, page, told, waits, radio, step, cut>>

Full == Levels * Unit

Calculating == {"load", "store", "compare", "pre"}
Saving == {"erase", "write", "rest"}

Erased == [kind |-> "erased", cap |-> 0, used |-> 0, bad |-> "no", time |-> 0]

\* rest_cap, cut off at 0, actual_cap and cap_percent: the level that the
\* totals leave.  A NaN compares false and converts to 0.
Level(u, b) == IF b = "no" /\ u <= Full THEN (Full - u) \div Unit ELSE 0

\* sw_bat_soc_init; iot_init has written 100 to the object.
Fresh ==
  /\ flag' = 1 /\ save' = 0 /\ mine' = 0 /\ told' = Levels /\ waits' = "no"
  /\ clock' = 0 /\ step' = "report"

GaugeInit ==
  /\ used = 0 /\ bad = "no" /\ cap = Levels - 1 /\ pre = Levels - 1
  /\ flag = 1 /\ save = 0 /\ mine = 0 /\ page = Erased /\ told = Levels
  /\ waits = "no"
  /\ ble = [on |-> "no", mtx |-> 0, since |-> 0, time |-> 0]
  /\ clock = 0 /\ active = 0 /\ step = "report" /\ cut = "no"

-----------------------------------------------------------------------------
(* What is consumed.                                                       *)

\* Bound: the battery may give a unit more than it should hold.
Costs == {e \in 0..1 : used + e <= Full + 1}

\* Time passes between two passes of the main loop.
Tick ==
  /\ step = "loop" /\ clock < MaxClock
  /\ clock' = clock + 1
  /\ active' = IF ble.on = "yes" THEN active + 1 ELSE active
  /\ UNCHANGED <<gauge, mine, page, told, waits, ble, step, cut>>

\* Mutated form: every start of advertising restarts the count.
Restart == ble' = [ble EXCEPT !.on = "yes", !.mtx = 1, !.since = clock]

\* ble_run_time_start
RunTimeStart ==
  ble' = IF ble.mtx = 0
           THEN [ble EXCEPT !.on = "yes", !.mtx = 1, !.since = clock]
           ELSE ble

\* Advertising is opened, possibly again before the task was stopped.
BleStarts ==
  /\ step = "loop"
  /\ RunTimeStart /\ step' = "report"
  /\ UNCHANGED <<gauge, mine, page, told, waits, clock, active, cut>>

\* ble_run_time_add and ble_power_add of ble_task_stop_handler; m_ble_run_time
\* holds the difference afterwards.
BleStops ==
  /\ step = "loop" /\ ble.on = "yes"
  /\ ble' = [on |-> "no", mtx |-> 0, since |-> clock - ble.since,
             time |-> ble.time + (clock - ble.since)]
  /\ \E e \in Costs : used' = used + e
  /\ step' = "load"
  /\ UNCHANGED <<bad, cap, pre, flag, save, mine, page, told, waits, clock,
                 active, cut>>

\* sca_power_add and standby_power_add run in the chain of tasks, never while
\* LoRa awaits a reply.  The standby total is computed anew from the run time.
Samples ==
  /\ step = "loop" /\ waits = "no"
  /\ \E e \in Costs : used' = used + e
  /\ bad' \in {bad, IF bad = "standby" THEN "no" ELSE bad}
  /\ step' = "load"
  /\ UNCHANGED <<cap, pre, flag, save, mine, page, told, waits, radio, cut>>

Transmits ==
  /\ step = "loop" /\ waits = "no"
  /\ waits' = "yes" /\ step' = "report"
  /\ UNCHANGED <<gauge, mine, page, told, radio, cut>>

\* lora_status_tx_success stops the timer and adds its energy.
Answered ==
  /\ step = "loop" /\ waits = "yes"
  /\ \E e \in Costs : used' = used + e
  /\ waits' = "no" /\ step' = "load"
  /\ UNCHANGED <<bad, cap, pre, flag, save, mine, page, told, radio, cut>>

-----------------------------------------------------------------------------
(* sw_bat_soc_power_calc, in the main loop step by step.                   *)

Load ==
  /\ step = "load"
  /\ mine' = Level(used, bad) /\ step' = "store"
  /\ UNCHANGED <<gauge, page, told, waits, radio, cut>>

Store ==
  /\ step = "store"
  /\ cap' = mine /\ step' = "compare"
  /\ UNCHANGED <<used, bad, pre, flag, save, mine, page, told, waits, radio,
                 cut>>

\* Mutated form: a fall is reported but not saved.
RaisedOnly(before, now) ==
  /\ flag' = IF before > now THEN 1 ELSE flag
  /\ UNCHANGED save

\* Mutated form: off by one, a fall is noticed when it is of two levels.
RaisedLate(before, now) ==
  IF before > now + 1 THEN flag' = 1 /\ save' = 1 ELSE UNCHANGED <<flag, save>>

\* Mutated form: a fall is saved but not reported.
SavedOnly(before, now) ==
  /\ save' = IF before > now THEN 1 ELSE save
  /\ UNCHANGED flag

\* A level lost is to be reported and saved.
Raised(before, now) ==
  IF before > now THEN flag' = 1 /\ save' = 1 ELSE UNCHANGED <<flag, save>>

\* The compiler may keep the level in a register or read it again.
Compare ==
  /\ step = "compare"
  /\ \E now \in {mine, cap} : Raised(pre, now)
  /\ step' = "pre"
  /\ UNCHANGED <<used, bad, cap, pre, mine, page, told, waits, radio, cut>>

Remember ==
  /\ step = "pre"
  /\ pre' \in {mine, cap} /\ step' = "report"
  /\ UNCHANGED <<used, bad, cap, flag, save, mine, page, told, waits, radio,
                 cut>>

(***************************************************************************)
(* swt_lora_tx_timeout_cb: the interrupt adds the energy of a failed       *)
(* transmission and computes the level in one go.                          *)
(***************************************************************************)
TimesOut ==
  /\ waits = "yes"
  /\ \E e \in Costs :
       /\ used' = used + e
       /\ cap' = Level(used + e, bad) /\ pre' = cap' /\ Raised(pre, cap')
  /\ waits' = "no"
  /\ cut' = IF step \in Calculating \cup {"taken"} THEN "yes" ELSE cut
  /\ UNCHANGED <<bad, mine, page, told, radio, step>>

-----------------------------------------------------------------------------
(* The rest of a pass: report and save.                                    *)

\* A pass in which no task had anything to add.
Passes ==
  /\ step = "loop" /\ step' = "report"
  /\ UNCHANGED <<gauge, mine, page, told, waits, radio, cut>>

\* get_update_flag reads the flag ...
Take ==
  /\ step = "report"
  /\ mine' = flag /\ step' = "taken"
  /\ UNCHANGED <<gauge, page, told, waits, radio, cut>>

\* iot_operate: get_gas_gauge, written to the object and to Bluetooth.
Tell == IF mine = 1 THEN told' = cap + 1 ELSE UNCHANGED told

\* ... and clears it, whatever happened since.
Report ==
  /\ step = "taken"
  /\ flag' = 0 /\ Tell /\ step' = "save"
  /\ UNCHANGED <<used, bad, cap, pre, save, mine, page, waits, radio, cut>>

\* sw_bat_soc_param_to_flash
SaveTest ==
  /\ step = "save"
  /\ step' = IF save = 1 THEN "erase" ELSE "loop"
  /\ save' = 0
  /\ UNCHANGED <<used, bad, cap, pre, flag, mine, page, told, waits, radio,
                 cut>>

Erase ==
  /\ step = "erase"
  /\ page' = Erased /\ step' = "write"
  /\ UNCHANGED <<gauge, mine, told, waits, radio, cut>>

\* The words are written from the live structure.
Content(kind) ==
  [kind |-> kind, cap |-> cap, used |-> used, bad |-> bad, time |-> ble.time]

\* The first word holds the mark and the level.
WriteFirst ==
  /\ step = "write"
  /\ page' = Content("torn") /\ step' = "rest"
  /\ UNCHANGED <<gauge, mine, told, waits, radio, cut>>

WriteRest ==
  /\ step = "rest"
  /\ page' = [Content("whole") EXCEPT !.cap = page.cap] /\ step' = "loop"
  /\ UNCHANGED <<gauge, mine, told, waits, radio, cut>>

(***************************************************************************)
(* The power fails or the device resets.  Of a torn page some totals are   *)
(* NaN: the standby total alone, which is computed anew, or others.        *)
(***************************************************************************)
PowerFails ==
  /\ Fresh
  /\ IF page.kind = "erased" THEN used' = 0 /\ cap' = Levels - 1
                             ELSE used' = page.used /\ cap' = page.cap
  /\ bad' \in IF page.kind = "torn" THEN {"standby", "ever"} ELSE {page.bad}
  /\ cut' = IF \/ page.kind = "erased"
               \/ bad' = "no" /\ cap' = Level(used', "no")
              THEN "no" ELSE "yes"
  /\ pre' = cap'
  /\ ble' = [on |-> "no", mtx |-> 0, since |-> 0, time |-> page.time]
  /\ active' = page.time
  /\ UNCHANGED page

Consume == BleStarts \/ BleStops \/ Samples \/ Transmits \/ Answered

GaugeNext ==
  \/ Tick \/ Consume \/ Passes \/ Load \/ Store \/ Compare \/ Remember
  \/ Take \/ Report \/ SaveTest \/ Erase \/ WriteFirst \/ WriteRest
  \/ TimesOut \/ PowerFails

GaugeSpec == GaugeInit /\ [][GaugeNext]_gaugeVars

-----------------------------------------------------------------------------
(* Properties.                                                             *)

\* Every variable of sw_bat_soc.c keeps a value of its type.
GaugeTypeOK ==
  /\ used \in 0..Full + 1 /\ bad \in {"no", "standby", "ever"}
  /\ cap \in 0..Levels /\ pre \in 0..Levels /\ flag \in 0..1 /\ save \in 0..1
  /\ mine \in 0..Levels
  /\ page \in [kind : {"erased", "torn", "whole"}, cap : 0..Levels,
               used : 0..Full + 1, bad : {"no", "standby", "ever"}, time : Nat]
  /\ told \in 0..Levels + 1 /\ waits \in {"yes", "no"}
  /\ ble \in [on : {"yes", "no"}, mtx : 0..1, since : 0..MaxClock, time : Nat]
  /\ clock \in 0..MaxClock /\ active \in Nat
  /\ step \in Calculating \cup Saving \cup {"loop", "report", "taken", "save"}
  /\ cut \in {"yes", "no"}

Least(m, n) == IF m < n THEN m ELSE n

\* The level told to the gateway and to clients is the one the totals leave,
\* never more than a full battery, as long as no reply times out inside a
\* computation or a report: no update is lost on the way.
GaugeTold ==
  step = "loop" /\ flag = 0 /\ cut = "no" =>
    told = Least(Level(used, bad) + 1, Levels)

\* What is saved is as recent as the level: between two passes, wherever
\* time-outs fell, a page that need not be rewritten is at the level of the
\* totals, and a page not written yet stands for a battery that lost none.
\* Its own level is that one too, unless a time-out fell inside a computation.
LevelSaved ==
  step = "loop" /\ save = 0 /\ bad = "no" /\ page.bad = "no" =>
    LET level == Level(used, bad)
    IN IF page.kind = "erased" THEN level >= Levels - 1
       ELSE /\ Level(page.used, "no") = level
            /\ cut = "no" => page.cap = level

PageGauge == IF page.kind = "erased" THEN Levels ELSE page.cap + 1

\* A reset outside a save brings back at most one level: what the gateway was
\* told last and what the device says after the reset differ by no more.
ResetGivesALevel ==
  step \notin Saving /\ page.kind # "torn" /\ cut = "no" =>
    PageGauge <= told + 1

\* The Bluetooth time is the time Bluetooth was active, over repeated starts
\* of advertising and any number of stops.
BleTimeTrue ==
  active = ble.time + (IF ble.mtx = 1 THEN clock - ble.since ELSE 0)
=============================================================================
