------------------------------- MODULE SlpTask -------------------------------
(***************************************************************************)
(* The sleep between two measurements (KEIL-MDK/APP/system_low_power.c)    *)
(* with the clock it takes its length from.  The task asks the time, and   *)
(* sleeps until the next multiple of the interval, plus the device's       *)
(* offset, so that the devices of a site report one after another.         *)
(***************************************************************************)
EXTENDS Calendar

CONSTANTS
  Intervals, \* the intervals in use, of measuring or of a link test, 0 included
  Offsets,   \* the offsets in use; a link test has none
  TimerWrap  \* seconds after which APP_TIMER_TICKS wraps: 2^32 / 32768

ASSUME SlpAssumption ==
  /\ Intervals \subseteq Nat /\ Offsets \subseteq Nat /\ 0 \in Offsets
  /\ TimerWrap \in Nat \ {0}

VARIABLES
  mail,     \* slp_state
  obj,      \* slp_obj.state
  left,     \* ticks until the sleep timer expires, 0 when it is stopped
  lpm,      \* the task's entry in the low-power table
  pc,       \* the main loop
  plan,     \* the sleep under way: what it was computed from, and when
  crossed   \* the timer expired inside slp_reset

slp == <<mail, obj, left, lpm, pc, plan, crossed>>

vars == <<clock, slp>>

NoPlan == [interval |-> 0, offset |-> 0, at |-> 0]

Init ==
  /\ ClockInit
  /\ mail = "IDLE" /\ obj = "IDLE" /\ left = 0 /\ lpm = "STOP"
  /\ pc = "loop" /\ plan = NoPlan /\ crossed = "no"

-----------------------------------------------------------------------------
(* Time passes, and with it the sleep; the timer's interrupt is swt_slp_cb. *)

Pass ==
  /\ ClockRuns
  /\ left' = IF left = 0 THEN 0 ELSE left - 1
  /\ mail' = IF left = 1 THEN "TIMEOUT" ELSE mail
  /\ crossed' = IF left = 1 /\ pc = "resetting" THEN "yes" ELSE crossed
  /\ UNCHANGED <<obj, lpm, pc, plan>>

ClientReads == ClientAsks /\ UNCHANGED slp

-----------------------------------------------------------------------------
(* The main loop.                                                          *)

\* slp_task_start, from sys_task_schd
Start ==
  /\ pc = "loop" /\ obj = "IDLE"
  /\ lpm' = "RUN" /\ mail' = "ACTIVE" /\ obj' = "ACTIVE"
  /\ UNCHANGED <<clock, left, pc, plan, crossed>>

\* slp_task_stop
TaskStop ==
  /\ pc = "loop" /\ obj # "IDLE"
  /\ mail' = "STOP"
  /\ UNCHANGED <<clock, obj, left, lpm, pc, plan, crossed>>

\* Other users of the clock: the gateway sets it, the battery and the link
\* test ask for the running time.
Ask(user) ==
  /\ pc = "loop" /\ ReadCounter /\ pc' = user
  /\ UNCHANGED <<mail, obj, left, lpm, plan, crossed>>

UseClock == \E user \in {"setting", "running"} : Ask(user)

\* slp_operate, SLP_ACTIVE
Serve ==
  /\ pc = "loop" /\ mail = "ACTIVE"
  /\ mail' = "IDLE" /\ obj' = "ACTIVE" /\ ReadCounter /\ pc' = "sleeping"
  /\ UNCHANGED <<left, lpm, plan, crossed>>

Measure == (TakeElapse \/ StoreCount) /\ UNCHANGED slp

Told ==
  /\ at = "stored" /\ pc = "running"
  /\ AddElapse /\ pc' = "loop"
  /\ UNCHANGED <<mail, obj, left, lpm, plan, crossed>>

\* iot_set_time_stamp
SetClock ==
  /\ pc = "setting" /\ SetBase
  /\ pc' = "loop" /\ plan' = NoPlan
  /\ UNCHANGED <<mail, obj, left, lpm, crossed>>

Stamp(t) == base + t \div Hz

\* Mutated form: the interval is slept in full.
WholeInterval(t, i, o) == i + o

\* sleep_time at the tick t, when the interval i is not 0
SleepTime(t, i, o) == i - (Stamp(t) % i) + o

\* Dividing by zero yields 0 on this processor: time_stamp % 0 is the stamp,
\* and what is left of its negation in 32 bits may be any length.
SleepTimes(t, i, o) ==
  IF i = 0 THEN 0 .. TimerWrap - 1 ELSE {SleepTime(t, i, o)}

\* Mutated form: the timer's range is a second shorter.
CutTimer(s) == left' = Hz * (s % (TimerWrap - 1))

\* The timer's ticks are taken modulo 2^32; a timer of no ticks is refused, and
\* nobody looks at the error.
StartTimer(s) == left' = Hz * (s % TimerWrap)

\* The interval is the version's or, during a link test, the client's, and the
\* offset then 0; both change between any two sleeps.
Sleep ==
  /\ at = "stored" /\ pc = "sleeping"
  /\ AddElapse
  /\ \E i \in Intervals, o \in Offsets :
       /\ \E s \in SleepTimes(ticks + gap, i, o) : StartTimer(s)
       /\ plan' = IF torn = "no" /\ i > 0 /\ i + o < TimerWrap
                    THEN [interval |-> i, offset |-> o, at |-> elapsed]
                    ELSE NoPlan
  /\ lpm' = "LP" /\ pc' = "loop"
  /\ UNCHANGED <<mail, obj, crossed>>

\* Mutated form: the timer is left running.
LeaveTimer == UNCHANGED left

StopTimer == left' = 0

\* slp_operate, SLP_TIMEOUT and SLP_STOP; the stop handler asks for the running
\* time and posts the event of the next task.
End ==
  /\ pc = "loop" /\ mail \in {"TIMEOUT", "STOP"}
  /\ mail' = "IDLE" /\ StopTimer /\ obj' = "IDLE" /\ lpm' = "STOP"
  /\ ReadCounter /\ pc' = "running" /\ plan' = NoPlan
  /\ UNCHANGED crossed

\* slp_reset, when a link test begins
ResetMail ==
  /\ pc = "loop"
  /\ mail' = "IDLE" /\ pc' = "resetting"
  /\ UNCHANGED <<clock, obj, left, lpm, plan, crossed>>

ResetRest ==
  /\ pc = "resetting"
  /\ StopTimer /\ obj' = "IDLE" /\ lpm' = "STOP"
  /\ plan' = NoPlan /\ pc' = "loop"
  /\ UNCHANGED <<clock, mail, crossed>>

MainStep ==
  \/ Start \/ TaskStop \/ UseClock \/ Serve \/ Measure \/ Told \/ SetClock
  \/ Sleep \/ End \/ ResetMail \/ ResetRest

Next == MainStep \/ Pass \/ ClientReads

Spec == Init /\ [][Next]_vars

-----------------------------------------------------------------------------
(* Properties.                                                             *)

Plans == [interval : Nat, offset : Nat, at : Nat]

\* Every variable of the sleep and of its clock keeps a value of its type.
TypeOK ==
  /\ ClockTypeOK
  /\ mail \in {"IDLE", "ACTIVE", "TIMEOUT", "STOP"}
  /\ obj \in {"IDLE", "ACTIVE"} /\ left \in Nat /\ lpm \in {"RUN", "LP", "STOP"}
  /\ pc \in {"loop", "setting", "running", "sleeping", "resetting"}
  /\ plan \in Plans /\ crossed \in {"yes", "no"}

Phase(t, p) == (base * Hz + t - p.offset * Hz) % (p.interval * Hz)

Expires == left = 1 /\ left' = 0 /\ pc # "resetting"

\* Measurements are made on the grid the interval and the offset define,
\* whenever the clock was asked, cleared or read by clients meanwhile, to
\* within the second the clock truncates, the tick that may pass between
\* asking and starting the timer, and the ticks clearing has cost.
WakesOnGrid ==
  [][Expires /\ elapsed' > elapsed /\ plan # NoPlan =>
       Phase(elapsed', plan) <= Hz + lost]_vars

\* No sleep is longer than the interval and the offset ask for.
SleepBounded ==
  plan # NoPlan /\ left > 0 =>
    elapsed + left <= plan.at + Hz * (plan.interval + plan.offset)

\* A sleeping device wakes: its timer is running, or its end is in the
\* mailbox, unless the interval is 0 or the timer's range too short for it.
SleepEnds ==
  plan # NoPlan /\ pc = "loop" => left > 0 \/ mail \in {"TIMEOUT", "STOP"}

\* The mailbox ends a sleep once: no end is served, and no successor posted,
\* without a sleep under way, unless the timer expires inside slp_reset,
\* between its emptying the mailbox and stopping the timer.
OneEndPerSleep ==
  pc = "loop" /\ mail # "IDLE" => obj = "ACTIVE" \/ crossed = "yes"
=============================================================================
