------------------------------ MODULE Calendar ------------------------------
(***************************************************************************)
(* The clock (KEIL-MDK/FUNC/calendar.c).  RTC2 counts eighths of a second  *)
(* in 24 bits and raises no interrupt: time is carried on only when        *)
(* somebody asks for it, and the counter is cleared there before it wraps. *)
(* The main loop asks in several places; a client that reads the time asks *)
(* in an interrupt, which may fall inside the main loop's own asking.      *)
(***************************************************************************)
EXTENDS Integers

CONSTANTS
  Modulus,    \* the counter wraps at this value: 2^24
  ClearAbove, \* 0xEFFFFF: a counter above this is cleared when it is read
  Hz,         \* ticks in a second: 8
  MaxGap,     \* bound: the ticks that pass between two readings
  Horizon,    \* bound: the ticks a behaviour lasts
  Stamps      \* the times a gateway sets

ASSUME CalendarAssumption ==
  /\ Modulus \in Nat /\ ClearAbove \in Nat /\ Hz \in Nat \ {0}
  /\ MaxGap \in Nat \ {0} /\ Horizon \in Nat /\ Stamps \subseteq Nat
  /\ ClearAbove + MaxGap < Modulus

VARIABLES
  count,   \* RTC2's COUNTER
  pre,     \* m_pre_count
  ticks,   \* m_ticks
  run,     \* m_run_time
  base,    \* m_timestamp_base
  at,      \* the main loop in ticks_elapse_get: "out", "read", "taken"
           \* or "stored"
  seen,    \* its local count
  gap,     \* its local elapse
  elapsed, \* the ticks that really passed since the clock was set
  lived,   \* and since the start
  inside,  \* the ticks that fell inside the current reading
  lost,    \* the ticks lost in all between a reading and the clearing it led to
  torn     \* a client's reading fell inside one of the main loop

clock == <<count, pre, ticks, run, base, at, seen, gap, elapsed, lived,
           inside, lost, torn>>

ClockInit ==
  /\ count = 0 /\ pre = 0 /\ ticks = 0 /\ run = 0 /\ base = 0
  /\ at = "out" /\ seen = 0 /\ gap = 0
  /\ elapsed = 0 /\ lived = 0 /\ inside = 0 /\ lost = 0 /\ torn = "no"

-----------------------------------------------------------------------------
(* The counter.                                                            *)

\* A reading takes far less than a tick: at most one falls inside it.  Bound:
\* time is not followed on once a client's reading has torn one of the main
\* loop, nor are there more of them.
ClockRuns ==
  /\ lived < Horizon /\ count - pre < MaxGap /\ torn = "no"
  /\ at = "out" \/ inside = 0
  /\ count' = IF count + 1 = Modulus THEN 0 ELSE count + 1
  /\ elapsed' = elapsed + 1 /\ lived' = lived + 1
  /\ inside' = IF at = "out" THEN 0 ELSE 1
  /\ UNCHANGED <<pre, ticks, run, base, at, seen, gap, lost, torn>>

-----------------------------------------------------------------------------
(* Asking in the main loop: ticks_elapse_get in three steps, and what        *)
(* calendar_get_time_stamp adds up from it.                                *)

ReadCounter ==
  /\ at = "out"
  /\ seen' = count /\ at' = "read" /\ inside' = 0
  /\ UNCHANGED <<count, pre, ticks, run, base, gap, elapsed, lived, lost,
                 torn>>

\* The previous count, and the counter before it comes near its end.
Remember(c) ==
  IF c > ClearAbove
    THEN pre' = 0 /\ count' = 0 /\ lost' = lost + (count - c)
    ELSE pre' = c /\ UNCHANGED <<count, lost>>

TakeElapse ==
  /\ at = "read"
  /\ gap' = seen - pre /\ at' = "taken"
  /\ UNCHANGED <<count, pre, ticks, run, base, seen, elapsed, lived, inside,
                 lost, torn>>

StoreCount ==
  /\ at = "taken"
  /\ Remember(seen) /\ at' = "stored"
  /\ UNCHANGED <<ticks, run, base, seen, gap, elapsed, lived, inside, torn>>

AddElapse ==
  /\ at = "stored"
  /\ run' = run + gap /\ ticks' = ticks + gap
  /\ gap' = 0 /\ seen' = 0 /\ inside' = 0 /\ at' = "out"
  /\ UNCHANGED <<count, pre, base, elapsed, lived, lost, torn>>

-----------------------------------------------------------------------------
(* Setting, and asking in an interrupt.                                    *)

\* Mutated form: the seconds counted so far are added to the time set.
KeepTicks == UNCHANGED ticks

DropTicks == ticks' = 0

\* calendar_set_time_stamp once ticks_elapse_get has returned
SetBase ==
  /\ at = "stored"
  /\ run' = run + gap /\ DropTicks /\ pre' = 0 /\ count' = 0
  /\ \E v \in Stamps : base' = v
  /\ gap' = 0 /\ seen' = 0 /\ inside' = 0 /\ at' = "out"
  /\ elapsed' = 0 /\ lost' = lost + (count - pre)
  /\ UNCHANGED <<lived, torn>>

\* ble_dev_sys_time_read_handler: the whole of calendar_get_time_stamp in the
\* interrupt, which nothing interrupts.
ClientAsks ==
  /\ torn = "no"
  /\ run' = run + (count - pre) /\ ticks' = ticks + (count - pre)
  /\ Remember(count)
  /\ torn' = IF at = "out" THEN torn ELSE "yes"
  /\ UNCHANGED <<base, at, seen, gap, elapsed, lived, inside>>

-----------------------------------------------------------------------------
(* Properties.                                                             *)

ClockTypeOK ==
  /\ count \in 0 .. Modulus - 1 /\ pre \in 0 .. ClearAbove
  /\ seen \in 0 .. Modulus - 1 /\ base \in Nat
  /\ ticks \in Int /\ run \in Int /\ gap \in Int /\ lost \in Int
  /\ elapsed \in Nat /\ lived \in Nat /\ inside \in {0, 1}
  /\ at \in {"out", "read", "taken", "stored"} /\ torn \in {"yes", "no"}

\* What a reading under way, or the next one, adds.
Adds == (IF at = "stored" THEN gap ELSE 0) + count - pre

\* The time the clock tells when it is asked now, in ticks since it was set.
Tells == ticks + Adds

\* The clock never gains, and loses no more than the ticks that fall between
\* the reading of the counter and its clearing (calendar.c:160-171): wrapping,
\* clearing and setting lose nothing else, unless a client's reading fell
\* inside one of the main loop.
ClockTrue ==
  torn = "no" => Tells <= elapsed /\ elapsed <= Tells + lost

\* The same of the running time the battery's charge is computed from, which
\* setting the clock neither loses nor counts twice (calendar.c:198-205).
RunTimeTrue ==
  torn = "no" => run + Adds + lost = lived
=============================================================================
