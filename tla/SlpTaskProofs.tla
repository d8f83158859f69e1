--------------------------- MODULE SlpTaskProofs ---------------------------
(***************************************************************************)
(* Proofs about the clock and the sleep: for every width of the counter,   *)
(* every interval and offset, wherever clients' readings fall.             *)
(***************************************************************************)
EXTENDS SlpTask, TLAPS

\* The inductive form of ClockTrue and RunTimeTrue: how far the counter is from
\* what was read of it, at each step of a reading.
ClockInv ==
  torn = "no" =>
    /\ pre <= count /\ count - pre <= MaxGap /\ lost >= 0
    /\ at = "read" => seen = count - inside /\ pre <= seen
    /\ at = "taken" => seen = count - inside /\ gap = seen - pre /\ pre <= seen
    /\ at = "stored" => count - pre <= inside
    /\ ClockTrue /\ RunTimeTrue

\* The inductive form of SleepBounded, SleepEnds and OneEndPerSleep.
SleepInv ==
  /\ pc \in {"loop", "resetting"} => at = "out"
  /\ left > 0 => obj = "ACTIVE"
  /\ mail # "IDLE" => obj = "ACTIVE" \/ crossed = "yes"
  /\ pc = "resetting" => mail = "IDLE" \/ crossed = "yes"
  /\ mail = "ACTIVE" \/ pc = "sleeping" \/ obj = "IDLE" =>
       plan = NoPlan /\ left = 0
  /\ pc = "sleeping" => obj = "ACTIVE" /\ mail = "IDLE"
  /\ plan # NoPlan /\ pc # "resetting" =>
       left > 0 \/ mail \in {"TIMEOUT", "STOP"}
  /\ SleepBounded

(***************************************************************************)
(* The inductive form of WakesOnGrid: the timer will expire past a         *)
(* multiple of the interval by less than a second, a tick and the ticks    *)
(* lost.  Told as a multiple and a rest, since remainders do not add.      *)
(***************************************************************************)
OnGrid(t, p) ==
  \E k \in Int, x \in 0 .. Hz + lost :
    base * Hz + t - p.offset * Hz = k * (p.interval * Hz) + x

GridInv ==
  torn = "no" /\ plan # NoPlan /\ left > 0 =>
    plan.interval > 0 /\ OnGrid(elapsed + left, plan)

\* What is left of a division is less than the divisor.
LEMMA Remainder ==
  ASSUME NEW a \in Int, NEW b \in Nat \ {0} PROVE a % b \in 0 .. b - 1
  OBVIOUS

\* A division and what is left of it make up the number.
LEMMA Division ==
  ASSUME NEW a \in Int, NEW b \in Int, b > 0
  PROVE  /\ a \div b \in Int /\ a % b \in 0 .. b - 1
         /\ a = b * (a \div b) + (a % b)
<1>1. a \div b \in Int /\ a % b \in 0 .. b - 1
  OBVIOUS
<1>2. a = b * (a \div b) + (a % b)
  BY Z3
<1> QED BY <1>1, <1>2

\* What is left of a multiple and a rest is no more than the rest.
LEMMA RemainderOfSum ==
  ASSUME NEW m \in Nat \ {0}, NEW k \in Int, NEW x \in Nat
  PROVE  (k * m + x) % m <= x
<1> DEFINE a == k * m + x
<1>0. k * m \in Int /\ a \in Int
  OBVIOUS
<1> DEFINE q == a \div m
<1> DEFINE r == a % m
<1> HIDE DEF a
<1>1. q \in Int /\ r \in 0 .. m - 1 /\ a = m * q + r
  BY <1>0, Division
<1>2. a = k * m + x
  BY DEF a
<1> HIDE DEF q, r
<1>3. r <= x
  <2> SUFFICES ASSUME r > x PROVE FALSE
    BY <1>1
  <2>1. (k - q) * m = k * m - m * q
    BY <1>1
  <2>2. m * q \in Int /\ k * m \in Int
    BY <1>1
  <2>3. (k - q) * m = r - x
    BY <1>1, <1>2, <2>1, <2>2
  <2>4. k - q >= 1
    <3>1. CASE k - q <= 0
      <4>1. (q - k) * m \in Nat
        BY <1>1, <3>1
      <4>2. (k - q) * m = -((q - k) * m)
        BY <1>1
      <4> QED BY <1>1, <2>3, <4>1, <4>2
    <3> QED BY <1>1, <3>1
  <2>5. (k - q) * m = m + (k - q - 1) * m
    BY <1>1
  <2>6. (k - q - 1) * m \in Nat
    BY <1>1, <2>4
  <2> QED BY <1>1, <2>3, <2>5, <2>6
<1> QED BY <1>3 DEF r, a

\* A number less than the divisor is what is left of it.
LEMMA SmallRemainder ==
  ASSUME NEW a \in Nat, NEW b \in Nat, a < b PROVE a % b = a
  OBVIOUS

\* Multiplying keeps the order.
LEMMA Product ==
  ASSUME NEW a \in Nat \ {0}, NEW b \in Nat, NEW s \in 1 .. b
  PROVE  a * s > 0 /\ a * s <= a * b
<1>1. b - s \in Nat
  OBVIOUS
<1>2. a * b = a * s + a * (b - s) /\ a * (b - s) \in Nat
  BY <1>1
<1>3. a * s > 0
  OBVIOUS
<1> QED BY <1>2, <1>3

\* A sleep ends within the interval and the offset, and is not empty.
LEMMA SleepLength ==
  ASSUME NEW t \in Int, NEW i \in Nat, NEW o \in Nat, base \in Nat,
         i > 0, i + o < TimerWrap,
         NEW s \in SleepTimes(t, i, o)
  PROVE  s \in 1 .. i + o /\ s % TimerWrap = s
<1> USE CalendarAssumption, SlpAssumption
<1>1. t \div Hz \in Int
  OBVIOUS
<1>2. Stamp(t) \in Int
  BY <1>1 DEF Stamp
<1>3. Stamp(t) % i \in 0 .. i - 1
  <2>1. i \in Nat \ {0}
    OBVIOUS
  <2> HIDE DEF Stamp
  <2> QED BY <1>2, <2>1, Remainder
<1>4. s = i - (Stamp(t) % i) + o
  BY DEF SleepTimes, SleepTime
<1>5. s \in 1 .. i + o
  BY <1>3, <1>4
<1> QED BY <1>5, SmallRemainder

\* A sleep computed from the time t ends on the grid: past a multiple of the
\* interval by the part of a second that t had, and by what t is behind.
LEMMA GridLength ==
  ASSUME NEW t \in Int, NEW d \in Nat, NEW i \in Nat \ {0}, NEW o \in Nat,
         base \in Nat
  PROVE  \E k \in Int, x \in 0 .. Hz - 1 + d :
           base * Hz + (t + d + Hz * SleepTime(t, i, o)) - o * Hz
             = k * (i * Hz) + x
<1> USE CalendarAssumption
<1> DEFINE q == t \div Hz
<1> DEFINE r == t % Hz
<1> DEFINE n == base + q
<1> DEFINE p == n \div i
<1> DEFINE w == n % i
<1>1. q \in Int /\ r \in 0 .. Hz - 1 /\ t = Hz * q + r
  BY Division
<1> HIDE DEF q, r
<1>2. n \in Int
  BY <1>1
<1> HIDE DEF n
<1>3. p \in Int /\ w \in 0 .. i - 1 /\ n = i * p + w
  BY <1>2, Division
<1> HIDE DEF p, w
<1>4. SleepTime(t, i, o) = i - w + o
  BY DEF SleepTime, Stamp, w, n, q
<1>5. n = base + q
  BY DEF n
<1>6. Hz * (i - w + o) = Hz * i - Hz * w + Hz * o
  BY <1>3
<1>7. Hz * n = Hz * base + Hz * q /\ Hz * n = Hz * (i * p) + Hz * w
  BY <1>1, <1>2, <1>3, <1>5
<1>8. (p + 1) * (i * Hz) = Hz * (i * p) + Hz * i
  BY <1>3
<1>9. base * Hz + (t + d + Hz * (i - w + o)) - o * Hz
        = (p + 1) * (i * Hz) + (r + d)
  <2>1. /\ Hz * base \in Int /\ Hz * q \in Int /\ Hz * i \in Int
        /\ Hz * w \in Int /\ Hz * o \in Int /\ Hz * (i * p) \in Int
    BY <1>1, <1>3
  <2>2. base * Hz = Hz * base /\ o * Hz = Hz * o
    OBVIOUS
  <2>3. Hz * base + (t + d + (Hz * i - Hz * w + Hz * o)) - Hz * o
          = (Hz * (i * p) + Hz * i) + (r + d)
    BY <1>1, <1>7, <2>1
  <2> QED BY <1>6, <1>8, <2>2, <2>3
<1>10. p + 1 \in Int /\ r + d \in 0 .. Hz - 1 + d
  BY <1>1, <1>3
<1> QED BY <1>4, <1>9, <1>10

\* The ticks a timer is started for.
LEMMA TimerLength ==
  ASSUME NEW s \in Nat PROVE Hz * (s % TimerWrap) \in Nat
<1>1. s % TimerWrap \in 0 .. TimerWrap - 1
  BY Remainder, SlpAssumption
<1> QED BY <1>1, CalendarAssumption, SlpAssumption

\* Every step keeps the types.
LEMMA TypeStep ==
  ASSUME TypeOK, Next PROVE TypeOK'
<1> USE CalendarAssumption, SlpAssumption DEF TypeOK, ClockTypeOK, slp, clock,
    Plans, NoPlan
<1>1. ASSUME Pass
      PROVE  TypeOK'
  BY <1>1 DEF Pass, ClockRuns
<1>2. ASSUME ClientReads
      PROVE  TypeOK'
  BY <1>2 DEF ClientReads, ClientAsks, Remember
<1>3. ASSUME Start
      PROVE  TypeOK'
  BY <1>3 DEF Start
<1>4. ASSUME TaskStop
      PROVE  TypeOK'
  BY <1>4 DEF TaskStop
<1>5. ASSUME NEW user \in {"setting", "running"}, Ask(user)
      PROVE  TypeOK'
  BY <1>5 DEF Ask, ReadCounter
<1>6. ASSUME Serve
      PROVE  TypeOK'
  BY <1>6 DEF Serve, ReadCounter
<1>7. ASSUME TakeElapse, UNCHANGED slp
      PROVE  TypeOK'
  BY <1>7 DEF TakeElapse
<1>8. ASSUME StoreCount, UNCHANGED slp
      PROVE  TypeOK'
  BY <1>8 DEF StoreCount, Remember
<1>9. ASSUME Told
      PROVE  TypeOK'
  BY <1>9 DEF Told, AddElapse
<1>10. ASSUME SetClock
      PROVE  TypeOK'
  BY <1>10 DEF SetClock, SetBase, DropTicks
<1>11. ASSUME Sleep
      PROVE  TypeOK'
  <2>1. PICK i \in Intervals, o \in Offsets :
          /\ \E s \in SleepTimes(ticks + gap, i, o) : StartTimer(s)
          /\ plan' = IF torn = "no" /\ i > 0 /\ i + o < TimerWrap
                       THEN [interval |-> i, offset |-> o, at |-> elapsed]
                       ELSE NoPlan
    BY <1>11 DEF Sleep
  <2>2. PICK s \in SleepTimes(ticks + gap, i, o) : StartTimer(s)
    BY <2>1
  <2>3. s \in Nat
    <3>1. CASE i = 0
      BY <3>1 DEF SleepTimes
    <3>2. CASE i # 0
      <4>1. (ticks + gap) \div Hz \in Int
        BY CalendarAssumption
      <4>2. Stamp(ticks + gap) \in Int
        BY <4>1 DEF Stamp
      <4>3. Stamp(ticks + gap) % i \in 0 .. i - 1
        BY <3>2, <4>2, Remainder
      <4> QED BY <3>2, <4>3 DEF SleepTimes, SleepTime
    <3> QED BY <3>1, <3>2
  <2>4. left' \in Nat
    BY <2>2, <2>3, TimerLength DEF StartTimer
  <2>5. plan' \in Plans
    BY <2>1
  <2> QED BY <1>11, <2>4, <2>5 DEF Sleep, AddElapse
<1>12. ASSUME End
      PROVE  TypeOK'
  BY <1>12 DEF End, ReadCounter, StopTimer
<1>13. ASSUME ResetMail
      PROVE  TypeOK'
  BY <1>13 DEF ResetMail
<1>14. ASSUME ResetRest
      PROVE  TypeOK'
  BY <1>14 DEF ResetRest, StopTimer
<1> QED
  BY <1>1, <1>2, <1>3, <1>4, <1>5, <1>6, <1>7, <1>8, <1>9, <1>10, <1>11,
      <1>12, <1>13, <1>14
  DEF Next, MainStep, UseClock, Measure

\* Every step keeps the clock as close to the time as it was.
LEMMA ClockStep ==
  ASSUME TypeOK, ClockInv, Next PROVE ClockInv'
<1> USE CalendarAssumption, SlpAssumption DEF TypeOK, ClockTypeOK, ClockInv,
    ClockTrue, RunTimeTrue, Tells, Adds, slp, clock
<1>1. ASSUME Pass
      PROVE  ClockInv'
  BY <1>1 DEF Pass, ClockRuns
<1>2. ASSUME ClientReads
      PROVE  ClockInv'
  BY <1>2 DEF ClientReads, ClientAsks, Remember
<1>3. ASSUME Start
      PROVE  ClockInv'
  BY <1>3 DEF Start
<1>4. ASSUME TaskStop
      PROVE  ClockInv'
  BY <1>4 DEF TaskStop
<1>5. ASSUME NEW user \in {"setting", "running"}, Ask(user)
      PROVE  ClockInv'
  BY <1>5 DEF Ask, ReadCounter
<1>6. ASSUME Serve
      PROVE  ClockInv'
  BY <1>6 DEF Serve, ReadCounter
<1>7. ASSUME TakeElapse, UNCHANGED slp
      PROVE  ClockInv'
  BY <1>7 DEF TakeElapse
<1>8. ASSUME StoreCount, UNCHANGED slp
      PROVE  ClockInv'
  BY <1>8 DEF StoreCount, Remember
<1>9. ASSUME Told
      PROVE  ClockInv'
  BY <1>9 DEF Told, AddElapse
<1>10. ASSUME SetClock
      PROVE  ClockInv'
  <2>1. CASE torn = "yes"
    BY <1>10, <2>1 DEF SetClock, SetBase
  <2>2. CASE torn = "no"
    BY <1>10, <2>2 DEF SetClock, SetBase, DropTicks
  <2> QED BY <2>1, <2>2
<1>11. ASSUME Sleep
      PROVE  ClockInv'
  BY <1>11 DEF Sleep, AddElapse
<1>12. ASSUME End
      PROVE  ClockInv'
  BY <1>12 DEF End, ReadCounter, StopTimer
<1>13. ASSUME ResetMail
      PROVE  ClockInv'
  BY <1>13 DEF ResetMail
<1>14. ASSUME ResetRest
      PROVE  ClockInv'
  BY <1>14 DEF ResetRest, StopTimer
<1> QED
  BY <1>1, <1>2, <1>3, <1>4, <1>5, <1>6, <1>7, <1>8, <1>9, <1>10, <1>11,
      <1>12, <1>13, <1>14
  DEF Next, MainStep, UseClock, Measure

\* Every step keeps what is known of a sleep under way.
LEMMA SleepStep ==
  ASSUME TypeOK, SleepInv, Next PROVE SleepInv'
<1> USE CalendarAssumption, SlpAssumption DEF TypeOK, ClockTypeOK, SleepInv,
    SleepBounded,
    slp, clock, Plans, NoPlan
<1>1. ASSUME Pass
      PROVE  SleepInv'
  BY <1>1 DEF Pass, ClockRuns
<1>2. ASSUME ClientReads
      PROVE  SleepInv'
  BY <1>2 DEF ClientReads, ClientAsks, Remember
<1>3. ASSUME Start
      PROVE  SleepInv'
  BY <1>3 DEF Start
<1>4. ASSUME TaskStop
      PROVE  SleepInv'
  BY <1>4 DEF TaskStop
<1>5. ASSUME NEW user \in {"setting", "running"}, Ask(user)
      PROVE  SleepInv'
  BY <1>5 DEF Ask, ReadCounter
<1>6. ASSUME Serve
      PROVE  SleepInv'
  BY <1>6 DEF Serve, ReadCounter
<1>7. ASSUME TakeElapse, UNCHANGED slp
      PROVE  SleepInv'
  BY <1>7 DEF TakeElapse
<1>8. ASSUME StoreCount, UNCHANGED slp
      PROVE  SleepInv'
  BY <1>8 DEF StoreCount, Remember
<1>9. ASSUME Told
      PROVE  SleepInv'
  BY <1>9 DEF Told, AddElapse
<1>10. ASSUME SetClock
      PROVE  SleepInv'
  BY <1>10 DEF SetClock, SetBase, DropTicks
<1>11. ASSUME Sleep
      PROVE  SleepInv'
  <2>1. PICK i \in Intervals, o \in Offsets :
          /\ \E s \in SleepTimes(ticks + gap, i, o) : StartTimer(s)
          /\ plan' = IF torn = "no" /\ i > 0 /\ i + o < TimerWrap
                       THEN [interval |-> i, offset |-> o, at |-> elapsed]
                       ELSE NoPlan
    BY <1>11 DEF Sleep
  <2>2. PICK s \in SleepTimes(ticks + gap, i, o) : StartTimer(s)
    BY <2>1
  <2>3. CASE plan' = NoPlan
    BY <1>11, <2>3 DEF Sleep, AddElapse
  <2>4. CASE plan' # NoPlan
    <3>1. i > 0 /\ i + o < TimerWrap
      BY <2>1, <2>4
    <3>2. s \in 1 .. i + o /\ s % TimerWrap = s
      BY <3>1, SleepLength
    <3>3. left' = Hz * s
      BY <2>2, <3>2 DEF StartTimer
    <3>4. left' > 0 /\ left' <= Hz * (i + o)
      BY <3>2, <3>3, Product
    <3>5. plan' = [interval |-> i, offset |-> o, at |-> elapsed]
      BY <2>1, <2>4
    <3>6. SleepBounded'
      <4>1. plan'.interval = i /\ plan'.offset = o /\ plan'.at = elapsed'
        BY <1>11, <3>5 DEF Sleep, AddElapse
      <4>2. elapsed' \in Nat /\ left' \in Nat /\ Hz * (i + o) \in Nat
        BY <1>11, <3>2, <3>3 DEF Sleep, AddElapse
      <4>3. elapsed' + left' <= elapsed' + Hz * (i + o)
        <5> HIDE CalendarAssumption, SlpAssumption
            DEF TypeOK, ClockTypeOK, SleepInv, SleepBounded
        <5> QED BY <3>4, <4>2
      <4>4. elapsed' + left'
              <= plan'.at + Hz * (plan'.interval + plan'.offset)
        BY <4>1, <4>3
      <4> QED BY <4>4 DEF SleepBounded
    <3> QED BY <1>11, <3>4, <3>6 DEF Sleep, AddElapse
  <2> QED BY <2>3, <2>4
<1>12. ASSUME End
      PROVE  SleepInv'
  BY <1>12 DEF End, ReadCounter, StopTimer
<1>13. ASSUME ResetMail
      PROVE  SleepInv'
  BY <1>13 DEF ResetMail
<1>14. ASSUME ResetRest
      PROVE  SleepInv'
  BY <1>14 DEF ResetRest, StopTimer
<1> QED
  BY <1>1, <1>2, <1>3, <1>4, <1>5, <1>6, <1>7, <1>8, <1>9, <1>10, <1>11,
      <1>12, <1>13, <1>14
  DEF Next, MainStep, UseClock, Measure

\* A sleep under way keeps its place on the grid while the timer counts down
\* as time passes, and the ticks lost do not become fewer.
LEMMA GridKept ==
  ASSUME TypeOK, GridInv, ClockTypeOK',
         \/ plan' = NoPlan \/ left' = 0 \/ torn' = "yes"
         \/ /\ plan' = plan /\ base' = base /\ lost <= lost' /\ torn = "no"
            /\ left > 0 /\ elapsed' + left' = elapsed + left
  PROVE  GridInv'
<1> SUFFICES ASSUME plan' # NoPlan, left' > 0, torn' = "no"
             PROVE  /\ plan'.interval > 0
                    /\ \E k \in Int, x \in 0 .. Hz + lost' :
                         base' * Hz + (elapsed' + left') - plan'.offset * Hz
                           = k * (plan'.interval * Hz) + x
  BY DEF GridInv, NoPlan, OnGrid
<1>1. /\ plan' = plan /\ base' = base /\ lost <= lost' /\ torn = "no"
      /\ left > 0 /\ elapsed' + left' = elapsed + left
  OBVIOUS
<1>2. plan # NoPlan
  BY <1>1 DEF NoPlan
<1>3. plan.interval > 0 /\ OnGrid(elapsed + left, plan)
  BY <1>1, <1>2 DEF GridInv
<1>4. PICK k \in Int, x \in 0 .. Hz + lost :
        base * Hz + (elapsed + left) - plan.offset * Hz
          = k * (plan.interval * Hz) + x
  BY <1>3 DEF OnGrid
<1>5. x \in 0 .. Hz + lost'
  <2>1. PICK l \in Int : l = lost'
    BY DEF ClockTypeOK
  <2>2. lost \in Int /\ Hz \in Nat /\ lost <= l
    BY <1>1, <2>1, CalendarAssumption DEF TypeOK, ClockTypeOK
  <2>3. x \in 0 .. Hz + l
    BY ONLY <2>2
  <2> QED BY ONLY <2>1, <2>3, Zenon
<1>6. base' * Hz + (elapsed' + left') - plan'.offset * Hz
        = k * (plan'.interval * Hz) + x
  BY <1>1, <1>4
<1> QED BY <1>1, <1>3, <1>5, <1>6

\* Every step keeps a sleep on its grid, and a sleep begins on it.
LEMMA GridStep ==
  ASSUME TypeOK, ClockInv, SleepInv, GridInv, Next, TypeOK' PROVE GridInv'
<1> DEFINE Kept ==
      \/ plan' = NoPlan \/ left' = 0 \/ torn' = "yes"
      \/ /\ plan' = plan /\ base' = base /\ lost <= lost' /\ torn = "no"
         /\ left > 0 /\ elapsed' + left' = elapsed + left
<1>0. Kept => GridInv'
  BY GridKept DEF TypeOK
<1> USE CalendarAssumption, SlpAssumption DEF TypeOK, ClockTypeOK, slp, clock
<1>1. ASSUME Pass
      PROVE  GridInv'
  <2>1. Kept BY <1>1 DEF Pass, ClockRuns
  <2> QED BY ONLY <1>0, <2>1
<1>2. ASSUME ClientReads
      PROVE  GridInv'
  <2>1. Kept BY <1>2 DEF ClientReads, ClientAsks, Remember
  <2> QED BY ONLY <1>0, <2>1
<1>3. ASSUME Start
      PROVE  GridInv'
  <2>1. Kept BY <1>3 DEF Start
  <2> QED BY ONLY <1>0, <2>1
<1>4. ASSUME TaskStop
      PROVE  GridInv'
  <2>1. Kept BY <1>4 DEF TaskStop
  <2> QED BY ONLY <1>0, <2>1
<1>5. ASSUME NEW user \in {"setting", "running"}, Ask(user)
      PROVE  GridInv'
  <2>1. Kept BY <1>5 DEF Ask, ReadCounter
  <2> QED BY ONLY <1>0, <2>1
<1>6. ASSUME Serve
      PROVE  GridInv'
  <2>1. Kept BY <1>6 DEF Serve, ReadCounter
  <2> QED BY ONLY <1>0, <2>1
<1>7. ASSUME TakeElapse, UNCHANGED slp
      PROVE  GridInv'
  <2>1. Kept BY <1>7 DEF TakeElapse
  <2> QED BY ONLY <1>0, <2>1
<1>8. ASSUME StoreCount, UNCHANGED slp
      PROVE  GridInv'
  <2>1. Kept BY <1>8 DEF StoreCount, Remember, ClockInv, NoPlan, Plans
  <2> QED BY ONLY <1>0, <2>1
<1>9. ASSUME Told
      PROVE  GridInv'
  <2>1. Kept BY <1>9 DEF Told, AddElapse
  <2> QED BY ONLY <1>0, <2>1
<1>10. ASSUME SetClock
      PROVE  GridInv'
  <2>1. Kept BY <1>10 DEF SetClock
  <2> QED BY ONLY <1>0, <2>1
<1>11. ASSUME Sleep
      PROVE  GridInv'
  <2>1. PICK i \in Intervals, o \in Offsets :
          /\ \E s \in SleepTimes(ticks + gap, i, o) : StartTimer(s)
          /\ plan' = IF torn = "no" /\ i > 0 /\ i + o < TimerWrap
                       THEN [interval |-> i, offset |-> o, at |-> elapsed]
                       ELSE NoPlan
    BY <1>11 DEF Sleep
  <2>2. PICK s \in SleepTimes(ticks + gap, i, o) : StartTimer(s)
    BY <2>1
  <2>3. CASE plan' = NoPlan
    BY <1>0, <2>3
  <2>4. CASE plan' # NoPlan
    <3>1. torn = "no" /\ i > 0 /\ i + o < TimerWrap
      BY <2>1, <2>4
    <3>2. s \in 1 .. i + o /\ s % TimerWrap = s
      BY <3>1, SleepLength
    <3>3. left' = Hz * s /\ s = SleepTime(ticks + gap, i, o)
      BY <2>2, <3>1, <3>2 DEF StartTimer, SleepTimes
    <3>4. plan' = [interval |-> i, offset |-> o, at |-> elapsed]
      BY <2>1, <2>4
    <3>5. /\ at = "stored"
          /\ elapsed' = elapsed /\ base' = base /\ lost' = lost
      BY <1>11 DEF Sleep, AddElapse
    <3> DEFINE t == ticks + gap
    <3> DEFINE d == elapsed - t
    <3>6. t \in Int /\ d \in 0 .. lost + 1
      BY <3>1, <3>5 DEF ClockInv, ClockTrue, Tells, Adds
    <3>7. \E k \in Int, x \in 0 .. Hz - 1 + d :
            base * Hz + (t + d + Hz * SleepTime(t, i, o)) - o * Hz
              = k * (i * Hz) + x
      <4>1. /\ t \in Int /\ d \in Nat /\ i \in Nat \ {0} /\ o \in Nat
            /\ base \in Nat
        BY <3>1, <3>6
      <4> HIDE DEF t, d
      <4> QED BY ONLY <4>1, GridLength
    <3>8. PICK k \in Int, x \in 0 .. Hz - 1 + d :
            base * Hz + (elapsed + left') - o * Hz = k * (i * Hz) + x
      <4>1. t + d = elapsed
        BY <3>6
      <4> HIDE DEF t, d
      <4>2. elapsed + left' = t + d + Hz * SleepTime(t, i, o)
        BY <3>3, <4>1 DEF t
      <4> QED BY <3>7, <4>2
    <3>9. x \in 0 .. Hz + lost'
      BY <3>5, <3>6
    <3>10. base' * Hz + (elapsed' + left') - plan'.offset * Hz
             = k * (plan'.interval * Hz) + x
      BY <3>4, <3>5, <3>8
    <3> QED BY <3>1, <3>4, <3>9, <3>10 DEF GridInv, OnGrid
  <2> QED BY <2>3, <2>4
<1>12. ASSUME End
      PROVE  GridInv'
  <2>1. Kept BY <1>12 DEF End, ReadCounter, StopTimer
  <2> QED BY ONLY <1>0, <2>1
<1>13. ASSUME ResetMail
      PROVE  GridInv'
  <2>1. Kept BY <1>13 DEF ResetMail
  <2> QED BY ONLY <1>0, <2>1
<1>14. ASSUME ResetRest
      PROVE  GridInv'
  <2>1. Kept BY <1>14 DEF ResetRest
  <2> QED BY ONLY <1>0, <2>1
<1> QED
  BY <1>1, <1>2, <1>3, <1>4, <1>5, <1>6, <1>7, <1>8, <1>9, <1>10, <1>11,
      <1>12, <1>13, <1>14
  DEF Next, MainStep, UseClock, Measure

\* A timer that expires with the time known to be on the grid wakes on it.
LEMMA GridWake ==
  ASSUME TypeOK, GridInv, Next, Expires, elapsed' > elapsed, plan # NoPlan
  PROVE  Phase(elapsed', plan) <= Hz + lost
<1> USE CalendarAssumption DEF TypeOK, ClockTypeOK
<1>1. Pass
  BY DEF Next, ClientReads, ClientAsks, MainStep, Start, TaskStop, UseClock,
         Ask, ReadCounter, Serve, Measure, TakeElapse, StoreCount, Told,
         AddElapse, SetClock, SetBase, Sleep, End, ResetMail, ResetRest, slp,
         clock
<1>2. torn = "no" /\ left = 1 /\ elapsed' = elapsed + left
  BY <1>1 DEF Pass, ClockRuns, Expires
<1>3. plan.interval > 0 /\ OnGrid(elapsed + left, plan)
  BY <1>2 DEF GridInv
<1>4. PICK k \in Int, x \in 0 .. Hz + lost :
        base * Hz + (elapsed + left) - plan.offset * Hz
          = k * (plan.interval * Hz) + x
  BY <1>3 DEF OnGrid
<1> DEFINE m == plan.interval * Hz
<1> DEFINE a == base * Hz + elapsed' - plan.offset * Hz
<1>5. Phase(elapsed', plan) = a % m
  BY DEF Phase
<1>6. a = k * m + x
  BY <1>2, <1>4
<1>7. m \in Nat \ {0} /\ x \in Nat
  <2>1. plan.interval \in Nat \ {0} /\ Hz \in Nat \ {0}
    BY <1>3 DEF Plans
  <2>2. m \in Nat \ {0}
    BY ONLY <2>1, Product
  <2>3. x \in Nat
    BY <1>4
  <2> QED BY <2>2, <2>3
<1> HIDE DEF m, a
<1>8. (k * m + x) % m <= x
  BY <1>7, RemainderOfSum
<1>9. a % m <= x
  BY <1>6, <1>8
<1>10. x <= Hz + lost /\ x \in Int
  BY <1>4
<1>11. a % m \in Int
  <2>1. k * m + x \in Int
    BY <1>7
  <2>2. (k * m + x) % m \in 0 .. m - 1
    BY <1>7, <2>1, Remainder
  <2> QED BY <1>6, <1>7, <2>2
<1>12. a % m <= Hz + lost
  BY <1>9, <1>10, <1>11
<1> QED BY <1>5, <1>12

\* The four together are inductive.
THEOREM Inductive == Spec => [](TypeOK /\ ClockInv /\ SleepInv /\ GridInv)
<1>1. Init => TypeOK /\ ClockInv /\ SleepInv /\ GridInv
  BY CalendarAssumption, SlpAssumption
  DEF Init, ClockInit, TypeOK, ClockTypeOK, ClockInv, SleepInv, GridInv,
      NoPlan, Plans, ClockTrue, RunTimeTrue, Tells, Adds, SleepBounded
<1>2. TypeOK /\ ClockInv /\ SleepInv /\ GridInv /\ [Next]_vars =>
        (TypeOK /\ ClockInv /\ SleepInv /\ GridInv)'
  <2>1. ASSUME TypeOK, ClockInv, SleepInv, GridInv, UNCHANGED vars
        PROVE  TypeOK' /\ ClockInv' /\ SleepInv' /\ GridInv'
    <3>1. TypeOK' /\ ClockInv' /\ SleepInv'
      BY <2>1
      DEF vars, clock, slp, TypeOK, ClockTypeOK, ClockInv, SleepInv, Plans,
          NoPlan, ClockTrue, RunTimeTrue, Tells, Adds, SleepBounded
    <3>2. GridInv'
      BY <2>1 DEF vars, clock, slp, GridInv, OnGrid, NoPlan
    <3> QED BY <3>1, <3>2
  <2> QED BY <2>1, TypeStep, ClockStep, SleepStep, GridStep
<1> QED BY <1>1, <1>2, PTL DEF Spec

\* Every variable of system_low_power.c and calendar.c keeps a value of its
\* type.
THEOREM TypeCorrect == Spec => []TypeOK
<1> QED BY Inductive, PTL

\* The clock of calendar.c never gains, and loses only the ticks that fall
\* between reading the counter and clearing it.
THEOREM ClockKeepsTime == Spec => []ClockTrue
<1>1. ClockInv => ClockTrue
  BY DEF ClockInv, ClockTrue
<1> QED BY <1>1, Inductive, PTL

\* The running time counts every tick but those, and none twice.
THEOREM RunTimeIsTrue == Spec => []RunTimeTrue
<1>1. ClockInv => RunTimeTrue
  BY DEF ClockInv, RunTimeTrue
<1> QED BY <1>1, Inductive, PTL

\* slp_operate never sleeps longer than the interval and the offset.
THEOREM SleepsAreBounded == Spec => []SleepBounded
<1>1. SleepInv => SleepBounded
  BY DEF SleepInv
<1> QED BY <1>1, Inductive, PTL

\* A sleep of a sane length has a running timer or its end in slp_state.
THEOREM SleepsEnd == Spec => []SleepEnds
<1>1. SleepInv => SleepEnds
  BY DEF SleepInv, SleepEnds
<1> QED BY <1>1, Inductive, PTL

\* slp_state ends no sleep twice, but for the timer inside slp_reset.
THEOREM SleepsEndOnce == Spec => []OneEndPerSleep
<1>1. SleepInv => OneEndPerSleep
  BY DEF SleepInv, OneEndPerSleep
<1> QED BY <1>1, Inductive, PTL

\* sleep_time puts the end of every sleep on the grid of the interval and the
\* offset, to within a second, a tick and what clearing the counter has cost.
THEOREM SleepsOnGrid == Spec => WakesOnGrid
<1>1. TypeOK /\ GridInv /\ [Next]_vars =>
        [Expires /\ elapsed' > elapsed /\ plan # NoPlan =>
           Phase(elapsed', plan) <= Hz + lost]_vars
  BY GridWake
<1>2. Spec => [](TypeOK /\ GridInv)
  BY Inductive, PTL
<1> QED BY <1>1, <1>2, PTL DEF Spec, WakesOnGrid
=============================================================================
