---------------------------- MODULE BleBatProofs ----------------------------
(***************************************************************************)
(* Proofs about the Bluetooth task, with and without a bound on the        *)
(* advertising time and wherever the SoftDevice's events fall, and about   *)
(* the battery gauge its stop handler reports to, for a battery of any     *)
(* size.                                                                   *)
(***************************************************************************)
EXTENDS BleTask, BatSoc, TLAPS

-----------------------------------------------------------------------------
(***************************************************************************)
(* The inductive invariant, in parts.  Silence is about the states in      *)
(* which the SoftDevice is known to be silent, Ending about an advertising *)
(* and its timer, Awake about the low-power table.  Attentive is about     *)
(* what holds until an event falls inside a handler.                       *)
(***************************************************************************)
Silence ==
  /\ obj = "IDLE" /\ pc # "opened" => air = "silent"
  /\ mail \in {"DISCON", "ADV_STOP"} => air = "silent"
  /\ pc \in {"ADV", "DISCON", "ADV_STOP"} => air = "silent"
  /\ pc = "ADV" => mail \in {"ADV", "ADV_TIMEOUT"}
  /\ pc = "loop" /\ mail = "ADV" => obj = "IDLE"
  /\ pc \in {"opened", "CONN"} => mail # "IDLE"
  /\ pc # "badstart"

Ending ==
  /\ AdvertisingEnds
  /\ Bounded /\ pc = "named" => "adv" \in armed
  /\ mail = "CONN" => air = "conn"
  /\ pc \in {"CONN", "linked"} => air # "adv"

Awake ==
  /\ AwakeForAReason
  /\ lpm = "RUN" /\ pc \notin {"opened", "named"} => air = "silent"
  /\ mail = "CONN" /\ pc \notin {"opened", "named"} => lpm # "RUN"
  /\ pc \in {"CONN", "linked"} => lpm # "RUN"
  /\ pc = "named" => obj # "IDLE"

Attentive ==
  hit = "no" =>
  /\ pc = "loop" /\ air = "silent" /\ mail = "IDLE" =>
       obj = "IDLE" /\ "BLE" \in evts
  /\ pc \in {"CONN", "linked"} => air = "conn"
  /\ pc \in {"opened", "named"} => air = "adv"

LEMMA InitType == Init => TypeOK
BY DEF Init, TypeOK, Mails, Locations

LEMMA InitParts == Init => Silence /\ Ending /\ Awake /\ Attentive
BY DEF Init, Silence, Ending, Awake, Attentive, AdvertisingEnds,
       AwakeForAReason

\* Every step keeps the types.
LEMMA TypeStep == TypeOK /\ Next => TypeOK'
<1> SUFFICES ASSUME TypeOK, Next PROVE TypeOK'
  OBVIOUS
<1> USE DEF TypeOK, Mails, Locations
<1>1. CASE Schedule BY <1>1 DEF Schedule, TaskStart
<1>2. CASE Dispatch BY <1>2 DEF Dispatch
<1>3. CASE AdvOpen BY <1>3 DEF AdvOpen
<1>4. CASE AdvName BY <1>4 DEF AdvName, ArmAdv
<1>5. CASE AdvEnd BY <1>5 DEF AdvEnd, IdleLpm
<1>6. CASE ConnName BY <1>6 DEF ConnName
<1>7. CASE ConnEnd BY <1>7 DEF ConnEnd
<1>8. CASE Discon BY <1>8 DEF Discon
<1>9. CASE StopAdv BY <1>9 DEF StopAdv
<1>10. CASE Stop BY <1>10 DEF Stop, StopHandler
<1>11. CASE Reboot BY <1>11 DEF Reboot
<1>12. CASE Connected BY <1>12 DEF Connected, Noted
<1>13. CASE Disconnected BY <1>13 DEF Disconnected, Noted
<1>14. CASE AdvTimerFires BY <1>14 DEF AdvTimerFires, Noted
<1>15. CASE SignalIrq BY <1>15 DEF SignalIrq
<1>16. CASE LoraScheduled BY <1>16 DEF LoraScheduled
<1>17. CASE LoraOffline BY <1>17 DEF LoraOffline
<1>18. CASE LoraGoesOn BY <1>18 DEF LoraGoesOn
<1> QED BY <1>1, <1>2, <1>3, <1>4, <1>5, <1>6, <1>7, <1>8, <1>9, <1>10,
           <1>11, <1>12, <1>13, <1>14, <1>15, <1>16, <1>17, <1>18
         DEF Next, MainStep, Interrupt

\* A request is served only in a state where nothing is on the air.
LEMMA SilenceStep == TypeOK /\ Silence /\ Next => Silence'
<1> SUFFICES ASSUME TypeOK, Silence, Next PROVE Silence'
  OBVIOUS
<1> USE DEF TypeOK, Mails, Locations, Silence
<1>1. CASE Schedule BY <1>1 DEF Schedule, TaskStart
<1>2. CASE Dispatch BY <1>2 DEF Dispatch
<1>3. CASE AdvOpen BY <1>3 DEF AdvOpen
<1>4. CASE AdvName BY <1>4 DEF AdvName, ArmAdv
<1>5. CASE AdvEnd BY <1>5 DEF AdvEnd, IdleLpm
<1>6. CASE ConnName BY <1>6 DEF ConnName
<1>7. CASE ConnEnd BY <1>7 DEF ConnEnd
<1>8. CASE Discon BY <1>8 DEF Discon
<1>9. CASE StopAdv BY <1>9 DEF StopAdv
<1>10. CASE Stop BY <1>10 DEF Stop, StopHandler
<1>11. CASE Reboot BY <1>11 DEF Reboot
<1>12. CASE Connected BY <1>12 DEF Connected, Noted
<1>13. CASE Disconnected BY <1>13 DEF Disconnected, Noted
<1>14. CASE AdvTimerFires BY <1>14 DEF AdvTimerFires, Noted
<1>15. CASE SignalIrq BY <1>15 DEF SignalIrq
<1>16. CASE LoraScheduled BY <1>16 DEF LoraScheduled
<1>17. CASE LoraOffline BY <1>17 DEF LoraOffline
<1>18. CASE LoraGoesOn BY <1>18 DEF LoraGoesOn
<1> QED BY <1>1, <1>2, <1>3, <1>4, <1>5, <1>6, <1>7, <1>8, <1>9, <1>10,
           <1>11, <1>12, <1>13, <1>14, <1>15, <1>16, <1>17, <1>18
         DEF Next, MainStep, Interrupt

\* Advertising starts with its timer and ends with its timeout.
LEMMA EndingStep == TypeOK /\ Silence /\ Ending /\ Next => Ending'
<1> SUFFICES ASSUME TypeOK, Silence, Ending, Next PROVE Ending'
  OBVIOUS
<1> USE DEF TypeOK, Mails, Locations, Silence, Ending, AdvertisingEnds
<1>1. CASE Schedule BY <1>1 DEF Schedule, TaskStart
<1>2. CASE Dispatch BY <1>2 DEF Dispatch
<1>3. CASE AdvOpen BY <1>3 DEF AdvOpen
<1>4. CASE AdvName BY <1>4 DEF AdvName, ArmAdv
<1>5. CASE AdvEnd BY <1>5 DEF AdvEnd, IdleLpm
<1>6. CASE ConnName BY <1>6 DEF ConnName
<1>7. CASE ConnEnd BY <1>7 DEF ConnEnd
<1>8. CASE Discon BY <1>8 DEF Discon
<1>9. CASE StopAdv BY <1>9 DEF StopAdv
<1>10. CASE Stop BY <1>10 DEF Stop, StopHandler
<1>11. CASE Reboot BY <1>11 DEF Reboot
<1>12. CASE Connected BY <1>12 DEF Connected, Noted
<1>13. CASE Disconnected BY <1>13 DEF Disconnected, Noted
<1>14. CASE AdvTimerFires BY <1>14 DEF AdvTimerFires, Noted
<1>15. CASE SignalIrq BY <1>15 DEF SignalIrq
<1>16. CASE LoraScheduled BY <1>16 DEF LoraScheduled
<1>17. CASE LoraOffline BY <1>17 DEF LoraOffline
<1>18. CASE LoraGoesOn BY <1>18 DEF LoraGoesOn
<1> QED BY <1>1, <1>2, <1>3, <1>4, <1>5, <1>6, <1>7, <1>8, <1>9, <1>10,
           <1>11, <1>12, <1>13, <1>14, <1>15, <1>16, <1>17, <1>18
         DEF Next, MainStep, Interrupt

\* Every handler that empties the mailbox leaves the status RUN.
LEMMA AwakeStep == TypeOK /\ Silence /\ Awake /\ Next => Awake'
<1> SUFFICES ASSUME TypeOK, Silence, Awake, Next PROVE Awake'
  OBVIOUS
<1> USE DEF TypeOK, Mails, Locations, Silence, Awake, AwakeForAReason
<1>1. CASE Schedule BY <1>1 DEF Schedule, TaskStart
<1>2. CASE Dispatch BY <1>2 DEF Dispatch
<1>3. CASE AdvOpen BY <1>3 DEF AdvOpen
<1>4. CASE AdvName BY <1>4 DEF AdvName, ArmAdv
<1>5. CASE AdvEnd BY <1>5 DEF AdvEnd, IdleLpm
<1>6. CASE ConnName BY <1>6 DEF ConnName
<1>7. CASE ConnEnd BY <1>7 DEF ConnEnd
<1>8. CASE Discon BY <1>8 DEF Discon
<1>9. CASE StopAdv BY <1>9 DEF StopAdv
<1>10. CASE Stop BY <1>10 DEF Stop, StopHandler
<1>11. CASE Reboot BY <1>11 DEF Reboot
<1>12. CASE Connected BY <1>12 DEF Connected, Noted
<1>13. CASE Disconnected BY <1>13 DEF Disconnected, Noted
<1>14. CASE AdvTimerFires BY <1>14 DEF AdvTimerFires, Noted
<1>15. CASE SignalIrq BY <1>15 DEF SignalIrq
<1>16. CASE LoraScheduled BY <1>16 DEF LoraScheduled
<1>17. CASE LoraOffline BY <1>17 DEF LoraOffline
<1>18. CASE LoraGoesOn BY <1>18 DEF LoraGoesOn
<1> QED BY <1>1, <1>2, <1>3, <1>4, <1>5, <1>6, <1>7, <1>8, <1>9, <1>10,
           <1>11, <1>12, <1>13, <1>14, <1>15, <1>16, <1>17, <1>18
         DEF Next, MainStep, Interrupt

\* Without events inside a handler no message of the SoftDevice is erased.
LEMMA AttentiveStep ==
  TypeOK /\ Silence /\ Ending /\ Attentive /\ Next => Attentive'
<1> SUFFICES ASSUME TypeOK, Silence, Ending, Attentive, Next PROVE Attentive'
  OBVIOUS
<1> USE DEF TypeOK, Mails, Locations, Silence, Ending, Attentive
<1>1. CASE Schedule BY <1>1 DEF Schedule, TaskStart
<1>2. CASE Dispatch BY <1>2 DEF Dispatch
<1>3. CASE AdvOpen BY <1>3 DEF AdvOpen
<1>4. CASE AdvName BY <1>4 DEF AdvName, ArmAdv
<1>5. CASE AdvEnd BY <1>5 DEF AdvEnd, IdleLpm
<1>6. CASE ConnName BY <1>6 DEF ConnName
<1>7. CASE ConnEnd BY <1>7 DEF ConnEnd
<1>8. CASE Discon BY <1>8 DEF Discon
<1>9. CASE StopAdv BY <1>9 DEF StopAdv
<1>10. CASE Stop BY <1>10 DEF Stop, StopHandler
<1>11. CASE Reboot BY <1>11 DEF Reboot
<1>12. CASE Connected BY <1>12 DEF Connected, Noted
<1>13. CASE Disconnected BY <1>13 DEF Disconnected, Noted
<1>14. CASE AdvTimerFires BY <1>14 DEF AdvTimerFires, Noted
<1>15. CASE SignalIrq BY <1>15 DEF SignalIrq
<1>16. CASE LoraScheduled BY <1>16 DEF LoraScheduled
<1>17. CASE LoraOffline BY <1>17 DEF LoraOffline
<1>18. CASE LoraGoesOn BY <1>18 DEF LoraGoesOn
<1> QED BY <1>1, <1>2, <1>3, <1>4, <1>5, <1>6, <1>7, <1>8, <1>9, <1>10,
           <1>11, <1>12, <1>13, <1>14, <1>15, <1>16, <1>17, <1>18
         DEF Next, MainStep, Interrupt

-----------------------------------------------------------------------------
(* The theorems.                                                           *)

\* Every variable of the task keeps a value of its type, in every behaviour.
THEOREM TypeCorrect == Spec => []TypeOK
<1>1. TypeOK /\ UNCHANGED vars => TypeOK'
  BY DEF TypeOK, vars
<1> QED BY <1>1, InitType, TypeStep, PTL DEF Spec

LEMMA SilenceInvariant == Spec => []Silence
<1>1. Silence /\ UNCHANGED vars => Silence'
  BY DEF Silence, vars
<1> QED BY <1>1, InitParts, SilenceStep, TypeCorrect, PTL DEF Spec

LEMMA EndingInvariant == Spec => []Ending
<1>1. Ending /\ UNCHANGED vars => Ending'
  BY DEF Ending, AdvertisingEnds, vars
<1> QED BY <1>1, InitParts, EndingStep, TypeCorrect, SilenceInvariant, PTL
        DEF Spec

\* sd_ble_gap_adv_start is never called while the SoftDevice is advertising or
\* connected (ble_init.c:755): the assertion there cannot fail.
THEOREM StartsWhenSilent == Spec => []AdvStartSucceeds
<1>1. Silence => AdvStartSucceeds
  BY DEF Silence, AdvStartSucceeds
<1> QED BY <1>1, SilenceInvariant, PTL

\* When ble_adv_time is not 0, an advertising always has a timer or a timeout
\* on its way that will end it.
THEOREM AdvertisingIsBounded == Spec => []AdvertisingEnds
<1>1. Ending => AdvertisingEnds
  BY DEF Ending
<1> QED BY <1>1, EndingInvariant, PTL

\* The task keeps the processor awake only while it has mail to serve.
THEOREM NeverIdlyAwake == Spec => []AwakeForAReason
<1>1. Awake /\ UNCHANGED vars => Awake'
  BY DEF Awake, AwakeForAReason, vars
<1>2. Awake => AwakeForAReason
  BY DEF Awake
<1> QED BY <1>1, <1>2, InitParts, AwakeStep, TypeCorrect, SilenceInvariant,
           PTL DEF Spec

\* Until a SoftDevice event falls inside a handler, a device that is neither
\* advertising nor connected always has a request to advertise, or an event to
\* serve, pending.
THEOREM NotDeaf == Spec => []NeverDeaf
<1>1. Attentive /\ UNCHANGED vars => Attentive'
  BY DEF Attentive, vars
<1>2. Attentive => NeverDeaf
  BY DEF Attentive, NeverDeaf
<1> QED BY <1>1, <1>2, InitParts, AttentiveStep, TypeCorrect,
           SilenceInvariant, EndingInvariant, PTL DEF Spec

-----------------------------------------------------------------------------
(***************************************************************************)
(* The gauge: its inductive invariant, in parts.                           *)
(***************************************************************************)

\* What the totals leave now, and what those of the page would.
Now == Level(used, bad)
Paged == IF page.kind = "erased" THEN Levels - 1 ELSE Level(page.used, "no")

\* The level a reset takes from the page, and the one that is told.
Kept == IF page.kind = "erased" THEN Levels - 1 ELSE page.cap
Shown(c) == Least(c + 1, Levels)

\* Units until the level falls.
Rest(u) == (Full - u) % Unit

\* The page is not behind, and no time-out can put it there.
NoLater == waits = "no" /\ Paged <= Now

Stored == {"store", "compare", "pre"}

\* A battery that has lost nothing is not saved, and is told of once, when the
\* device starts.
UsedInv ==
  /\ IF page.kind = "erased" THEN page.bad = "no"
                             ELSE page.used \in 1 .. used
  /\ bad # "no" \/ save = 1 \/ step \in Saving => used >= 1
  /\ used = 0 =>
       /\ pre <= cap
       /\ step \in Stored => mine = Levels
       /\ step \in {"compare", "pre"} => cap = Levels
       /\ flag = 1 =>
            step \in {"report", "taken"} /\ waits = "no" /\ cap = Levels - 1

\* No copy of the level is below it, but for the level a device starts with.
HighInv ==
  /\ bad = "no" =>
       /\ step \in Stored => mine >= Now
       /\ step \notin {"load", "store"} => cap >= Least(Now, Levels - 1)
       /\ step \notin Calculating =>
            pre >= Least(Now, Levels - 1)
  /\ bad # "no" =>
       /\ step \in Stored => mine = 0
       /\ step \in {"compare", "pre"} => cap = 0

\* A page that is behind the totals is to be saved, or will be found to be when
\* the computation under way compares the levels.
PageInv ==
  /\ page.kind # "erased" /\ page.bad = "no" => page.cap >= Paged
  /\ page.kind = "erased" => step # "rest"
  /\ step = "rest" => page.bad = bad
  /\ page.bad = "no" /\ bad = "no" /\ save = 0 =>
       /\ step \notin Calculating \cup {"erase", "write"} => Paged <= Now
       /\ step = "load" => Paged <= pre
       /\ step = "store" => NoLater \/ (Paged <= pre /\ mine = Now)
       /\ step = "compare" =>
            NoLater \/ (Paged <= pre /\ mine = Now /\ cap = Now)
       /\ step = "pre" => Paged <= Now /\ (waits = "yes" => Paged <= pre)
  /\ page.bad = "no" /\ bad # "no" /\ save = 0 =>
       IF step = "pre" THEN Paged = 0
                       ELSE step \notin {"erase", "write"} => Paged <= pre

\* While no time-out has fallen inside a computation: the copies agree, what
\* was told is the level or is flagged, ...
ToldInv ==
  cut = "no" =>
    /\ bad = "no"
    /\ step \in Stored => mine = Now
    /\ IF step \in {"compare", "pre"} THEN cap = Now ELSE cap = pre
    /\ IF step \in Calculating
         THEN step # "pre" => pre >= Now \/ (used = 0 /\ pre = Levels - 1)
         ELSE pre = Now \/ (used = 0 /\ pre = Levels - 1)
    /\ flag = 0 => told = Shown(IF step = "pre" THEN cap ELSE pre)
    /\ step = "taken" => mine = flag
    /\ told >= Shown(Now)

\* ... and the page is a level behind at most, and not for longer than to the
\* end of the pass.
BehindInv ==
  cut = "no" =>
    /\ page.bad = "no" /\ (page.kind = "torn" => step = "rest")
    /\ step \notin {"erase", "write"} =>
         /\ save = 0 => Kept <= IF step = "pre" THEN cap ELSE pre
         /\ Kept <= Now + 1
         /\ Kept = Now + 1 /\ (waits = "yes" \/ step \in {"loop", "rest"}) =>
              Rest(used) >= 1
         /\ Kept = Now + 1 /\ step \in {"loop", "rest"} => waits = "no"

\* The run-time flag says whether the task runs.
BleInv ==
  /\ ble.on = "yes" <=> ble.mtx = 1
  /\ ble.mtx = 1 => ble.since <= clock
  /\ BleTimeTrue

-----------------------------------------------------------------------------
(* Levels.                                                                 *)

\* A division and what is left of it make up the number, in one way only.
LEMMA DivisionIsUnique ==
  ASSUME NEW a \in Int, NEW b \in Int, b > 0
  PROVE  /\ a \div b \in Int /\ a % b \in 0 .. b - 1
         /\ a = b * (a \div b) + (a % b)
         /\ \A q \in Int, r \in 0 .. b - 1 :
              a = b * q + r => q = a \div b /\ r = a % b
<1>1. a \div b \in Int /\ a % b \in 0 .. b - 1
  OBVIOUS
<1>2. a = b * (a \div b) + (a % b)
  BY Z3
<1> DEFINE p == a \div b
<1> DEFINE s == a % b
<1>3. p \in Int /\ s \in 0 .. b - 1 /\ a = b * p + s
  BY <1>1, <1>2
<1> HIDE DEF p, s
<1>4. ASSUME NEW q \in Int, NEW r \in 0 .. b - 1, a = b * q + r
      PROVE  q = p /\ r = s
  <2>1. b * q \in Int /\ b * p \in Int
    BY <1>3
  <2>2. b * (q - p) = b * q - b * p /\ b * (p - q) = b * p - b * q
    BY <1>3
  <2>3. b * (q - p) < b /\ b * (p - q) < b
    BY <1>3, <1>4, <2>1, <2>2
  <2>4. q <= p
    <3> SUFFICES ASSUME q - p >= 1 PROVE FALSE
      BY <1>3
    <3>1. b * (q - p - 1) >= 0
      BY <1>3
    <3>2. b * (q - p) = b * (q - p - 1) + b
      BY <1>3
    <3> QED BY <1>3, <2>3, <3>1, <3>2
  <2>5. p <= q
    <3> SUFFICES ASSUME p - q >= 1 PROVE FALSE
      BY <1>3
    <3>1. b * (p - q - 1) >= 0
      BY <1>3
    <3>2. b * (p - q) = b * (p - q - 1) + b
      BY <1>3
    <3> QED BY <1>3, <2>3, <3>1, <3>2
  <2>6. q = p
    BY <1>3, <2>4, <2>5
  <2> QED BY <1>3, <1>4, <2>1, <2>6
<1> QED BY <1>1, <1>2, <1>4 DEF p, s

\* The constants, and the level of units left in whole levels and a rest.
LEMMA GaugeConstants ==
  /\ Levels \in Nat \ {0} /\ Unit \in Nat \ {0, 1} /\ MaxClock \in Nat
  /\ Full \in Nat /\ Full >= Unit
<1>1. Full \in Nat
  BY BatSocAssumption DEF Full
<1>2. Levels * Unit = (Levels - 1) * Unit + Unit /\ (Levels - 1) * Unit \in Nat
  BY BatSocAssumption
<1> QED BY <1>1, <1>2, BatSocAssumption DEF Full

\* The level of totals within the capacity, and what is left below it.
LEMMA LevelOf ==
  ASSUME NEW u \in 0 .. Full
  PROVE  /\ Level(u, "no") \in Int /\ Rest(u) \in 0 .. Unit - 1
         /\ Full - u = Unit * Level(u, "no") + Rest(u)
         /\ \A q \in Int, r \in 0 .. Unit - 1 :
              Full - u = Unit * q + r => q = Level(u, "no") /\ r = Rest(u)
<1>1. Full - u \in Int /\ Unit \in Int /\ Unit > 0
  BY GaugeConstants
<1>2. Level(u, "no") = (Full - u) \div Unit /\ Rest(u) = (Full - u) % Unit
  BY GaugeConstants DEF Level, Rest
<1> DEFINE a == Full - u
<1>3. a \in Int
  BY <1>1
<1> HIDE DEF a
<1>4. /\ a \div Unit \in Int /\ a % Unit \in 0 .. Unit - 1
      /\ a = Unit * (a \div Unit) + (a % Unit)
      /\ \A q \in Int, r \in 0 .. Unit - 1 :
           a = Unit * q + r => q = a \div Unit /\ r = a % Unit
  BY ONLY <1>1, <1>3, DivisionIsUnique, Zenon
<1>5. Level(u, "no") = a \div Unit /\ Rest(u) = a % Unit
  BY <1>2 DEF a
<1> QED BY ONLY <1>4, <1>5 DEF a

\* A full battery has all levels.
LEMMA LevelFull == Level(0, "no") = Levels
<1>1. Full - 0 = Unit * Levels + 0
  BY GaugeConstants DEF Full
<1> QED BY <1>1, LevelOf, GaugeConstants

\* A unit more lowers the level by one, or not at all while there is a rest.
LEMMA LevelFall ==
  ASSUME NEW u \in 0 .. Full
  PROVE  \/ Level(u + 1, "no") = Level(u, "no")
         \/ /\ Level(u + 1, "no") = Level(u, "no") - 1
            /\ Rest(u) = 0 /\ Rest(u + 1) = Unit - 1
<1> USE GaugeConstants
<1> DEFINE l == Level(u, "no")
<1> DEFINE r == Rest(u)
<1>1. l \in Int /\ r \in 0 .. Unit - 1 /\ Full - u = Unit * l + r
  BY LevelOf
<1> HIDE DEF l, r
<1>2. CASE u = Full
  <2>1. Full - u = Unit * 0 + 0
    BY <1>2
  <2>2. l = 0
    BY <2>1, LevelOf DEF l
  <2>3. Level(u + 1, "no") = 0
    BY <1>2 DEF Level
  <2> QED BY <2>2, <2>3 DEF l
<1>3. CASE u < Full /\ r >= 1
  <2>1. Full - (u + 1) = Unit * l + (r - 1) /\ r - 1 \in 0 .. Unit - 1
    BY <1>1, <1>3
  <2>2. u + 1 \in 0 .. Full
    BY <1>3
  <2>3. l = Level(u + 1, "no")
    BY <1>1, <2>1, <2>2, LevelOf
  <2> QED BY <2>3 DEF l
<1>4. CASE u < Full /\ r = 0
  <2>1. Unit * l = Unit * (l - 1) + Unit /\ Unit * (l - 1) \in Int
    BY <1>1
  <2>2. Full - (u + 1) = Unit * (l - 1) + (Unit - 1)
    BY <1>1, <1>4, <2>1
  <2>3. u + 1 \in 0 .. Full /\ l - 1 \in Int /\ Unit - 1 \in 0 .. Unit - 1
    BY <1>1, <1>4
  <2>4. l - 1 = Level(u + 1, "no") /\ Unit - 1 = Rest(u + 1)
    BY <2>2, <2>3, LevelOf
  <2> QED BY <1>4, <2>4 DEF l, r
<1> QED BY <1>1, <1>2, <1>3, <1>4

\* The level does not rise as the totals grow.
LEMMA LevelDown ==
  ASSUME NEW u \in 0 .. Full + 1, NEW v \in 0 .. Full + 1, u <= v
  PROVE  Level(v, "no") <= Level(u, "no") /\ Level(v, "no") \in Int
<1> USE GaugeConstants
<1>1. CASE v = Full + 1
  <2>1. Level(v, "no") = 0
    BY <1>1 DEF Level
  <2>2. CASE u = Full + 1
    BY <1>1, <2>1, <2>2
  <2>3. CASE u <= Full
    <3> DEFINE l == Level(u, "no")
    <3> DEFINE r == Rest(u)
    <3>1. l \in Int /\ r \in 0 .. Unit - 1 /\ Full - u = Unit * l + r
      BY <2>3, LevelOf
    <3> HIDE DEF l, r
    <3>2. l >= 0
      <4> SUFFICES ASSUME -1 - l \in Nat PROVE FALSE
        BY <3>1
      <4> DEFINE d == -1 - l
      <4>1. Unit * d \in Nat /\ Unit * l = -(Unit * d) - Unit
        BY <3>1
      <4> HIDE DEF d
      <4> QED BY <2>3, <3>1, <4>1
    <3> QED BY <2>1, <3>1, <3>2 DEF l
  <2> QED BY <2>2, <2>3
<1>2. CASE v <= Full
  <2> DEFINE l == Level(u, "no")
  <2> DEFINE r == Rest(u)
  <2> DEFINE m == Level(v, "no")
  <2> DEFINE s == Rest(v)
  <2>1. /\ l \in Int /\ r \in 0 .. Unit - 1 /\ Full - u = Unit * l + r
        /\ m \in Int /\ s \in 0 .. Unit - 1 /\ Full - v = Unit * m + s
    <3>1. u \in 0 .. Full /\ v \in 0 .. Full
      BY <1>2
    <3> QED BY <3>1, LevelOf
  <2> HIDE DEF l, r, m, s
  <2>2. m <= l
    <3> SUFFICES ASSUME m - l - 1 \in Nat PROVE FALSE
      BY <2>1
    <3>1. Unit * (m - l - 1) \in Nat /\ Unit * l \in Int /\ Unit * m \in Int
      BY <2>1
    <3>2. Unit * (m - l - 1) = Unit * m - Unit * l - Unit
      BY <2>1
    <3> QED BY <2>1, <3>1, <3>2
  <2> QED BY <2>1, <2>2 DEF l, m
<1> QED BY <1>1, <1>2

\* What is known of the level of any totals.
LEMMA LevelRange ==
  ASSUME NEW u \in 0 .. Full + 1, NEW b
  PROVE  /\ Level(u, b) \in 0 .. Levels
         /\ b # "no" => Level(u, b) = 0
         /\ b = "no" /\ u = 0 => Level(u, b) = Levels
         /\ u >= 1 => Level(u, b) <= Levels - 1
<1> USE GaugeConstants
<1>1. CASE b # "no"
  BY <1>1 DEF Level
<1>2. Level(u, "no") \in 0 .. Levels
  <2>1. Level(u, "no") <= Levels /\ Level(u, "no") \in Int
    BY LevelDown, LevelFull
  <2>2. 0 <= Level(u, "no")
    <3>1. Level(Full + 1, "no") = 0
      BY DEF Level
    <3> QED BY <3>1, LevelDown
  <2> QED BY <2>1, <2>2
<1>3. u >= 1 => Level(u, "no") <= Levels - 1
  <2>1. Level(1, "no") = Levels - 1
    <3>1. 1 \in 0 .. Full
      OBVIOUS
    <3>2. Full - 1 = Unit * (Levels - 1) + (Unit - 1)
      <4>1. Unit * (Levels - 1) = Levels * Unit - Unit
        OBVIOUS
      <4>2. Full = Levels * Unit /\ Levels * Unit \in Nat
        BY DEF Full
      <4> QED BY <4>1, <4>2
    <3>3. Levels - 1 \in Int /\ Unit - 1 \in 0 .. Unit - 1
      OBVIOUS
    <3> QED BY <3>1, <3>2, <3>3, LevelOf
  <2>2. u >= 1 => Level(u, "no") <= Level(1, "no") /\ Level(u, "no") \in Int
    BY LevelDown
  <2> QED BY <2>1, <2>2
<1>4. CASE b = "no"
  BY <1>2, <1>3, <1>4, LevelFull
<1> QED BY <1>1, <1>4

-----------------------------------------------------------------------------
(***************************************************************************)
(* Steps of the gauge.                                                     *)
(***************************************************************************)

\* Every step keeps the types.
LEMMA GaugeTypeStep ==
  ASSUME GaugeTypeOK, BleInv, GaugeNext PROVE GaugeTypeOK'
<1> USE GaugeConstants DEF GaugeTypeOK, Calculating, Saving, Costs, Erased,
      gauge, radio
<1>1. CASE Tick
  BY <1>1 DEF Tick
<1>2. CASE BleStarts
  <2>1. CASE ble.mtx = 0
    <3>1. /\ ble'.on = "yes" /\ ble'.mtx = 1 /\ ble'.since = clock
          /\ ble'.time = ble.time
          /\ ble' = [on |-> ble'.on, mtx |-> ble'.mtx, since |-> ble'.since,
                     time |-> ble'.time]
      BY <1>2, <2>1 DEF BleStarts, RunTimeStart
    <3>2. ble' \in [on : {"yes", "no"}, mtx : 0..1, since : 0..MaxClock,
                   time : Nat]
      BY <3>1
    <3> QED BY <1>2, <3>2 DEF BleStarts
  <2>2. CASE ble.mtx # 0
    BY <1>2, <2>2 DEF BleStarts, RunTimeStart
  <2> QED BY <2>1, <2>2
<1>3. CASE BleStops
  <2>1. clock - ble.since \in 0 .. MaxClock
    BY <1>3 DEF BleStops, BleInv
  <2> QED BY <1>3, <2>1 DEF BleStops
<1>4. CASE Samples
  BY <1>4 DEF Samples
<1>5. CASE Transmits
  BY <1>5 DEF Transmits
<1>6. CASE Answered
  BY <1>6 DEF Answered
<1>7. CASE Passes
  BY <1>7 DEF Passes
<1>8. CASE Load
  <2>1. Level(used, bad) \in 0 .. Levels
    BY LevelRange
  <2> QED BY <1>8, <2>1 DEF Load
<1>9. CASE Store
  BY <1>9 DEF Store
<1>10. CASE Compare
  BY <1>10 DEF Compare, Raised
<1>11. CASE Remember
  BY <1>11 DEF Remember
<1>12. CASE Take
  BY <1>12 DEF Take
<1>13. CASE Report
  BY <1>13 DEF Report, Tell
<1>14. CASE SaveTest
  BY <1>14 DEF SaveTest
<1>15. CASE Erase
  BY <1>15 DEF Erase
<1>16. CASE WriteFirst
  BY <1>16 DEF WriteFirst, Content
<1>17. CASE WriteRest
  BY <1>17 DEF WriteRest, Content
<1>18. CASE TimesOut
  <2>1. PICK e \in Costs :
          /\ used' = used + e
          /\ cap' = Level(used + e, bad) /\ pre' = cap' /\ Raised(pre, cap')
    BY <1>18 DEF TimesOut
  <2>2. used + e \in 0 .. Full + 1
    BY <2>1
  <2>3. cap' \in 0 .. Levels
    BY <2>1, <2>2, LevelRange
  <2> QED BY <1>18, <2>1, <2>2, <2>3 DEF TimesOut, Raised
<1>19. CASE PowerFails
  BY <1>19 DEF PowerFails, Fresh
<1> QED BY <1>1, <1>2, <1>3, <1>4, <1>5, <1>6, <1>7, <1>8, <1>9, <1>10, <1>11,
           <1>12, <1>13, <1>14, <1>15, <1>16, <1>17, <1>18, <1>19
         DEF GaugeNext, Consume

\* Every step keeps the Bluetooth time.
LEMMA BleTimeStep ==
  ASSUME GaugeTypeOK, BleInv, GaugeNext PROVE BleInv'
<1> USE GaugeConstants DEF GaugeTypeOK, BleInv, BleTimeTrue, Costs, Erased,
      gauge, radio
<1>1. CASE Tick
  BY <1>1 DEF Tick
<1>2. CASE BleStarts
  BY <1>2 DEF BleStarts, RunTimeStart
<1>3. CASE BleStops
  BY <1>3 DEF BleStops
<1>4. CASE Samples
  BY <1>4 DEF Samples
<1>5. CASE Transmits
  BY <1>5 DEF Transmits
<1>6. CASE Answered
  BY <1>6 DEF Answered
<1>7. CASE Passes
  BY <1>7 DEF Passes
<1>8. CASE Load
  BY <1>8 DEF Load
<1>9. CASE Store
  BY <1>9 DEF Store
<1>10. CASE Compare
  BY <1>10 DEF Compare, Raised
<1>11. CASE Remember
  BY <1>11 DEF Remember
<1>12. CASE Take
  BY <1>12 DEF Take
<1>13. CASE Report
  BY <1>13 DEF Report, Tell
<1>14. CASE SaveTest
  BY <1>14 DEF SaveTest
<1>15. CASE Erase
  BY <1>15 DEF Erase
<1>16. CASE WriteFirst
  BY <1>16 DEF WriteFirst, Content
<1>17. CASE WriteRest
  BY <1>17 DEF WriteRest, Content
<1>18. CASE TimesOut
  BY <1>18 DEF TimesOut, Raised
<1>19. CASE PowerFails
  BY <1>19 DEF PowerFails, Fresh
<1> QED BY <1>1, <1>2, <1>3, <1>4, <1>5, <1>6, <1>7, <1>8, <1>9, <1>10, <1>11,
           <1>12, <1>13, <1>14, <1>15, <1>16, <1>17, <1>18, <1>19
         DEF GaugeNext, Consume

\* Every step keeps a battery that has lost nothing as it is.
LEMMA UsedStep ==
  ASSUME GaugeTypeOK, UsedInv, GaugeNext PROVE UsedInv'
<1> USE GaugeConstants DEF GaugeTypeOK, Calculating, Saving, Costs, Erased,
      gauge, radio, UsedInv, Stored
<1>1. CASE Tick
  BY <1>1 DEF Tick
<1>2. CASE BleStarts
  BY <1>2 DEF BleStarts, RunTimeStart
<1>3. CASE BleStops
  BY <1>3 DEF BleStops
<1>4. CASE Samples
  BY <1>4 DEF Samples
<1>5. CASE Transmits
  BY <1>5 DEF Transmits
<1>6. CASE Answered
  BY <1>6 DEF Answered
<1>7. CASE Passes
  BY <1>7 DEF Passes
<1>8. CASE Load
  <2>1. used = 0 => Level(used, bad) = Levels
    BY LevelRange
  <2> QED BY <1>8, <2>1 DEF Load
<1>9. CASE Store
  BY <1>9 DEF Store
<1>10. CASE Compare
  BY <1>10 DEF Compare, Raised
<1>11. CASE Remember
  BY <1>11 DEF Remember
<1>12. CASE Take
  BY <1>12 DEF Take
<1>13. CASE Report
  BY <1>13 DEF Report, Tell
<1>14. CASE SaveTest
  BY <1>14 DEF SaveTest
<1>15. CASE Erase
  BY <1>15 DEF Erase
<1>16. CASE WriteFirst
  BY <1>16 DEF WriteFirst, Content
<1>17. CASE WriteRest
  BY <1>17 DEF WriteRest, Content
<1>18. CASE TimesOut
  <2>1. PICK e \in Costs :
          /\ used' = used + e
          /\ cap' = Level(used + e, bad) /\ pre' = cap' /\ Raised(pre, cap')
    BY <1>18 DEF TimesOut
  <2>2. used + e \in 0 .. Full + 1
    BY <2>1
  <2>3. used + e = 0 => cap' = Levels
    BY <2>1, <2>2, LevelRange
  <2> QED BY <1>18, <2>1, <2>2, <2>3 DEF TimesOut, Raised
<1>19. CASE PowerFails
  BY <1>19 DEF PowerFails, Fresh
<1> QED BY <1>1, <1>2, <1>3, <1>4, <1>5, <1>6, <1>7, <1>8, <1>9, <1>10, <1>11,
           <1>12, <1>13, <1>14, <1>15, <1>16, <1>17, <1>18, <1>19
         DEF GaugeNext, Consume

\* Every step keeps the copies from falling below the level.
LEMMA HighStep ==
  ASSUME GaugeTypeOK, UsedInv, HighInv, PageInv, GaugeNext PROVE HighInv'
<1> USE GaugeConstants DEF GaugeTypeOK, Calculating, Saving, Costs, Erased,
      gauge, radio, HighInv, Stored, Now, Least
<1>1. CASE Tick
  BY <1>1 DEF Tick
<1>2. CASE BleStarts
  BY <1>2 DEF BleStarts, RunTimeStart
<1>3. CASE BleStops
  BY <1>3 DEF BleStops
<1>4. CASE Samples
  BY <1>4 DEF Samples
<1>5. CASE Transmits
  BY <1>5 DEF Transmits
<1>6. CASE Answered
  BY <1>6 DEF Answered
<1>7. CASE Passes
  BY <1>7 DEF Passes
<1>8. CASE Load
  <2>1. /\ Level(used, bad) \in 0 .. Levels
        /\ bad # "no" => Level(used, bad) = 0
    BY LevelRange
  <2> QED BY <1>8, <2>1 DEF Load
<1>9. CASE Store
  <2>1. Level(used, bad) \in 0 .. Levels
    BY LevelRange
  <2> QED BY <1>9, <2>1 DEF Store
<1>10. CASE Compare
  BY <1>10 DEF Compare, Raised
<1>11. CASE Remember
  <2>1. Level(used, bad) \in 0 .. Levels
    BY LevelRange
  <2> QED BY <1>11, <2>1 DEF Remember
<1>12. CASE Take
  BY <1>12 DEF Take
<1>13. CASE Report
  BY <1>13 DEF Report, Tell
<1>14. CASE SaveTest
  BY <1>14 DEF SaveTest
<1>15. CASE Erase
  BY <1>15 DEF Erase
<1>16. CASE WriteFirst
  BY <1>16 DEF WriteFirst, Content
<1>17. CASE WriteRest
  BY <1>17 DEF WriteRest, Content
<1>18. CASE TimesOut
  <2>1. PICK e \in Costs :
          /\ used' = used + e
          /\ cap' = Level(used + e, bad) /\ pre' = cap' /\ Raised(pre, cap')
    BY <1>18 DEF TimesOut
  <2>2. used + e \in 0 .. Full + 1
    BY <2>1
  <2>3. cap' \in 0 .. Levels /\ cap' <= Now /\ Now \in 0 .. Levels
        /\ (bad # "no" => cap' = 0) /\ cap' = Now'
    <3>1. Level(used + e, "no") <= Level(used, "no")
      BY <2>2, LevelDown
    <3> QED BY <1>18, <2>1, <2>2, <3>1, LevelRange DEF TimesOut, Now
  <2> HIDE DEF Now
  <2> QED BY <1>18, <2>1, <2>3 DEF TimesOut
<1>19. CASE PowerFails
  <2>1. used' \in 0 .. Full + 1 /\ Now' \in 0 .. Levels
    <3>1. used' \in 0 .. Full + 1
      BY <1>19 DEF PowerFails
    <3> QED BY <3>1, LevelRange
  <2>2. CASE page.kind = "erased"
    BY <1>19, <2>1, <2>2 DEF PowerFails, Fresh
  <2>3. CASE page.kind # "erased" /\ bad' = "no"
    <3>1. used' = page.used /\ page.bad = "no" /\ cap' = page.cap
          /\ pre' = cap' /\ step' = "report"
      BY <1>19, <2>3 DEF PowerFails, Fresh
    <3>2. page.cap >= Now'
      BY <2>3, <3>1 DEF PageInv, Paged
    <3> HIDE DEF Now
    <3> QED BY <2>1, <2>3, <3>1, <3>2
  <2>4. CASE bad' # "no"
    BY <1>19, <2>4 DEF PowerFails, Fresh
  <2> QED BY <2>2, <2>3, <2>4
<1> QED BY <1>1, <1>2, <1>3, <1>4, <1>5, <1>6, <1>7, <1>8, <1>9, <1>10, <1>11,
           <1>12, <1>13, <1>14, <1>15, <1>16, <1>17, <1>18, <1>19
         DEF GaugeNext, Consume

\* Levels within their range.
LEMMA LevelsInRange ==
  ASSUME GaugeTypeOK, UsedInv
  PROVE  /\ Paged \in 0 .. Levels - 1 /\ Now \in 0 .. Levels
         /\ bad # "no" => Now = 0
         /\ used >= 1 => Now <= Levels - 1
         /\ used = 0 => Now = Levels
<1>1. /\ Now \in 0 .. Levels /\ (bad # "no" => Now = 0)
      /\ used >= 1 => Now <= Levels - 1
      /\ used = 0 => Now = Levels
  <2>1. used \in 0 .. Full + 1 /\ (used = 0 => bad = "no")
    BY GaugeConstants DEF GaugeTypeOK, UsedInv
  <2> QED BY <2>1, LevelRange DEF Now
<1>2. CASE page.kind = "erased"
  BY <1>1, <1>2, GaugeConstants DEF Paged
<1>3. CASE page.kind # "erased"
  <2>1. page.used \in 1 .. used /\ page.used \in 0 .. Full + 1
    BY <1>3 DEF UsedInv, GaugeTypeOK
  <2>2. Level(page.used, "no") \in 0 .. Levels - 1
    BY <2>1, LevelRange, GaugeConstants
  <2> QED BY <1>1, <1>3, <2>2 DEF Paged
<1> QED BY <1>2, <1>3

\* Every step keeps a page that is behind to be saved.
LEMMA PageStep ==
  ASSUME GaugeTypeOK, UsedInv, HighInv, PageInv, GaugeNext PROVE PageInv'
<1> USE GaugeConstants, LevelsInRange DEF GaugeTypeOK, Calculating, Saving,
      Costs, Erased, gauge, radio, PageInv, HighInv, UsedInv, Stored, Least,
      NoLater
<1>1. CASE Tick
  <2>1. Now' = Now /\ Paged' = Paged
    BY <1>1 DEF Tick, Now, Paged
  <2> QED BY <1>1, <2>1 DEF Tick
<1>2. CASE BleStarts
  <2>1. Now' = Now /\ Paged' = Paged
    BY <1>2 DEF BleStarts, Now, Paged
  <2> QED BY <1>2, <2>1 DEF BleStarts, RunTimeStart
<1>3. CASE BleStops
  <2>1. Paged' = Paged
    BY <1>3 DEF BleStops, Now, Paged
  <2> QED BY <1>3, <2>1 DEF BleStops
<1>4. CASE Samples
  <2>1. Paged' = Paged
    BY <1>4 DEF Samples, Now, Paged
  <2> QED BY <1>4, <2>1 DEF Samples
<1>5. CASE Transmits
  <2>1. Now' = Now /\ Paged' = Paged
    BY <1>5 DEF Transmits, Now, Paged
  <2> QED BY <1>5, <2>1 DEF Transmits
<1>6. CASE Answered
  <2>1. Paged' = Paged
    BY <1>6 DEF Answered, Now, Paged
  <2> QED BY <1>6, <2>1 DEF Answered
<1>7. CASE Passes
  <2>1. Now' = Now /\ Paged' = Paged
    BY <1>7 DEF Passes, Now, Paged
  <2> QED BY <1>7, <2>1 DEF Passes
<1>8. CASE Load
  <2>1. Now' = Now /\ Paged' = Paged /\ mine' = Now
    BY <1>8 DEF Load, Now, Paged
  <2> QED BY <1>8, <2>1 DEF Load
<1>9. CASE Store
  <2>1. Now' = Now /\ Paged' = Paged
    BY <1>9 DEF Store, Now, Paged
  <2> QED BY <1>9, <2>1 DEF Store
<1>10. CASE Compare
  <2>1. Now' = Now /\ Paged' = Paged
    BY <1>10 DEF Compare, Now, Paged
  <2> QED BY <1>10, <2>1 DEF Compare, Raised
<1>11. CASE Remember
  <2>1. Now' = Now /\ Paged' = Paged
    BY <1>11 DEF Remember, Now, Paged
  <2> QED BY <1>11, <2>1 DEF Remember
<1>12. CASE Take
  <2>1. Now' = Now /\ Paged' = Paged
    BY <1>12 DEF Take, Now, Paged
  <2> QED BY <1>12, <2>1 DEF Take
<1>13. CASE Report
  <2>1. Now' = Now /\ Paged' = Paged
    BY <1>13 DEF Report, Now, Paged
  <2> QED BY <1>13, <2>1 DEF Report, Tell
<1>14. CASE SaveTest
  <2>1. Now' = Now /\ Paged' = Paged
    BY <1>14 DEF SaveTest, Now, Paged
  <2> QED BY <1>14, <2>1 DEF SaveTest
<1>15. CASE Erase
  BY <1>15 DEF Erase, Paged
<1>16. CASE WriteFirst
  <2>1. Now' = Now /\ page'.cap = cap /\ page'.bad = bad /\ used >= 1
        /\ page'.kind = "torn" /\ Paged' = Level(used, "no")
    BY <1>16 DEF WriteFirst, Content, Now, Paged
  <2>2. used >= 1 => Level(used, "no") <= Levels - 1
    BY LevelRange
  <2>3. bad = "no" => Paged' = Now
    BY <2>1 DEF Now
  <2>4. UNCHANGED <<bad, save, cap, pre>> /\ step' = "rest" /\ step = "write"
    BY <1>16 DEF WriteFirst
  <2>5. page'.kind # "erased" /\ page'.bad = "no" => page'.cap >= Paged'
    BY <2>1, <2>2, <2>3, <2>4
  <2> QED BY <2>1, <2>3, <2>4, <2>5
<1>17. CASE WriteRest
  <2>1. /\ Now' = Now /\ page'.cap = page.cap /\ page'.bad = bad
        /\ page'.kind = "whole" /\ Paged' = Level(used, "no")
        /\ step' = "loop" /\ step = "rest" /\ UNCHANGED <<bad, save>>
    BY <1>17 DEF WriteRest, Content, Now, Paged
  <2>2. page.kind # "erased" /\ page.bad = bad
    BY <2>1
  <2>3. /\ Level(used, "no") <= Level(page.used, "no")
        /\ Level(used, "no") \in Int
    BY <2>2, LevelDown
  <2>4. Level(page.used, "no") = Paged
    BY <2>2 DEF Paged
  <2>5. bad = "no" => Paged' = Now
    BY <2>1 DEF Now
  <2>6. bad = "no" => page.cap >= Paged'
    BY <2>1, <2>2, <2>3, <2>4
  <2> QED BY <2>1, <2>5, <2>6
<1>18. CASE TimesOut
  <2>1. PICK e \in Costs :
          /\ used' = used + e
          /\ cap' = Level(used + e, bad) /\ pre' = cap' /\ Raised(pre, cap')
    BY <1>18 DEF TimesOut
  <2>2. used + e \in 0 .. Full + 1
    BY <2>1
  <2>3. cap' \in 0 .. Levels /\ cap' <= Now /\ Now \in 0 .. Levels
        /\ (bad # "no" => cap' = 0) /\ cap' = Now'
    <3>1. Level(used + e, "no") <= Level(used, "no")
      BY <2>2, LevelDown
    <3> QED BY <1>18, <2>1, <2>2, <3>1, LevelRange DEF TimesOut, Now
  <2>4. Paged' = Paged
    BY <1>18 DEF TimesOut, Paged
  <2>5. UNCHANGED <<bad, mine, page, step>> /\ waits = "yes" /\ waits' = "no"
    BY <1>18 DEF TimesOut
  <2>6. \/ pre > cap' /\ save' = 1
        \/ pre <= cap' /\ save' = save
    BY <2>1, <2>3 DEF Raised
  <2> QED BY <2>1, <2>3, <2>4, <2>5, <2>6
<1>19. CASE PowerFails
  <2>1. /\ save' = 0 /\ step' = "report" /\ page' = page /\ Paged' = Paged
        /\ pre' = cap'
        /\ bad' \in IF page.kind = "torn" THEN {"standby", "ever"}
                                          ELSE {page.bad}
    BY <1>19 DEF PowerFails, Fresh, Paged
  <2>2. CASE page.kind = "erased"
    <3>1. bad' = "no" /\ used' = 0 /\ cap' = Levels - 1
      BY <1>19, <2>1, <2>2 DEF PowerFails
    <3>2. Now' = Levels
      BY <3>1, LevelFull DEF Now
    <3> QED BY <2>1, <2>2, <3>1, <3>2
  <2>3. CASE page.kind # "erased"
    <3>1. used' = page.used /\ cap' = page.cap
      BY <1>19, <2>3 DEF PowerFails
    <3>2. bad' = "no" => Now' = Paged
      BY <2>3, <3>1 DEF Now, Paged
    <3> QED BY <2>1, <2>3, <3>1, <3>2
  <2> QED BY <2>2, <2>3
<1> QED BY <1>1, <1>2, <1>3, <1>4, <1>5, <1>6, <1>7, <1>8, <1>9, <1>10, <1>11,
           <1>12, <1>13, <1>14, <1>15, <1>16, <1>17, <1>18, <1>19
         DEF GaugeNext, Consume

\* What an amount consumed does to the level.
LEMMA LevelFalls ==
  ASSUME GaugeTypeOK, NEW e \in Costs, used' = used + e, bad' = bad
  PROVE  /\ used' \in used .. used + 1 /\ Now' \in 0 .. Levels
         /\ used' >= 1 => Now' <= Levels - 1
         /\ used' = 0 /\ bad = "no" => Now' = Levels
         /\ \/ Now' = Now /\ Rest(used') = Rest(used) /\ used' = used
            \/ used <= Full /\ Now' = Now
            \/ /\ Now' = Now - 1 /\ Rest(used) = 0 /\ Rest(used') = Unit - 1
               /\ used <= Full
         /\ Now' <= Now /\ Now \in 0 .. Levels
<1> USE GaugeConstants
<1>1. used \in 0 .. Full + 1 /\ used' \in 0 .. Full + 1
      /\ e \in 0 .. 1
  BY DEF GaugeTypeOK, Costs
<1>2. /\ Now' \in 0 .. Levels /\ Now \in 0 .. Levels
      /\ used' >= 1 => Now' <= Levels - 1
      /\ used' = 0 /\ bad = "no" => Now' = Levels
      /\ bad # "no" => Now = 0 /\ Now' = 0
  BY <1>1, LevelRange DEF Now
<1>3. CASE e = 0
  BY <1>1, <1>2, <1>3 DEF Now
<1>4. CASE e = 1 /\ bad # "no"
  <2>1. used <= Full
    BY <1>1, <1>4
  <2> QED BY <1>1, <1>2, <1>4, <2>1
<1>5. CASE e = 1 /\ bad = "no"
  <2>1. used \in 0 .. Full /\ used' = used + 1
    BY <1>1, <1>5
  <2>2. Now = Level(used, "no") /\ Now' = Level(used + 1, "no")
    BY <1>5, <2>1 DEF Now
  <2>3. \/ Now' = Now
        \/ Now' = Now - 1 /\ Rest(used) = 0 /\ Rest(used + 1) = Unit - 1
    BY <2>1, <2>2, LevelFall
  <2> QED BY <1>1, <1>2, <2>1, <2>3
<1> QED BY <1>1, <1>3, <1>4, <1>5

\* Every step keeps what was told true or flagged.
LEMMA ToldStep ==
  ASSUME GaugeTypeOK, UsedInv, HighInv, ToldInv, GaugeNext PROVE ToldInv'
<1> USE GaugeConstants, LevelsInRange DEF GaugeTypeOK, Calculating, Saving,
      Costs, Erased, gauge, radio, ToldInv, HighInv, UsedInv, Stored, Shown,
      Least
<1>1. CASE Tick
  <2>1. Now' = Now
    BY <1>1 DEF Tick, Now
  <2> QED BY <1>1, <2>1 DEF Tick
<1>2. CASE BleStarts
  <2>1. Now' = Now
    BY <1>2 DEF BleStarts, Now
  <2> QED BY <1>2, <2>1 DEF BleStarts, RunTimeStart
<1>3. CASE BleStops
  <2>1. PICK e \in Costs : used' = used + e
    BY <1>3 DEF BleStops
  <2>2. cut = "no" => bad = "no" /\ bad' = bad
    BY <1>3 DEF BleStops, ToldInv
  <2>3. ASSUME cut = "no"
        PROVE  /\ used' \in used .. used + 1 /\ Now' \in 0 .. Levels
               /\ used' >= 1 => Now' <= Levels - 1
               /\ used' = 0 /\ bad = "no" => Now' = Levels
               /\ Now' <= Now
    BY <2>1, <2>2, <2>3, LevelFalls
  <2> QED BY <1>3, <2>1, <2>2, <2>3 DEF BleStops
<1>4. CASE Samples
  <2>1. PICK e \in Costs : used' = used + e
    BY <1>4 DEF Samples
  <2>2. cut = "no" => bad = "no" /\ bad' = bad
    BY <1>4 DEF Samples, ToldInv
  <2>3. ASSUME cut = "no"
        PROVE  /\ used' \in used .. used + 1 /\ Now' \in 0 .. Levels
               /\ used' >= 1 => Now' <= Levels - 1
               /\ used' = 0 /\ bad = "no" => Now' = Levels
               /\ Now' <= Now
    BY <2>1, <2>2, <2>3, LevelFalls
  <2> QED BY <1>4, <2>1, <2>2, <2>3 DEF Samples
<1>5. CASE Transmits
  <2>1. Now' = Now
    BY <1>5 DEF Transmits, Now
  <2> QED BY <1>5, <2>1 DEF Transmits
<1>6. CASE Answered
  <2>1. PICK e \in Costs : used' = used + e
    BY <1>6 DEF Answered
  <2>2. cut = "no" => bad = "no" /\ bad' = bad
    BY <1>6 DEF Answered, ToldInv
  <2>3. ASSUME cut = "no"
        PROVE  /\ used' \in used .. used + 1 /\ Now' \in 0 .. Levels
               /\ used' >= 1 => Now' <= Levels - 1
               /\ used' = 0 /\ bad = "no" => Now' = Levels
               /\ Now' <= Now
    BY <2>1, <2>2, <2>3, LevelFalls
  <2> QED BY <1>6, <2>1, <2>2, <2>3 DEF Answered
<1>7. CASE Passes
  <2>1. Now' = Now
    BY <1>7 DEF Passes, Now
  <2> QED BY <1>7, <2>1 DEF Passes
<1>8. CASE Load
  <2>1. Now' = Now /\ mine' = Now
    BY <1>8 DEF Load, Now
  <2> QED BY <1>8, <2>1 DEF Load
<1>9. CASE Store
  <2>1. Now' = Now
    BY <1>9 DEF Store, Now
  <2> QED BY <1>9, <2>1 DEF Store
<1>10. CASE Compare
  <2>1. Now' = Now
    BY <1>10 DEF Compare, Now
  <2> QED BY <1>10, <2>1 DEF Compare, Raised
<1>11. CASE Remember
  <2>1. Now' = Now
    BY <1>11 DEF Remember, Now
  <2> QED BY <1>11, <2>1 DEF Remember
<1>12. CASE Take
  <2>1. Now' = Now
    BY <1>12 DEF Take, Now
  <2> QED BY <1>12, <2>1 DEF Take
<1>13. CASE Report
  <2>1. Now' = Now
    BY <1>13 DEF Report, Now
  <2> QED BY <1>13, <2>1 DEF Report, Tell
<1>14. CASE SaveTest
  <2>1. Now' = Now
    BY <1>14 DEF SaveTest, Now
  <2> QED BY <1>14, <2>1 DEF SaveTest
<1>15. CASE Erase
  <2>1. Now' = Now
    BY <1>15 DEF Erase, Now
  <2> QED BY <1>15, <2>1 DEF Erase
<1>16. CASE WriteFirst
  <2>1. Now' = Now
    BY <1>16 DEF WriteFirst, Now
  <2> QED BY <1>16, <2>1 DEF WriteFirst, Content
<1>17. CASE WriteRest
  <2>1. Now' = Now
    BY <1>17 DEF WriteRest, Now
  <2> QED BY <1>17, <2>1 DEF WriteRest, Content
<1>18. CASE TimesOut
  <2>1. PICK e \in Costs :
          /\ used' = used + e
          /\ cap' = Level(used + e, bad) /\ pre' = cap' /\ Raised(pre, cap')
    BY <1>18 DEF TimesOut
  <2>2. UNCHANGED <<bad, mine, page, told, step>>
        /\ waits = "yes" /\ waits' = "no"
    BY <1>18 DEF TimesOut
  <2>3. cut' = "no" => cut = "no" /\ step \notin Calculating \cup {"taken"}
    BY <1>18 DEF TimesOut
  <2>4. cap' = Now'
    BY <2>1, <2>2 DEF Now
  <2>5. \/ pre > cap' /\ flag' = 1 /\ save' = 1
        \/ pre <= cap' /\ flag' = flag /\ save' = save
    <3>1. cap' \in Int
      BY <2>1, <2>2, <2>4, LevelFalls
    <3> QED BY <2>1, <3>1 DEF Raised
  <2>6. /\ used' \in used .. used + 1 /\ Now' \in 0 .. Levels
        /\ used' >= 1 => Now' <= Levels - 1
        /\ used' = 0 /\ bad = "no" => Now' = Levels
        /\ Now' <= Now
    BY <2>1, <2>2, LevelFalls
  <2>7. cut' = "no" =>
          /\ bad = "no" /\ cap = pre /\ told >= Shown(Now)
          /\ pre = Now \/ (used = 0 /\ pre = Levels - 1)
          /\ flag = 0 => told = Shown(pre)
    BY <2>3
  <2>8. cut' = "no" /\ flag' = 0 => told = Shown(pre')
    <3>1. cut' = "no" /\ flag' = 0 =>
            pre' = pre \/ {pre, pre'} \subseteq {Levels - 1, Levels}
      BY <2>1, <2>4, <2>5, <2>6, <2>7
    <3> QED BY <2>1, <2>4, <2>5, <2>6, <2>7, <3>1
  <2>9. cut' = "no" => told >= Shown(Now')
    <3>1. Now \in Int /\ Now' \in Int /\ Now' <= Now /\ told \in Int
      BY <2>6
    <3>2. \A m, n \in Int : m <= n =>
            Shown(m) <= Shown(n) /\ Shown(m) \in Int /\ Shown(n) \in Int
      OBVIOUS
    <3> HIDE DEF Shown, Least
    <3>3. /\ Shown(Now') <= Shown(Now)
          /\ Shown(Now') \in Int /\ Shown(Now) \in Int
      BY ONLY <3>1, <3>2, Zenon
    <3> QED BY <2>7, <3>1, <3>3
  <2>10. pre' = cap'
    BY <2>1
  <2> HIDE DEF Shown, Least
  <2> QED BY <2>2, <2>3, <2>4, <2>7, <2>8, <2>9, <2>10
<1>19. CASE PowerFails
  <2>1. /\ save' = 0 /\ step' = "report" /\ page' = page /\ pre' = cap'
        /\ flag' = 1 /\ told' = Levels /\ waits' = "no"
    BY <1>19 DEF PowerFails, Fresh
  <2>2. CASE page.kind = "erased"
    <3>1. bad' = "no" /\ used' = 0 /\ cap' = Levels - 1
      BY <1>19, <2>2 DEF PowerFails
    <3>2. Now' = Levels
      BY <3>1, LevelFull DEF Now
    <3> QED BY <2>1, <2>2, <3>1, <3>2
  <2>3. CASE page.kind # "erased"
    <3>1. used' = page.used /\ cap' = page.cap
          /\ bad' \in IF page.kind = "torn" THEN {"standby", "ever"}
                                            ELSE {page.bad}
      BY <1>19, <2>3 DEF PowerFails
    <3>2. cut' = "no" => bad' = "no" /\ cap' = Now'
      BY <1>19, <2>3 DEF PowerFails, Now
    <3> QED BY <2>1, <2>3, <3>1, <3>2
  <2> QED BY <2>2, <2>3
<1> QED BY <1>1, <1>2, <1>3, <1>4, <1>5, <1>6, <1>7, <1>8, <1>9, <1>10, <1>11,
           <1>12, <1>13, <1>14, <1>15, <1>16, <1>17, <1>18, <1>19
         DEF GaugeNext, Consume

\* Kept within its range.
LEMMA KeptInRange == ASSUME GaugeTypeOK PROVE Kept \in 0 .. Levels
BY GaugeConstants DEF GaugeTypeOK, Kept

\* The level after an amount: the same, or one less at the end of a level.
FallsByOne ==
  /\ used' \in used .. used + 1 /\ Now' \in 0 .. Levels
  /\ \/ Now' = Now /\ Rest(used') = Rest(used) /\ used' = used
     \/ used <= Full /\ Now' = Now
     \/ Now' = Now - 1 /\ Rest(used) = 0 /\ Rest(used') = Unit - 1
  /\ Now' <= Now

\* Every step keeps the page a level behind at most.
LEMMA BehindStep ==
  ASSUME GaugeTypeOK, UsedInv, PageInv, ToldInv, BehindInv, GaugeNext
  PROVE  BehindInv'
<1> USE GaugeConstants, LevelsInRange, KeptInRange DEF GaugeTypeOK,
      Calculating, Saving, Costs, Erased, gauge, radio, BehindInv, ToldInv,
      UsedInv, Stored, Least
<1>1. CASE Tick
  <2>1. Now' = Now /\ Kept' = Kept /\ Rest(used') = Rest(used)
    BY <1>1 DEF Tick, Now, Kept
  <2> QED BY <1>1, <2>1 DEF Tick
<1>2. CASE BleStarts
  <2>1. Now' = Now /\ Kept' = Kept /\ Rest(used') = Rest(used)
    BY <1>2 DEF BleStarts, Now, Kept
  <2> QED BY <1>2, <2>1 DEF BleStarts, RunTimeStart
<1>3. CASE BleStops
  <2>1. PICK e \in Costs : used' = used + e
    BY <1>3 DEF BleStops
  <2>2. cut = "no" => bad = "no" /\ bad' = bad
    BY <1>3 DEF BleStops, ToldInv
  <2>3. ASSUME cut = "no"
        PROVE  FallsByOne
    BY <2>1, <2>2, <2>3, LevelFalls DEF FallsByOne
  <2>4. Kept' = Kept
    BY <1>3 DEF BleStops, Kept
  <2> QED BY <1>3, <2>1, <2>2, <2>3, <2>4 DEF BleStops, FallsByOne
<1>4. CASE Samples
  <2>1. PICK e \in Costs : used' = used + e
    BY <1>4 DEF Samples
  <2>2. cut = "no" => bad = "no" /\ bad' = bad
    BY <1>4 DEF Samples, ToldInv
  <2>3. ASSUME cut = "no"
        PROVE  FallsByOne
    BY <2>1, <2>2, <2>3, LevelFalls DEF FallsByOne
  <2>4. Kept' = Kept
    BY <1>4 DEF Samples, Kept
  <2> QED BY <1>4, <2>1, <2>2, <2>3, <2>4 DEF Samples, FallsByOne
<1>5. CASE Transmits
  <2>1. Now' = Now /\ Kept' = Kept /\ Rest(used') = Rest(used)
    BY <1>5 DEF Transmits, Now, Kept
  <2> QED BY <1>5, <2>1 DEF Transmits
<1>6. CASE Answered
  <2>1. PICK e \in Costs : used' = used + e
    BY <1>6 DEF Answered
  <2>2. cut = "no" => bad = "no" /\ bad' = bad
    BY <1>6 DEF Answered, ToldInv
  <2>3. ASSUME cut = "no"
        PROVE  FallsByOne
    BY <2>1, <2>2, <2>3, LevelFalls DEF FallsByOne
  <2>4. Kept' = Kept
    BY <1>6 DEF Answered, Kept
  <2> QED BY <1>6, <2>1, <2>2, <2>3, <2>4 DEF Answered, FallsByOne
<1>7. CASE Passes
  <2>1. Now' = Now /\ Kept' = Kept /\ Rest(used') = Rest(used)
    BY <1>7 DEF Passes, Now, Kept
  <2> QED BY <1>7, <2>1 DEF Passes
<1>8. CASE Load
  <2>1. Now' = Now /\ Kept' = Kept /\ Rest(used') = Rest(used)
    BY <1>8 DEF Load, Now, Kept
  <2> QED BY <1>8, <2>1 DEF Load
<1>9. CASE Store
  <2>1. Now' = Now /\ Kept' = Kept /\ Rest(used') = Rest(used)
    BY <1>9 DEF Store, Now, Kept
  <2> QED BY <1>9, <2>1 DEF Store
<1>10. CASE Compare
  <2>1. Now' = Now /\ Kept' = Kept /\ Rest(used') = Rest(used)
    BY <1>10 DEF Compare, Now, Kept
  <2> QED BY <1>10, <2>1 DEF Compare, Raised
<1>11. CASE Remember
  <2>1. Now' = Now /\ Kept' = Kept /\ Rest(used') = Rest(used)
    BY <1>11 DEF Remember, Now, Kept
  <2> QED BY <1>11, <2>1 DEF Remember
<1>12. CASE Take
  <2>1. Now' = Now /\ Kept' = Kept /\ Rest(used') = Rest(used)
    BY <1>12 DEF Take, Now, Kept
  <2> QED BY <1>12, <2>1 DEF Take
<1>13. CASE Report
  <2>1. Now' = Now /\ Kept' = Kept /\ Rest(used') = Rest(used)
    BY <1>13 DEF Report, Now, Kept
  <2> QED BY <1>13, <2>1 DEF Report, Tell
<1>14. CASE SaveTest
  <2>1. Now' = Now /\ Kept' = Kept /\ Rest(used') = Rest(used)
    BY <1>14 DEF SaveTest, Now, Kept
  <2> QED BY <1>14, <2>1 DEF SaveTest
<1>15. CASE Erase
  BY <1>15 DEF Erase
<1>16. CASE WriteFirst
  <2>1. /\ page'.kind = "torn" /\ page'.bad = bad /\ page'.cap = cap
        /\ step = "write" /\ step' = "rest" /\ used >= 1
        /\ Now' = Now /\ UNCHANGED <<save, cap, pre, cut, waits, used>>
    BY <1>16 DEF WriteFirst, Content, Now
  <2>2. Kept' = cap
    BY <2>1 DEF Kept
  <2> QED BY <2>1, <2>2
<1>17. CASE WriteRest
  <2>1. /\ page'.kind = "whole" /\ page'.bad = bad /\ page'.cap = page.cap
        /\ step = "rest" /\ step' = "loop"
        /\ Now' = Now /\ UNCHANGED <<save, cap, pre, cut, waits, used>>
    BY <1>17 DEF WriteRest, Content, Now
  <2>2. Kept' = Kept
    BY <2>1 DEF Kept, PageInv
  <2> QED BY <2>1, <2>2
<1>18. CASE TimesOut
  <2>1. PICK e \in Costs :
          /\ used' = used + e
          /\ cap' = Level(used + e, bad) /\ pre' = cap' /\ Raised(pre, cap')
    BY <1>18 DEF TimesOut
  <2>2. UNCHANGED <<bad, mine, page, told, step>>
        /\ waits = "yes" /\ waits' = "no"
    BY <1>18 DEF TimesOut
  <2>3. cut' = "no" => cut = "no" /\ step \notin Calculating \cup {"taken"}
    BY <1>18 DEF TimesOut
  <2>4. cap' = Now'
    BY <2>1, <2>2 DEF Now
  <2>5. \/ pre > cap' /\ flag' = 1 /\ save' = 1
        \/ pre <= cap' /\ flag' = flag /\ save' = save
    <3>1. cap' \in Int
      BY <2>1, <2>2, <2>4, LevelFalls
    <3> QED BY <2>1, <3>1 DEF Raised
  <2>6. FallsByOne
    BY <2>1, <2>2, LevelFalls DEF FallsByOne
  <2>7. Kept' = Kept
    BY <2>2 DEF Kept
  <2> QED BY <2>1, <2>2, <2>3, <2>4, <2>5, <2>6, <2>7 DEF FallsByOne
<1>19. CASE PowerFails
  <2>1. /\ save' = 0 /\ step' = "report" /\ page' = page /\ pre' = cap'
        /\ flag' = 1 /\ told' = Levels /\ waits' = "no"
    BY <1>19 DEF PowerFails, Fresh
  <2>2. CASE page.kind = "erased"
    <3>1. bad' = "no" /\ used' = 0 /\ cap' = Levels - 1
      BY <1>19, <2>2 DEF PowerFails
    <3>2. Now' = Levels
      BY <3>1, LevelFull DEF Now
    <3> QED BY <2>1, <2>2, <3>1, <3>2 DEF Kept
  <2>3. CASE page.kind # "erased"
    <3>1. used' = page.used /\ cap' = page.cap
          /\ bad' \in IF page.kind = "torn" THEN {"standby", "ever"}
                                            ELSE {page.bad}
      BY <1>19, <2>3 DEF PowerFails
    <3>2. cut' = "no" => bad' = "no" /\ cap' = Now'
      BY <1>19, <2>3 DEF PowerFails, Now
    <3> QED BY <2>1, <2>3, <3>1, <3>2 DEF Kept
  <2> QED BY <2>2, <2>3
<1> QED BY <1>1, <1>2, <1>3, <1>4, <1>5, <1>6, <1>7, <1>8, <1>9, <1>10, <1>11,
           <1>12, <1>13, <1>14, <1>15, <1>16, <1>17, <1>18, <1>19
         DEF GaugeNext, Consume

-----------------------------------------------------------------------------
(***************************************************************************)
(* The invariant of the gauge, and what follows from it.                   *)
(***************************************************************************)

GaugeInv ==
  /\ GaugeTypeOK /\ BleInv
  /\ UsedInv /\ HighInv /\ PageInv
  /\ ToldInv /\ BehindInv

\* A new battery satisfies it.
LEMMA GaugeStarts == GaugeInit => GaugeInv
<1> SUFFICES ASSUME GaugeInit PROVE GaugeInv
  OBVIOUS
<1> USE GaugeConstants DEF GaugeInit, Erased
<1>1. Now = Levels /\ Paged = Levels - 1 /\ Kept = Levels - 1
  BY LevelFull DEF Now, Paged, Kept
<1>2. GaugeTypeOK /\ BleInv
  BY DEF GaugeTypeOK, BleInv, BleTimeTrue, Calculating, Saving
<1>3. UsedInv /\ HighInv /\ PageInv
  BY <1>1 DEF UsedInv, HighInv, PageInv, Calculating, Saving, Stored, Least
<1>4. ToldInv /\ BehindInv
  BY <1>1 DEF ToldInv, BehindInv, Calculating, Stored, Shown, Least
<1> QED BY <1>2, <1>3, <1>4 DEF GaugeInv

\* Nothing changes it without a step.
LEMMA GaugeStutters ==
  ASSUME GaugeInv, UNCHANGED gaugeVars PROVE GaugeInv'
<1> USE DEF gaugeVars, gauge, radio
<1>1. Now' = Now /\ Paged' = Paged /\ Kept' = Kept /\ Rest(used') = Rest(used)
  BY DEF Now, Paged, Kept
<1>2. GaugeTypeOK' /\ BleInv'
  BY DEF GaugeInv, GaugeTypeOK, BleInv, BleTimeTrue
<1>3. UsedInv' /\ HighInv' /\ PageInv'
  BY <1>1 DEF GaugeInv, UsedInv, HighInv, PageInv, NoLater
<1>4. ToldInv' /\ BehindInv'
  BY <1>1 DEF GaugeInv, ToldInv, BehindInv
<1> QED BY <1>2, <1>3, <1>4 DEF GaugeInv

\* In all behaviours the gauge keeps its invariant: the types, the Bluetooth
\* time, and how the levels in memory, in flash and told are related.
THEOREM GaugeIsInductive == GaugeSpec => []GaugeInv
<1>1. GaugeInit => GaugeInv
  BY GaugeStarts
<1>2. GaugeInv /\ [GaugeNext]_gaugeVars => GaugeInv'
  <2>1. ASSUME GaugeInv, GaugeNext PROVE GaugeInv'
    <3> USE <2>1 DEF GaugeInv
    <3>1. GaugeTypeOK' /\ BleInv'
      BY GaugeTypeStep, BleTimeStep
    <3>2. UsedInv' /\ HighInv' /\ PageInv'
      BY UsedStep, HighStep, PageStep
    <3>3. ToldInv' /\ BehindInv'
      BY ToldStep, BehindStep
    <3> QED BY <3>1, <3>2, <3>3
  <2> QED BY <2>1, GaugeStutters
<1> QED BY <1>1, <1>2, PTL DEF GaugeSpec

\* Every variable of the gauge keeps its type: levels within the battery's,
\* totals one unit beyond its capacity at most.
THEOREM GaugeTypeCorrect == GaugeSpec => []GaugeTypeOK
<1>1. GaugeInv => GaugeTypeOK
  BY DEF GaugeInv
<1> QED BY <1>1, GaugeIsInductive, PTL

\* The Bluetooth time counts the time Bluetooth was active, over starts of
\* advertising that repeat, stops that report it and resets.
THEOREM BleTimeIsTrue == GaugeSpec => []BleTimeTrue
<1>1. GaugeInv => BleTimeTrue
  BY DEF GaugeInv, BleInv
<1> QED BY <1>1, GaugeIsInductive, PTL

\* The level told at the end of a pass, no update being pending, is the one
\* the totals leave, unless a time-out fell inside a computation or a report.
THEOREM GaugeIsTold == GaugeSpec => []GaugeTold
<1>1. GaugeInv => GaugeTold
  <2> SUFFICES ASSUME GaugeInv, step = "loop", flag = 0, cut = "no"
               PROVE  told = Shown(Now)
    BY DEF GaugeTold, Shown, Now
  <2>1. told = Shown(pre) /\ (pre = Now \/ (used = 0 /\ pre = Levels - 1))
    BY DEF GaugeInv, ToldInv, Calculating
  <2>2. used = 0 => Now = Levels
    BY LevelsInRange DEF GaugeInv
  <2>3. Shown(Levels - 1) = Shown(Levels)
    BY GaugeConstants DEF Shown, Least
  <2> QED BY <2>1, <2>2, <2>3
<1> QED BY <1>1, GaugeIsInductive, PTL

\* Between two passes a page that need not be rewritten is at the level of the
\* totals, wherever time-outs fell.
THEOREM LevelIsSaved == GaugeSpec => []LevelSaved
<1>1. GaugeInv => LevelSaved
  <2> SUFFICES ASSUME GaugeInv, step = "loop", save = 0, bad = "no",
                      page.bad = "no"
               PROVE  IF page.kind = "erased" THEN Now >= Levels - 1
                      ELSE /\ Level(page.used, "no") = Now
                           /\ cut = "no" => page.cap = Now
    BY DEF LevelSaved, Now
  <2>1. Paged <= Now /\ Paged \in Int /\ Now \in Int
    BY LevelsInRange, GaugeConstants
       DEF GaugeInv, PageInv, Calculating
  <2>2. CASE page.kind = "erased"
    BY <2>1, <2>2 DEF Paged
  <2>3. CASE page.kind # "erased"
    <3>1. page.used \in 1 .. used /\ used \in 0 .. Full + 1
          /\ page.used \in 0 .. Full + 1
      BY <2>3 DEF GaugeInv, UsedInv, GaugeTypeOK
    <3>2. Now <= Paged
      BY <2>3, <3>1, LevelDown, GaugeConstants DEF Now, Paged
    <3>3. Paged = Now
      BY <2>1, <3>2
    <3>4. cut = "no" => page.cap = Now
      <4> SUFFICES ASSUME cut = "no" PROVE page.cap = Now
        OBVIOUS
      <4>1. used >= 1 => pre = Now
        BY DEF GaugeInv, ToldInv, Calculating
      <4>2. used >= 1
        BY <3>1
      <4>3. Kept <= pre /\ Kept = page.cap
        BY <2>3 DEF GaugeInv, BehindInv, Kept
      <4>4. page.cap >= Paged /\ page.cap \in Int
        BY <2>3 DEF GaugeInv, PageInv, GaugeTypeOK
      <4> QED BY <2>1, <3>3, <4>1, <4>2, <4>3, <4>4
    <3> QED BY <2>3, <3>3, <3>4 DEF Paged
  <2> QED BY <2>2, <2>3
<1> QED BY <1>1, GaugeIsInductive, PTL

\* A reset that does not interrupt a save brings back a level at most.
THEOREM ResetsGiveALevel == GaugeSpec => []ResetGivesALevel
<1>1. GaugeInv => ResetGivesALevel
  <2> SUFFICES ASSUME GaugeInv, step \notin Saving, page.kind # "torn",
                      cut = "no"
               PROVE  PageGauge <= told + 1
    BY DEF ResetGivesALevel
  <2>1. PageGauge = Kept + 1 /\ Kept \in 0 .. Levels
    BY GaugeConstants, KeptInRange DEF PageGauge, Kept, GaugeInv
  <2>2. Kept <= Now + 1 /\ told >= Shown(Now) /\ told \in Int
    BY DEF GaugeInv, BehindInv, ToldInv, Saving, GaugeTypeOK
  <2>3. Now \in 0 .. Levels
    BY LevelsInRange DEF GaugeInv
  <2> QED BY <2>1, <2>2, <2>3, GaugeConstants DEF Shown, Least
<1> QED BY <1>1, GaugeIsInductive, PTL
=============================================================================
