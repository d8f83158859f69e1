--------------------------- MODULE SysProcProofs ---------------------------
(***************************************************************************)
(* Proofs about the scheduler, for both versions of the device and every   *)
(* number of link tests, resets, mode changes and repeated sessions.       *)
(***************************************************************************)
EXTENDS SysProc, FiniteSetTheorems, TLAPS

LEMMA Constants ==
  /\ Budget \in Nat
  /\ Version \in {"inclinometer", "collapse"}
BY SysAssumption

LEMMA InitType == Init => TypeOK
BY Constants DEF Init, Lora!Init, Collapse!Init, TypeOK, Events

-----------------------------------------------------------------------------
(* Steps.                                                                  *)

\* What a report posts and costs.
LEMMA ReportsType ==
  ASSUME TypeOK, NEW events, events \subseteq Events, Reports(events)
  PROVE  /\ evts' \subseteq Events /\ sig' \in {"on", "off"}
         /\ budget' \in 0..Budget
<1>1. evts' \subseteq Events /\ sig' \in {"on", "off"}
  BY DEF TypeOK, Reports, Store, Undisturbed, Torn
<1>2. budget' \in 0..Budget
  BY Constants DEF TypeOK, Reports, Spend
<1> QED BY <1>1, <1>2

\* Every step keeps the types.
LEMMA TypeStep == TypeOK /\ Next => TypeOK'
<1> SUFFICES ASSUME TypeOK, Next PROVE TypeOK'
  OBVIOUS
<1> USE Constants DEF TypeOK, Events, loraVars, collapseVars
<1>1. CASE SignalIrq BY <1>1 DEF SignalIrq
<1>2. CASE Motion BY <1>2 DEF Motion, Collapse!Motion, Collapse!More
<1>3. CASE ScheduleBle
  <2>1. evts' \subseteq Events /\ sig' \in {"on", "off"}
    BY <1>3 DEF ScheduleBle, Store, Undisturbed, Torn
  <2> QED BY <1>3, <2>1 DEF ScheduleBle
<1>4. CASE ScheduleCollapse
  <2>1. evts' \subseteq Events /\ sig' \in {"on", "off"}
    BY <1>4 DEF ScheduleCollapse, Store, Undisturbed, Torn
  <2> QED BY <1>4, <2>1 DEF ScheduleCollapse, Collapse!Start
<1>5. CASE ScheduleLora
  <2>1. evts' \subseteq Events /\ sig' \in {"on", "off"}
    BY <1>5 DEF ScheduleLora, Store, Undisturbed, Torn
  <2> QED BY <1>5, <2>1 DEF ScheduleLora, Lora!Ask
<1>6. CASE ScheduleSlp
  <2>1. evts' \subseteq Events /\ sig' \in {"on", "off"}
    BY <1>6 DEF ScheduleSlp, Store, Undisturbed, Torn
  <2> QED BY <1>6, <2>1 DEF ScheduleSlp
<1>7. CASE BleStep BY <1>7 DEF BleStep, BleStops, Spend, Restart, Forgive
<1>8. CASE CollapseMeasured
  <2>1. evts' \subseteq Events /\ sig' \in {"on", "off"}
    BY <1>8 DEF CollapseMeasured, Publish, Store, Undisturbed, Torn
  <2> QED BY <1>8, <2>1 DEF CollapseMeasured, Collapse!Measured,
          Collapse!Fewer
<1>9. CASE CollapseUnmeasured
  BY <1>9 DEF CollapseUnmeasured, Collapse!Empty, Collapse!Merge,
     Collapse!Fewer
<1>10. CASE SlpEnds
  <2>1. evts' \subseteq Events /\ sig' \in {"on", "off"}
    BY <1>10 DEF SlpEnds, Store, Undisturbed, Torn
  <2> QED BY <1>10, <2>1 DEF SlpEnds
<1>11. CASE LoraOpens BY <1>11 DEF LoraOpens, Lora!Open
<1>12. CASE LoraReopens
  <2>1. budget' \in 0..Budget BY <1>12 DEF LoraReopens, Spend
  <2> QED BY <1>12, <2>1 DEF LoraReopens, Lora!Open
<1>13. CASE LoraTransmits BY <1>13 DEF LoraTransmits
<1>14. CASE LoraHears BY <1>14 DEF LoraHears, Lora!Hear
<1>15. CASE LoraFades BY <1>15 DEF LoraFades, Lora!Fade
<1>16. CASE TestStep
  <2>1. PICK after \in {"RUN", "STOP"} : TestReported(after)
    BY <1>16 DEF TestStep
  <2>2. Reports({"SYS_LP"}) BY <2>1 DEF TestReported
  <2>3. /\ evts' \subseteq Events /\ sig' \in {"on", "off"}
        /\ budget' \in 0..Budget
    BY <2>2, ReportsType
  <2> QED BY <2>1, <2>3 DEF TestReported, Lora!Test, Lora!Closes, Reports
<1>17. CASE LinkReported
  <2>1. Reports({"COLLAPSE"}) BY <1>17 DEF LinkReported
  <2>2. /\ evts' \subseteq Events /\ sig' \in {"on", "off"}
        /\ budget' \in 0..Budget
    BY <2>1, ReportsType
  <2> QED BY <1>17, <2>2 DEF LinkReported, Lora!Connect, Lora!Closes, Reports
<1>18. CASE OfflineReported
  <2>1. Reports({"BLE"}) BY <1>18 DEF OfflineReported
  <2>2. /\ evts' \subseteq Events /\ sig' \in {"on", "off"}
        /\ budget' \in 0..Budget
    BY <2>1, ReportsType
  <2> QED BY <1>18, <2>2 DEF OfflineReported, Lora!Miss, Lora!Closes, Reports
<1>19. CASE DisconReported
  <2>1. Reports({"LORA"}) BY <1>19 DEF DisconReported
  <2>2. /\ evts' \subseteq Events /\ sig' \in {"on", "off"}
        /\ budget' \in 0..Budget
    BY <2>1, ReportsType
  <2> QED BY <1>19, <2>2 DEF DisconReported, Lora!Lose, Lora!Closes, Reports
<1>20. CASE ConnectReported
  <2>1. Reports(AfterPublication) /\ AfterPublication \subseteq Events
    BY <1>20 DEF ConnectReported, AfterPublication
  <2>2. /\ evts' \subseteq Events /\ sig' \in {"on", "off"}
        /\ budget' \in 0..Budget
    BY <2>1, ReportsType
  <2> QED BY <1>20, <2>2
          DEF ConnectReported, Lora!Confirm, Lora!Closes, Reports
<1>21. CASE RequestTest BY <1>21 DEF RequestTest, Spend
<1>22. CASE LoraTestBegins BY <1>22 DEF LoraTestBegins, Lora!Open
<1>23. CASE LoraReset
  <2>1. evts' \subseteq Events /\ sig' \in {"on", "off"}
    BY <1>23 DEF LoraReset, Store, Undisturbed, Torn
  <2>2. budget' \in 0..Budget BY <1>23 DEF LoraReset, Spend
  <2> QED BY <1>23, <2>1, <2>2 DEF LoraReset
<1>24. CASE SetMode
  <2>1. budget' \in 0..Budget BY <1>24 DEF SetMode, Spend
  <2> QED BY <1>24, <2>1 DEF SetMode, Collapse!SetMode
<1>25. CASE SampleDue
  <2>1. work' \in {"none", "one", "two"} /\ spaced' = "no"
    BY <1>25 DEF SampleDue, Collapse!Expire, Collapse!Double, Collapse!More
  <2>2. budget' \in 0..Budget BY <1>25 DEF SampleDue, Spend
  <2>3. UNCHANGED <<mode, ears, wait, sample>>
    BY <1>25 DEF SampleDue, Collapse!Expire, Collapse!Double
  <2> QED BY <1>25, <2>1, <2>2, <2>3 DEF SampleDue
<1>26. CASE CollapseRests BY <1>26 DEF CollapseRests, Collapse!Rest
<1> QED BY <1>1, <1>2, <1>3, <1>4, <1>5, <1>6, <1>7, <1>8, <1>9, <1>10, <1>11,
           <1>12, <1>13, <1>14, <1>15, <1>16, <1>17, <1>18, <1>19, <1>20,
           <1>21, <1>22, <1>23, <1>24, <1>25, <1>26
         DEF Next

\* Bluetooth is started only by an event and asks for itself when it stops.
LEMMA BleAliveStep == BleAlive /\ Next => BleAlive'
<1> SUFFICES ASSUME BleAlive, Next PROVE BleAlive'
  OBVIOUS
<1> USE DEF BleAlive
<1>1. CASE SignalIrq BY <1>1 DEF SignalIrq
<1>2. CASE Motion BY <1>2 DEF Motion, Collapse!Motion, Collapse!More
<1>3. CASE ScheduleBle BY <1>3 DEF ScheduleBle, Store, Undisturbed, Torn
<1>4. CASE ScheduleCollapse
  BY <1>4 DEF ScheduleCollapse, Collapse!Start, Store, Undisturbed, Torn
<1>5. CASE ScheduleLora
  BY <1>5 DEF ScheduleLora, Lora!Ask, Store, Undisturbed, Torn
<1>6. CASE ScheduleSlp BY <1>6 DEF ScheduleSlp, Store, Undisturbed, Torn
<1>7. CASE BleStep BY <1>7 DEF BleStep, BleStops, Restart, Forgive
<1>8. CASE CollapseMeasured
  BY <1>8 DEF CollapseMeasured, Collapse!Measured, Collapse!Fewer, Publish,
     Store, Undisturbed, Torn
<1>9. CASE CollapseUnmeasured
  BY <1>9 DEF CollapseUnmeasured, Collapse!Empty, Collapse!Merge,
     Collapse!Fewer
<1>10. CASE SlpEnds BY <1>10 DEF SlpEnds, Store, Undisturbed, Torn
<1>11. CASE LoraOpens BY <1>11 DEF LoraOpens, Lora!Open
<1>12. CASE LoraReopens BY <1>12 DEF LoraReopens, Lora!Open
<1>13. CASE LoraTransmits BY <1>13 DEF LoraTransmits
<1>14. CASE LoraHears BY <1>14 DEF LoraHears, Lora!Hear
<1>15. CASE LoraFades BY <1>15 DEF LoraFades, Lora!Fade
<1>16. CASE TestStep
  BY <1>16 DEF TestStep, TestReported, Lora!Test, Lora!Closes, Reports,
     Store, Undisturbed, Torn
<1>17. CASE LinkReported
  BY <1>17 DEF LinkReported, Lora!Connect, Lora!Closes, Reports,
     Store, Undisturbed, Torn
<1>18. CASE OfflineReported
  BY <1>18 DEF OfflineReported, Lora!Miss, Lora!Closes, Reports,
     Store, Undisturbed, Torn
<1>19. CASE DisconReported
  BY <1>19 DEF DisconReported, Lora!Lose, Lora!Closes, Reports,
     Store, Undisturbed, Torn
<1>20. CASE ConnectReported
  BY <1>20 DEF ConnectReported, Lora!Confirm, Lora!Closes, AfterPublication,
     Reports, Store, Undisturbed, Torn
<1>21. CASE RequestTest BY <1>21 DEF RequestTest
<1>22. CASE LoraTestBegins BY <1>22 DEF LoraTestBegins, Lora!Open
<1>23. CASE LoraReset
  BY <1>23 DEF LoraReset, LoraLeaves, Store, Undisturbed, Torn
<1>24. CASE SetMode BY <1>24 DEF SetMode, Collapse!SetMode
<1>25. CASE SampleDue
  BY <1>25 DEF SampleDue, Collapse!Expire, Collapse!Double, Collapse!More
<1>26. CASE CollapseRests BY <1>26 DEF CollapseRests, Collapse!Rest
<1> QED BY <1>1, <1>2, <1>3, <1>4, <1>5, <1>6, <1>7, <1>8, <1>9, <1>10, <1>11,
           <1>12, <1>13, <1>14, <1>15, <1>16, <1>17, <1>18, <1>19, <1>20,
           <1>21, <1>22, <1>23, <1>24, <1>25, <1>26
         DEF Next

\* Every handler that takes a link from the chain puts the next one in.
LEMMA ChainStep == TypeOK /\ ChainAlive /\ Next => ChainAlive'
<1> SUFFICES ASSUME TypeOK, ChainAlive, Next PROVE ChainAlive'
  OBVIOUS
<1> USE Constants DEF TypeOK, Events, loraVars, collapseVars, ChainAlive,
          Measuring, Ended, Links
<1>1. CASE SignalIrq BY <1>1 DEF SignalIrq
<1>2. CASE Motion BY <1>2 DEF Motion, Collapse!Motion, Collapse!More
<1>3. CASE ScheduleBle BY <1>3 DEF ScheduleBle, Store, Undisturbed, Torn
<1>4. CASE ScheduleCollapse
  BY <1>4 DEF ScheduleCollapse, Collapse!Start, Store, Undisturbed, Torn
<1>5. CASE ScheduleLora
  BY <1>5 DEF ScheduleLora, Lora!Ask, Store, Undisturbed, Torn
<1>6. CASE ScheduleSlp BY <1>6 DEF ScheduleSlp, Store, Undisturbed, Torn
<1>7. CASE BleStep BY <1>7 DEF BleStep, BleStops, Restart, Forgive
<1>8. CASE CollapseMeasured
  BY <1>8 DEF CollapseMeasured, Collapse!Measured, Collapse!Fewer, Publish,
     Store, Undisturbed, Torn
<1>9. CASE CollapseUnmeasured
  BY <1>9 DEF CollapseUnmeasured, Collapse!Empty, Collapse!Merge,
     Collapse!Fewer
<1>10. CASE SlpEnds BY <1>10 DEF SlpEnds, Store, Undisturbed, Torn
<1>11. CASE LoraOpens BY <1>11 DEF LoraOpens, Lora!Open
<1>12. CASE LoraReopens BY <1>12 DEF LoraReopens, Lora!Open
<1>13. CASE LoraTransmits BY <1>13 DEF LoraTransmits
<1>14. CASE LoraHears BY <1>14 DEF LoraHears, Lora!Hear
<1>15. CASE LoraFades BY <1>15 DEF LoraFades, Lora!Fade
<1>16. CASE TestStep
  BY <1>16 DEF TestStep, TestReported, Lora!Test, Lora!Closes, Reports,
     Store, Undisturbed, Torn
<1>17. CASE LinkReported
  BY <1>17 DEF LinkReported, Lora!Connect, Lora!Closes, Reports,
     Store, Undisturbed, Torn
<1>18. CASE OfflineReported
  BY <1>18 DEF OfflineReported, Lora!Miss, Lora!Closes, Reports,
     Store, Undisturbed, Torn
<1>19. CASE DisconReported
  BY <1>19 DEF DisconReported, Lora!Lose, Lora!Closes, Reports,
     Store, Undisturbed, Torn
<1>20. CASE ConnectReported
  BY <1>20 DEF ConnectReported, Lora!Confirm, Lora!Closes, AfterPublication,
     Reports, Store, Undisturbed, Torn
<1>21. CASE RequestTest BY <1>21 DEF RequestTest
<1>22. CASE LoraTestBegins BY <1>22 DEF LoraTestBegins, Lora!Open
<1>23. CASE LoraReset
  BY <1>23 DEF LoraReset, LoraLeaves, Store, Undisturbed, Torn
<1>24. CASE SetMode BY <1>24 DEF SetMode, Collapse!SetMode
<1>25. CASE SampleDue
  BY <1>25 DEF SampleDue, Collapse!Expire, Collapse!Double, Collapse!More
<1>26. CASE CollapseRests BY <1>26 DEF CollapseRests, Collapse!Rest
<1> QED BY <1>1, <1>2, <1>3, <1>4, <1>5, <1>6, <1>7, <1>8, <1>9, <1>10, <1>11,
           <1>12, <1>13, <1>14, <1>15, <1>16, <1>17, <1>18, <1>19, <1>20,
           <1>21, <1>22, <1>23, <1>24, <1>25, <1>26
         DEF Next

\* A chain at rest is not in periodic mode, and trigger mode listens.
Rests ==
  /\ Measuring /\ Links = {} /\ disconn = "no" => mode # "PERIOD"
  /\ mode = "TRIGGER" => ears = "on"

\* The last link is taken by a measurement that finds no sample and by a
\* publication in a mode that is neither, none of them in periodic mode.
LEMMA RestStep == TypeOK /\ Rests /\ Next => Rests'
<1> SUFFICES ASSUME TypeOK, Rests, Next PROVE Rests'
  OBVIOUS
<1> USE Constants DEF TypeOK, Events, loraVars, collapseVars, Rests,
          Measuring, Links
<1>1. CASE SignalIrq BY <1>1 DEF SignalIrq
<1>2. CASE Motion BY <1>2 DEF Motion, Collapse!Motion, Collapse!More
<1>3. CASE ScheduleBle BY <1>3 DEF ScheduleBle, Store, Undisturbed, Torn
<1>4. CASE ScheduleCollapse
  BY <1>4 DEF ScheduleCollapse, Collapse!Start, Store, Undisturbed, Torn
<1>5. CASE ScheduleLora
  BY <1>5 DEF ScheduleLora, Lora!Ask, Store, Undisturbed, Torn
<1>6. CASE ScheduleSlp BY <1>6 DEF ScheduleSlp, Store, Undisturbed, Torn
<1>7. CASE BleStep BY <1>7 DEF BleStep, BleStops, Restart, Forgive
<1>8. CASE CollapseMeasured
  BY <1>8 DEF CollapseMeasured, Collapse!Measured, Collapse!Fewer, Publish,
     Store, Undisturbed, Torn
<1>9. CASE CollapseUnmeasured
  BY <1>9 DEF CollapseUnmeasured, Collapse!Empty, Collapse!Merge,
     Collapse!Fewer
<1>10. CASE SlpEnds BY <1>10 DEF SlpEnds, Store, Undisturbed, Torn
<1>11. CASE LoraOpens BY <1>11 DEF LoraOpens, Lora!Open
<1>12. CASE LoraReopens BY <1>12 DEF LoraReopens, Lora!Open
<1>13. CASE LoraTransmits BY <1>13 DEF LoraTransmits
<1>14. CASE LoraHears BY <1>14 DEF LoraHears, Lora!Hear
<1>15. CASE LoraFades BY <1>15 DEF LoraFades, Lora!Fade
<1>16. CASE TestStep
  BY <1>16 DEF TestStep, TestReported, Lora!Test, Lora!Closes, Reports,
     Store, Undisturbed, Torn
<1>17. CASE LinkReported
  BY <1>17 DEF LinkReported, Lora!Connect, Lora!Closes, Reports,
     Store, Undisturbed, Torn
<1>18. CASE OfflineReported
  BY <1>18 DEF OfflineReported, Lora!Miss, Lora!Closes, Reports,
     Store, Undisturbed, Torn
<1>19. CASE DisconReported
  BY <1>19 DEF DisconReported, Lora!Lose, Lora!Closes, Reports,
     Store, Undisturbed, Torn
<1>20. CASE ConnectReported
  BY <1>20 DEF ConnectReported, Lora!Confirm, Lora!Closes, AfterPublication,
     Reports, Store, Undisturbed, Torn
<1>21. CASE RequestTest BY <1>21 DEF RequestTest
<1>22. CASE LoraTestBegins BY <1>22 DEF LoraTestBegins, Lora!Open
<1>23. CASE LoraReset
  BY <1>23 DEF LoraReset, LoraLeaves, Store, Undisturbed, Torn
<1>24. CASE SetMode BY <1>24 DEF SetMode, Collapse!SetMode
<1>25. CASE SampleDue
  BY <1>25 DEF SampleDue, Collapse!Expire, Collapse!Double, Collapse!More
<1>26. CASE CollapseRests BY <1>26 DEF CollapseRests, Collapse!Rest
<1> QED BY <1>1, <1>2, <1>3, <1>4, <1>5, <1>6, <1>7, <1>8, <1>9, <1>10, <1>11,
           <1>12, <1>13, <1>14, <1>15, <1>16, <1>17, <1>18, <1>19, <1>20,
           <1>21, <1>22, <1>23, <1>24, <1>25, <1>26
         DEF Next

\* A session that was asked for opens before anything is reported.
NotYetOpen == asked = "yes" => lora = "none" /\ again = "no"

LEMMA NotYetOpenStep == TypeOK /\ NotYetOpen /\ Next => NotYetOpen'
<1> SUFFICES ASSUME TypeOK, NotYetOpen, Next PROVE NotYetOpen'
  OBVIOUS
<1> USE DEF TypeOK, NotYetOpen, loraVars, collapseVars
<1>1. CASE SignalIrq BY <1>1 DEF SignalIrq
<1>2. CASE Motion BY <1>2 DEF Motion, Collapse!Motion, Collapse!More
<1>3. CASE ScheduleBle BY <1>3 DEF ScheduleBle, Store, Undisturbed, Torn
<1>4. CASE ScheduleCollapse
  BY <1>4 DEF ScheduleCollapse, Collapse!Start, Store, Undisturbed, Torn
<1>5. CASE ScheduleLora
  BY <1>5 DEF ScheduleLora, Lora!Ask, Store, Undisturbed, Torn
<1>6. CASE ScheduleSlp BY <1>6 DEF ScheduleSlp, Store, Undisturbed, Torn
<1>7. CASE BleStep BY <1>7 DEF BleStep, BleStops, Restart, Forgive
<1>8. CASE CollapseMeasured
  BY <1>8 DEF CollapseMeasured, Collapse!Measured, Collapse!Fewer, Publish,
     Store, Undisturbed, Torn
<1>9. CASE CollapseUnmeasured
  BY <1>9 DEF CollapseUnmeasured, Collapse!Empty, Collapse!Merge,
     Collapse!Fewer
<1>10. CASE SlpEnds BY <1>10 DEF SlpEnds, Store, Undisturbed, Torn
<1>11. CASE LoraOpens BY <1>11 DEF LoraOpens, Lora!Open
<1>12. CASE LoraReopens BY <1>12 DEF LoraReopens, Lora!Open
<1>13. CASE LoraTransmits BY <1>13 DEF LoraTransmits
<1>14. CASE LoraHears BY <1>14 DEF LoraHears, Lora!Hear
<1>15. CASE LoraFades BY <1>15 DEF LoraFades, Lora!Fade
<1>16. CASE TestStep
  BY <1>16 DEF TestStep, TestReported, Lora!Test, Lora!Closes, Reports,
     Store, Undisturbed, Torn
<1>17. CASE LinkReported
  BY <1>17 DEF LinkReported, Lora!Connect, Lora!Closes, Reports,
     Store, Undisturbed, Torn
<1>18. CASE OfflineReported
  BY <1>18 DEF OfflineReported, Lora!Miss, Lora!Closes, Reports,
     Store, Undisturbed, Torn
<1>19. CASE DisconReported
  BY <1>19 DEF DisconReported, Lora!Lose, Lora!Closes, Reports,
     Store, Undisturbed, Torn
<1>20. CASE ConnectReported
  BY <1>20 DEF ConnectReported, Lora!Confirm, Lora!Closes, AfterPublication,
     Reports, Store, Undisturbed, Torn
<1>21. CASE RequestTest BY <1>21 DEF RequestTest
<1>22. CASE LoraTestBegins BY <1>22 DEF LoraTestBegins, Lora!Open
<1>23. CASE LoraReset
  BY <1>23 DEF LoraReset, LoraLeaves, Store, Undisturbed, Torn
<1>24. CASE SetMode BY <1>24 DEF SetMode, Collapse!SetMode
<1>25. CASE SampleDue
  BY <1>25 DEF SampleDue, Collapse!Expire, Collapse!Double, Collapse!More
<1>26. CASE CollapseRests BY <1>26 DEF CollapseRests, Collapse!Rest
<1> QED BY <1>1, <1>2, <1>3, <1>4, <1>5, <1>6, <1>7, <1>8, <1>9, <1>10, <1>11,
           <1>12, <1>13, <1>14, <1>15, <1>16, <1>17, <1>18, <1>19, <1>20,
           <1>21, <1>22, <1>23, <1>24, <1>25, <1>26
         DEF Next

-----------------------------------------------------------------------------
(***************************************************************************)
(* Counting.  OneChain is not inductive: motion awaited, a retry that      *)
(* Bluetooth owes and a test that is asked for are not links yet, and each *)
(* becomes one in a step that costs nothing.  Counted along with the       *)
(* links, a step either puts one thing in the place of another or has been *)
(* paid for.                                                               *)
(***************************************************************************)

\* The links, and what becomes one.
Pending ==
  Links \cup
  (IF wait = "yes" THEN {"motion"} ELSE {}) \cup
  (IF disconn = "yes" THEN {"retry"} ELSE {}) \cup
  (IF llrt = "ACTIVE" THEN {"test"} ELSE {})

Paid == Cardinality(Pending) <= 1 + (Budget - budget)

Places ==
  {"COLLAPSE", "LORA", "SYS_LP"} \cup {"measuring", "publishing", "sleeping"}
    \cup {"motion", "retry", "test"} \cup {"again"}

\* The pending things are finitely many.
LEMMA PendingFinite == IsFiniteSet(Pending) /\ IsFiniteSet(Pending')
<1>1. ASSUME NEW a, NEW b, NEW c PROVE IsFiniteSet({a, b, c})
  <2>1. IsFiniteSet({a}) /\ IsFiniteSet({b}) /\ IsFiniteSet({c})
    BY FS_Singleton
  <2>2. IsFiniteSet({a} \cup {b})
    BY <2>1, FS_Union
  <2>3. IsFiniteSet(({a} \cup {b}) \cup {c})
    BY <2>1, <2>2, FS_Union
  <2>4. {a, b, c} = ({a} \cup {b}) \cup {c}
    OBVIOUS
  <2> QED BY <2>3, <2>4
<1>2. /\ IsFiniteSet({"COLLAPSE", "LORA", "SYS_LP"})
      /\ IsFiniteSet({"measuring", "publishing", "sleeping"})
      /\ IsFiniteSet({"motion", "retry", "test"})
  BY <1>1
<1>3. IsFiniteSet(Places)
  <2>1. IsFiniteSet({"COLLAPSE", "LORA", "SYS_LP"}
                      \cup {"measuring", "publishing", "sleeping"})
    BY <1>2, FS_Union
  <2>2. IsFiniteSet(({"COLLAPSE", "LORA", "SYS_LP"}
                      \cup {"measuring", "publishing", "sleeping"})
                      \cup {"motion", "retry", "test"})
    BY <1>2, <2>1, FS_Union
  <2>3. IsFiniteSet({"again"})
    BY FS_Singleton
  <2> QED BY <2>2, <2>3, FS_Union DEF Places
<1>4. Pending \subseteq Places /\ Pending' \subseteq Places
  BY DEF Pending, Links, Places
<1> QED BY <1>3, <1>4, FS_Subset

\* A set grows by at most one element when it is covered by another and one.
LEMMA OneMore ==
  ASSUME NEW S, NEW T, NEW y, IsFiniteSet(S), T \subseteq S \cup {y}
  PROVE  IsFiniteSet(T) /\ Cardinality(T) <= Cardinality(S) + 1
<1>1. IsFiniteSet(S \cup {y}) /\ Cardinality(S) \in Nat
  BY FS_AddElement, FS_CardinalityType
<1>2. Cardinality(S \cup {y}) <= Cardinality(S) + 1
  BY <1>1, FS_AddElement
<1>3. IsFiniteSet(T) /\ Cardinality(T) <= Cardinality(S \cup {y})
  BY <1>1, FS_Subset
<1>4. Cardinality(T) \in Nat /\ Cardinality(S \cup {y}) \in Nat
  BY <1>1, <1>3, FS_CardinalityType
<1> QED BY <1>1, <1>2, <1>3, <1>4

\* A set does not grow when one element takes another's place.
LEMMA OneForOne ==
  ASSUME NEW S, NEW T, NEW x \in S, NEW y, IsFiniteSet(S),
         T \subseteq (S \ {x}) \cup {y}
  PROVE  Cardinality(T) <= Cardinality(S)
<1>1. /\ IsFiniteSet(S \ {x}) /\ Cardinality(S) \in Nat
      /\ Cardinality(S \ {x}) = Cardinality(S) - 1
  BY FS_RemoveElement, FS_CardinalityType
<1>2. IsFiniteSet(T) /\ Cardinality(T) <= Cardinality(S \ {x}) + 1
  BY <1>1, OneMore
<1> QED BY <1>1, <1>2, FS_CardinalityType

\* How a step changes what is pending.
Moves(x, y) ==
  x \in Pending /\ Pending' \subseteq (Pending \ {x}) \cup {y}

\* What keeps the count, and what a disturbance pays for.
LEMMA PaidStep ==
  ASSUME TypeOK, TypeOK', Paid,
         \/ budget' = budget /\ Pending' \subseteq Pending
         \/ budget' = budget /\ \E x, y : Moves(x, y)
         \/ budget' = budget - 1
              /\ \E y : Pending' \subseteq Pending \cup {y}
  PROVE  Paid'
<1>1. /\ Cardinality(Pending) \in Nat /\ Cardinality(Pending') \in Nat
      /\ IsFiniteSet(Pending) /\ IsFiniteSet(Pending')
  BY PendingFinite, FS_CardinalityType
<1>2. Budget \in Nat /\ budget \in 0..Budget /\ budget' \in 0..Budget
  BY Constants DEF TypeOK
<1>3. CASE budget' = budget /\ Pending' \subseteq Pending
  <2>1. Cardinality(Pending') <= Cardinality(Pending)
    BY <1>1, <1>3, FS_Subset
  <2> QED BY <1>1, <1>2, <1>3, <2>1 DEF Paid
<1>4. CASE budget' = budget /\ \E x, y : Moves(x, y)
  <2>1. PICK x, y :
          x \in Pending /\ Pending' \subseteq (Pending \ {x}) \cup {y}
    BY <1>4 DEF Moves
  <2>2. Cardinality(Pending') <= Cardinality(Pending)
    BY <1>1, <2>1, OneForOne
  <2> QED BY <1>1, <1>2, <1>4, <2>2 DEF Paid
<1>5. CASE budget' = budget - 1 /\ \E y : Pending' \subseteq Pending \cup {y}
  <2>1. PICK y : Pending' \subseteq Pending \cup {y}
    BY <1>5
  <2>2. Cardinality(Pending') <= Cardinality(Pending) + 1
    BY <1>1, <2>1, OneMore
  <2> QED BY <1>1, <1>2, <1>5, <2>2 DEF Paid
<1> QED BY <1>3, <1>4, <1>5

\* Every step takes one pending thing for another, or is a disturbance that
\* adds at most one.
LEMMA PendingStep ==
  ASSUME TypeOK, NotYetOpen, Next
  PROVE  \/ budget' = budget /\ Pending' \subseteq Pending
         \/ budget' = budget /\ \E x, y : Moves(x, y)
         \/ budget' = budget - 1
              /\ \E y : Pending' \subseteq Pending \cup {y}
<1> DEFINE Kept == budget' = budget /\ Pending' \subseteq Pending
<1> DEFINE Moved(x, y) == budget' = budget /\ Moves(x, y)
<1> DEFINE Bought(y) ==
      budget' = budget - 1 /\ Pending' \subseteq Pending \cup {y}
<1> USE Constants DEF TypeOK, Events, loraVars, collapseVars, Pending,
          Links, Moves
<1>1. CASE SignalIrq
  <2>1. Kept BY <1>1 DEF SignalIrq
  <2> QED BY <2>1
<1>2. CASE Motion
  <2> USE <1>2 DEF Motion, Collapse!Motion, Collapse!More
  <2>1. CASE work = "none"
    <3>1. Moved("motion", "measuring") BY <2>1
    <3> QED BY ONLY <3>1
  <2>2. CASE work # "none"
    <3>1. Moved("motion", "again") BY <2>2
    <3> QED BY ONLY <3>1
  <2> QED BY ONLY <2>1, <2>2
<1>3. CASE ScheduleBle
  <2>1. Kept BY <1>3 DEF ScheduleBle, Store, Undisturbed, Torn
  <2> QED BY <2>1
<1>4. CASE ScheduleCollapse
  <2>1. Moved("COLLAPSE", "measuring")
    BY <1>4 DEF ScheduleCollapse, Collapse!Start, Store, Undisturbed, Torn
  <2> QED BY <2>1
<1>5. CASE ScheduleLora
  <2>1. Moved("LORA", "publishing")
    BY <1>5 DEF ScheduleLora, Lora!Ask, Store, Undisturbed, Torn
  <2> QED BY <2>1
<1>6. CASE ScheduleSlp
  <2>1. Moved("SYS_LP", "sleeping")
    BY <1>6 DEF ScheduleSlp, Store, Undisturbed, Torn
  <2> QED BY <2>1
<1>7. CASE BleStep
  <2>1. PICK cause \in {"ADV_TIMEOUT", "ADV_STOP"} : BleStops(cause)
    BY <1>7 DEF BleStep
  <2> USE <2>1 DEF BleStops, Restart, Forgive, Spend
  <2>2. CASE cause = "ADV_STOP"
    <3>1. Bought("LORA") BY <2>2
    <3> QED BY ONLY <3>1
  <2>3. CASE cause = "ADV_TIMEOUT" /\ disconn = "yes"
    <3>1. Moved("retry", "LORA") BY <2>3
    <3> QED BY ONLY <3>1
  <2>4. CASE cause = "ADV_TIMEOUT" /\ disconn = "no"
    <3>1. Kept BY <2>4
    <3> QED BY ONLY <3>1
  <2> QED BY <2>2, <2>3, <2>4
<1>8. CASE CollapseMeasured
  <2> USE <1>8 DEF CollapseMeasured, Collapse!Measured, Collapse!Fewer,
        Publish, Store, Undisturbed, Torn
  <2>1. CASE work = "one"
    <3>1. Moved("measuring", "LORA") BY <2>1
    <3> QED BY ONLY <3>1
  <2>2. CASE work = "two"
    <3>1. Moved("again", "LORA") BY <2>2
    <3> QED BY ONLY <3>1
  <2> QED BY ONLY <1>8, <2>1, <2>2, TypeOK
          DEF TypeOK, CollapseMeasured, Collapse!Measured
<1>9. CASE CollapseUnmeasured
  <2> USE <1>9 DEF CollapseUnmeasured, Collapse!Empty, Collapse!Merge,
        Collapse!Fewer
  <2>1. CASE Collapse!Merge
    <3>1. Kept BY <2>1
    <3> QED BY ONLY <3>1
  <2>2. CASE Collapse!Empty /\ work = "one"
    <3>1. Moved("measuring", "motion") BY <2>2
    <3> QED BY ONLY <3>1
  <2>3. CASE Collapse!Empty /\ work = "two"
    <3>1. Moved("again", "motion") BY <2>3
    <3> QED BY ONLY <3>1
  <2> QED BY ONLY <1>9, <2>1, <2>2, <2>3, TypeOK
          DEF TypeOK, CollapseUnmeasured, Collapse!Empty
<1>10. CASE SlpEnds
  <2>1. CASE llrt = "RUN"
    <3>1. Moved("sleeping", "LORA")
      BY <1>10, <2>1 DEF SlpEnds, Store, Undisturbed, Torn
    <3> QED BY <3>1
  <2>2. CASE llrt # "RUN"
    <3>1. Moved("sleeping", "COLLAPSE")
      BY <1>10, <2>2 DEF SlpEnds, Store, Undisturbed, Torn
    <3> QED BY <3>1
  <2> QED BY <2>1, <2>2
<1>11. CASE LoraOpens
  <2>1. Kept BY <1>11 DEF LoraOpens, Lora!Open
  <2> QED BY <2>1
<1>12. CASE LoraReopens
  <2>1. Bought("publishing") BY <1>12 DEF LoraReopens, Lora!Open, Spend
  <2> QED BY <2>1
<1>13. CASE LoraTransmits
  <2>1. Kept BY <1>13 DEF LoraTransmits
  <2> QED BY <2>1
<1>14. CASE LoraHears
  <2>1. Kept BY <1>14 DEF LoraHears, Lora!Hear
  <2> QED BY <2>1
<1>15. CASE LoraFades
  <2>1. Kept BY <1>15 DEF LoraFades, Lora!Fade
  <2> QED BY <2>1
<1>16. CASE TestStep
  <2> USE <1>16 DEF TestStep, TestReported, Lora!Test, Lora!Closes,
        Reports, Spend, Store, Undisturbed, Torn
  <2>1. CASE lora = "open"
    <3>1. Moved("publishing", "SYS_LP") BY <2>1 DEF NotYetOpen
    <3> QED BY ONLY <3>1
  <2>2. CASE lora = "none"
    <3>1. Bought("SYS_LP") BY <2>2
    <3> QED BY ONLY <3>1
  <2> QED BY ONLY <2>1, <2>2, TypeOK DEF TypeOK
<1>17. CASE LinkReported
  <2> USE <1>17 DEF LinkReported, Lora!Connect, Lora!Closes,
        Reports, Spend, Store, Undisturbed, Torn
  <2>1. CASE lora = "open"
    <3>1. Moved("publishing", "COLLAPSE") BY <2>1 DEF NotYetOpen
    <3> QED BY ONLY <3>1
  <2>2. CASE lora = "none"
    <3>1. Bought("COLLAPSE") BY <2>2
    <3> QED BY ONLY <3>1
  <2> QED BY ONLY <2>1, <2>2, TypeOK DEF TypeOK
<1>18. CASE OfflineReported
  <2> USE <1>18 DEF OfflineReported, Lora!Miss, Lora!Closes,
        Reports, Spend, Store, Undisturbed, Torn
  <2>1. CASE lora = "open"
    <3>1. Moved("publishing", "retry") BY <2>1 DEF NotYetOpen
    <3> QED BY ONLY <3>1
  <2>2. CASE lora = "none"
    <3>1. Bought("retry") BY <2>2
    <3> QED BY ONLY <3>1
  <2> QED BY ONLY <2>1, <2>2, TypeOK DEF TypeOK
<1>19. CASE DisconReported
  <2> USE <1>19 DEF DisconReported, Lora!Lose, Lora!Closes,
        Reports, Spend, Store, Undisturbed, Torn
  <2>1. CASE lora = "open"
    <3>1. Moved("publishing", "LORA") BY <2>1 DEF NotYetOpen
    <3> QED BY ONLY <3>1
  <2>2. CASE lora = "none"
    <3>1. Bought("LORA") BY <2>2
    <3> QED BY ONLY <3>1
  <2> QED BY ONLY <2>1, <2>2, TypeOK DEF TypeOK
<1>20. CASE ConnectReported
  <2> USE <1>20 DEF ConnectReported, Lora!Confirm, Lora!Closes, Reports,
        AfterPublication, Spend, Store, Undisturbed, Torn
  <2>1. CASE lora = "open"
    <3>1. \/ Moved("publishing", "COLLAPSE")
          \/ Moved("publishing", "SYS_LP")
          \/ Kept
      BY <2>1 DEF NotYetOpen
    <3> QED BY ONLY <3>1
  <2>2. CASE lora = "none"
    <3>1. Bought("COLLAPSE") \/ Bought("SYS_LP") BY <2>2
    <3> QED BY ONLY <3>1
  <2> QED BY ONLY <2>1, <2>2, TypeOK DEF TypeOK
<1>21. CASE RequestTest
  <2>1. Bought("test") BY <1>21 DEF RequestTest, Spend
  <2> QED BY <2>1
<1>22. CASE LoraTestBegins
  <2>1. Moved("test", "publishing") BY <1>22 DEF LoraTestBegins, Lora!Open
  <2> QED BY <2>1
<1>23. CASE LoraReset
  <2>1. Bought("LORA")
    BY <1>23 DEF LoraReset, Spend, Store, Undisturbed, Torn
  <2> QED BY <2>1
<1>24. CASE SetMode
  <2>1. budget' = budget - 1 BY <1>24 DEF SetMode, Spend
  <2>2. Pending' \subseteq Pending BY <1>24 DEF SetMode, Collapse!SetMode
  <2> QED BY <2>1, <2>2
<1>25. CASE SampleDue
  <2> USE <1>25 DEF SampleDue, Collapse!Expire, Collapse!Double,
        Collapse!More, Spend
  <2>1. CASE Collapse!Expire /\ UNCHANGED budget
    <3>1. Kept BY <2>1
    <3> QED BY ONLY <3>1
  <2>2. CASE Collapse!Double /\ Spend
    <3>1. Bought("measuring") \/ Bought("again") BY <2>2
    <3> QED BY ONLY <3>1
  <2> QED BY ONLY <1>25, <2>1, <2>2 DEF SampleDue
<1>26. CASE CollapseRests
  <2>1. Kept BY <1>26 DEF CollapseRests, Collapse!Rest
  <2> QED BY <2>1
<1> QED BY <1>1, <1>2, <1>3, <1>4, <1>5, <1>6, <1>7, <1>8, <1>9, <1>10, <1>11,
           <1>12, <1>13, <1>14, <1>15, <1>16, <1>17, <1>18, <1>19, <1>20,
           <1>21, <1>22, <1>23, <1>24, <1>25, <1>26
         DEF Next

-----------------------------------------------------------------------------
(* The theorems.                                                           *)

\* Every variable of the scheduler keeps a value of its type.
THEOREM TypeCorrect == Spec => []TypeOK
<1>1. TypeOK /\ UNCHANGED vars => TypeOK'
  BY DEF TypeOK, vars, loraVars, collapseVars
<1> QED BY <1>1, InitType, TypeStep, PTL DEF Spec

\* The Bluetooth task is always running or requested: a signal edge lost in a
\* torn update of the event word cannot leave the device without Bluetooth.
THEOREM BleIsAlive == Spec => []BleAlive
<1>1. Init => BleAlive
  BY DEF Init, BleAlive
<1>2. BleAlive /\ UNCHANGED vars => BleAlive'
  BY DEF BleAlive, vars, loraVars, collapseVars
<1> QED BY <1>1, <1>2, BleAliveStep, PTL DEF Spec

\* The measuring chain of a device with a gateway is dropped in one way only, by
\* a publication delivered in a mode that is neither periodic nor trigger: else
\* it continues somewhere, waits for motion, or for Bluetooth to retry LoRa.
THEOREM ChainIsAlive == Spec => []ChainAlive
<1>1. Init => ChainAlive
  BY DEF Init, ChainAlive, Measuring, Links
<1>2. ChainAlive /\ UNCHANGED vars => ChainAlive'
  BY DEF ChainAlive, Measuring, Ended, Links, vars, loraVars, collapseVars
<1> QED BY <1>1, <1>2, ChainStep, TypeCorrect, PTL DEF Spec

\* A chain that has nothing but motion to wait for is in trigger mode, listens
\* and resumes at the motion, whatever modes the gateway has set in between;
\* only a mode that is neither is out of the promise.
THEOREM ChainWaitsForMotion == Spec => []WaitsForMotion
<1>1. Init => Rests
  BY DEF Init, Collapse!Init, Rests, Measuring, Links
<1>2. Rests /\ UNCHANGED vars => Rests'
  BY DEF Rests, Measuring, Links, vars, loraVars, collapseVars
<1>3. TypeOK /\ ChainAlive /\ Rests => WaitsForMotion
  BY DEF TypeOK, ChainAlive, Ended, Rests, Measuring, WaitsForMotion
<1> QED BY <1>1, <1>2, <1>3, RestStep, ChainIsAlive, TypeCorrect, PTL DEF Spec

\* There is one measuring chain, and at most one more for every client that
\* left while the gateway was lost, every reset, every test, every measurement
\* that was doubled and every session that repeats itself.
THEOREM ChainIsOne == Spec => []OneChain
<1>1. Init => Paid
  <2> SUFFICES ASSUME Init PROVE Paid
    OBVIOUS
  <2>1. Pending \subseteq {} \cup {"LORA"}
    BY DEF Init, Lora!Init, Collapse!Init, Pending, Links
  <2>2. Cardinality(Pending) <= 1
    BY <2>1, OneMore, FS_EmptySet
  <2> QED BY <2>2, Constants DEF Init, Paid
<1>2. TypeOK /\ TypeOK' /\ NotYetOpen /\ Paid /\ [Next]_vars => Paid'
  <2>1. CASE Next
    BY <2>1, PendingStep, PaidStep
  <2>2. CASE UNCHANGED vars
    BY <2>2 DEF Paid, Pending, Links, vars, loraVars, collapseVars
  <2> QED BY <2>1, <2>2
<1>3. TypeOK /\ Paid => OneChain
  <2> SUFFICES ASSUME TypeOK, Paid PROVE OneChain
    OBVIOUS
  <2>1. Links \subseteq Pending
    BY DEF Pending
  <2>2. Cardinality(Links) <= Cardinality(Pending) /\ IsFiniteSet(Links)
    BY <2>1, PendingFinite, FS_Subset
  <2>3. Cardinality(Links) \in Nat /\ Cardinality(Pending) \in Nat
    BY <2>2, PendingFinite, FS_CardinalityType
  <2> QED BY <2>2, <2>3, Constants DEF TypeOK, Paid, OneChain
<1>4. Init => NotYetOpen
  BY DEF Init, NotYetOpen
<1>5. NotYetOpen /\ UNCHANGED vars => NotYetOpen'
  BY DEF NotYetOpen, vars, loraVars, collapseVars
<1> QED BY <1>1, <1>2, <1>3, <1>4, <1>5, NotYetOpenStep, TypeCorrect, PTL
        DEF Spec
=============================================================================
