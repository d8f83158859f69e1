--------------------------- MODULE LinkTestProofs ---------------------------
(***************************************************************************)
(* Proofs about the link test: for all parameters a client may write, and  *)
(* for commands, timers and late stops in any order.                       *)
(***************************************************************************)
EXTENDS LinkTest, TLAPS

\* Where a test may be: its flag is set, and its sessions and reports are made,
\* while it runs only.
PlaceInv ==
  /\ status # "RUN" => flag = "off"
  /\ session = "test" \/ pc \in {"add", "calc"} => status = "RUN"
  /\ pc \in {"add", "calc"} => session \in {"idle", "late"}
  /\ status = "RUN" => session # "other"
  /\ pc = "name" => status = "ACTIVE"

\* What is counted of a test that runs: answers never outnumber exchanges, and
\* a late stop adds one report to those the bound allows.
CountInv ==
  status = "RUN" =>
    /\ pc = "add" =>
         /\ tx <= MaxTx + 1 /\ rx <= tx + 1
         /\ flag = "on" => tx <= MaxTx /\ (session = "late" => tx < MaxTx)
    /\ pc = "calc" =>
         /\ tx <= MaxTx + 2 /\ rx <= tx /\ tx > 0
         /\ flag = "on" => tx <= MaxTx + 1 /\ (session = "late" => tx <= MaxTx)
    /\ pc \notin {"add", "calc"} =>
         /\ tx <= MaxTx + 1 /\ rx <= tx
         /\ session = "late" => tx <= MaxTx
         /\ session = "test" /\ flag = "on" => tx < MaxTx

\* The inductive form of TestWillEnd and CutShortByMeddling: a timer runs for
\* the test that started it, or the client has meddled with the parameters.
EndInv ==
  /\ timer # "off" =>
       \/ meddled = "yes"
       \/ status = "RUN" /\ timer = "this" /\ flag = "on" /\ Timed
  /\ status = "ACTIVE" /\ meddled = "no" => Counting \/ Timed
  /\ TestWillEnd /\ CutShortByMeddling

\* The inductive form of CommandWaits: the main loop's copy has the bit too.
CommandInv ==
  /\ CommandWaits
  /\ pc = "params" /\ asked # "NULL" /\ lost = "no" => "ctrl" \in copy

\* What StopSticks says of a step.
StopKept ==
  status = "RUN" /\ flag = "off" => flag' = "off" \/ status' # "RUN"

\* A test stays in its place.
LEMMA PlaceStep ==
  ASSUME TypeOK, PlaceInv, Next PROVE PlaceInv'
<1> USE LinkTestAssumption
    DEF TypeOK, PlaceInv, client, counts
<1>1. ASSUME WriteParam
      PROVE  PlaceInv'
  BY <1>1 DEF WriteParam
<1>2. ASSUME NEW c \in Commands, WriteCtrl(c)
      PROVE  PlaceInv'
  BY <1>2 DEF WriteCtrl
<1>3. ASSUME TimerFires
      PROVE  PlaceInv'
  BY <1>3 DEF TimerFires, Cleared
<1>4. ASSUME BeginRequests
      PROVE  PlaceInv'
  BY <1>4 DEF BeginRequests, Loaded
<1>5. ASSUME ParamsSeen
      PROVE  PlaceInv'
  BY <1>5 DEF ParamsSeen, Store
<1>6. ASSUME TakeCtrl
      PROVE  PlaceInv'
  BY <1>6 DEF TakeCtrl, Loaded
<1>7. ASSUME ClearCtrl
      PROVE  PlaceInv'
  BY <1>7 DEF ClearCtrl, Store
<1>8. ASSUME RefuseStart
      PROVE  PlaceInv'
  BY <1>8 DEF RefuseStart, Served
<1>9. ASSUME Refused
      PROVE  PlaceInv'
  BY <1>9 DEF Refused, Overwrite
<1>10. ASSUME AcceptStart
      PROVE  PlaceInv'
  BY <1>10 DEF AcceptStart, Served
<1>11. ASSUME NameTest
      PROVE  PlaceInv'
  BY <1>11 DEF NameTest
<1>12. ASSUME ServeStop
      PROVE  PlaceInv'
  BY <1>12 DEF ServeStop, Stop, Cleared, Served
<1>13. ASSUME StartTest
      PROVE  PlaceInv'
  BY <1>13 DEF StartTest, MayStart, ZeroCounts, StartTimer
<1>14. ASSUME OtherSession
      PROVE  PlaceInv'
  BY <1>14 DEF OtherSession
<1>15. ASSUME NextExchange
      PROVE  PlaceInv'
  BY <1>15 DEF NextExchange
<1>16. ASSUME Exchange
      PROVE  PlaceInv'
  BY <1>16 DEF Exchange
<1>17. ASSUME LateStop
      PROVE  PlaceInv'
  BY <1>17 DEF LateStop
<1>18. ASSUME AddTx
      PROVE  PlaceInv'
  BY <1>18 DEF AddTx, CountReached, Cleared
<1>19. ASSUME Calc
      PROVE  PlaceInv'
  BY <1>19 DEF Calc, EndTest, Overwrite
<1> QED
  BY <1>1, <1>2, <1>3, <1>4, <1>5, <1>6, <1>7, <1>8, <1>9, <1>10, <1>11,
     <1>12, <1>13, <1>14, <1>15, <1>16, <1>17, <1>18, <1>19
  DEF Next, Interrupt, Requests, Tasks

\* Every step keeps the counts.
LEMMA CountStep ==
  ASSUME TypeOK, PlaceInv, CountInv, Next PROVE CountInv'
<1> USE LinkTestAssumption
    DEF TypeOK, PlaceInv, CountInv, client, counts
<1>1. ASSUME WriteParam
      PROVE  CountInv'
  BY <1>1 DEF WriteParam
<1>2. ASSUME NEW c \in Commands, WriteCtrl(c)
      PROVE  CountInv'
  BY <1>2 DEF WriteCtrl
<1>3. ASSUME TimerFires
      PROVE  CountInv'
  BY <1>3 DEF TimerFires, Cleared
<1>4. ASSUME BeginRequests
      PROVE  CountInv'
  BY <1>4 DEF BeginRequests, Loaded
<1>5. ASSUME ParamsSeen
      PROVE  CountInv'
  BY <1>5 DEF ParamsSeen, Store
<1>6. ASSUME TakeCtrl
      PROVE  CountInv'
  BY <1>6 DEF TakeCtrl, Loaded
<1>7. ASSUME ClearCtrl
      PROVE  CountInv'
  BY <1>7 DEF ClearCtrl, Store
<1>8. ASSUME RefuseStart
      PROVE  CountInv'
  BY <1>8 DEF RefuseStart, Served
<1>9. ASSUME Refused
      PROVE  CountInv'
  BY <1>9 DEF Refused, Overwrite
<1>10. ASSUME AcceptStart
      PROVE  CountInv'
  BY <1>10 DEF AcceptStart, Served
<1>11. ASSUME NameTest
      PROVE  CountInv'
  BY <1>11 DEF NameTest
<1>12. ASSUME ServeStop
      PROVE  CountInv'
  BY <1>12 DEF ServeStop, Stop, Cleared, Served
<1>13. ASSUME StartTest
      PROVE  CountInv'
  BY <1>13 DEF StartTest, MayStart, ZeroCounts, StartTimer
<1>14. ASSUME OtherSession
      PROVE  CountInv'
  BY <1>14 DEF OtherSession
<1>15. ASSUME NextExchange
      PROVE  CountInv'
  BY <1>15 DEF NextExchange
<1>16. ASSUME Exchange
      PROVE  CountInv'
  BY <1>16 DEF Exchange
<1>17. ASSUME LateStop
      PROVE  CountInv'
  BY <1>17 DEF LateStop
<1>18. ASSUME AddTx
      PROVE  CountInv'
  BY <1>18 DEF AddTx, CountReached, Cleared
<1>19. ASSUME Calc
      PROVE  CountInv'
  BY <1>19 DEF Calc, EndTest, Overwrite
<1> QED
  BY <1>1, <1>2, <1>3, <1>4, <1>5, <1>6, <1>7, <1>8, <1>9, <1>10, <1>11,
     <1>12, <1>13, <1>14, <1>15, <1>16, <1>17, <1>18, <1>19
  DEF Next, Interrupt, Requests, Tasks

\* Every step keeps the types.
LEMMA TypeStep ==
  ASSUME TypeOK, PlaceInv, CountInv, Next PROVE TypeOK'
<1> USE LinkTestAssumption
    DEF TypeOK, PlaceInv, CountInv, Controls, Starts, client, counts
<1>1. ASSUME WriteParam
      PROVE  TypeOK'
  BY <1>1 DEF WriteParam
<1>2. ASSUME NEW c \in Commands, WriteCtrl(c)
      PROVE  TypeOK'
  BY <1>2 DEF WriteCtrl
<1>3. ASSUME TimerFires
      PROVE  TypeOK'
  BY <1>3 DEF TimerFires, Cleared
<1>4. ASSUME BeginRequests
      PROVE  TypeOK'
  <2>1. copy' = copy \/ copy' \subseteq req
    BY <1>4 DEF BeginRequests, Loaded
  <2>2. copy' \subseteq {"param", "ctrl"}
    BY <2>1
  <2> QED BY <1>4, <2>2 DEF BeginRequests
<1>5. ASSUME ParamsSeen
      PROVE  TypeOK'
  BY <1>5 DEF ParamsSeen, Store
<1>6. ASSUME TakeCtrl
      PROVE  TypeOK'
  <2>1. copy' = copy \/ copy' \subseteq req
    BY <1>6 DEF TakeCtrl, Loaded
  <2>2. copy' \subseteq {"param", "ctrl"}
    BY <2>1
  <2> QED BY <1>6, <2>2 DEF TakeCtrl
<1>7. ASSUME ClearCtrl
      PROVE  TypeOK'
  BY <1>7 DEF ClearCtrl, Store
<1>8. ASSUME RefuseStart
      PROVE  TypeOK'
  BY <1>8 DEF RefuseStart, Served
<1>9. ASSUME Refused
      PROVE  TypeOK'
  BY <1>9 DEF Refused, Overwrite
<1>10. ASSUME AcceptStart
      PROVE  TypeOK'
  BY <1>10 DEF AcceptStart, Served
<1>11. ASSUME NameTest
      PROVE  TypeOK'
  BY <1>11 DEF NameTest
<1>12. ASSUME ServeStop
      PROVE  TypeOK'
  BY <1>12 DEF ServeStop, Stop, Cleared, Served
<1>13. ASSUME StartTest
      PROVE  TypeOK'
  BY <1>13 DEF StartTest, MayStart, ZeroCounts, StartTimer
<1>14. ASSUME OtherSession
      PROVE  TypeOK'
  BY <1>14 DEF OtherSession
<1>15. ASSUME NextExchange
      PROVE  TypeOK'
  BY <1>15 DEF NextExchange
<1>16. ASSUME Exchange
      PROVE  TypeOK'
  BY <1>16 DEF Exchange
<1>17. ASSUME LateStop
      PROVE  TypeOK'
  BY <1>17 DEF LateStop
<1>18. ASSUME AddTx
      PROVE  TypeOK'
  BY <1>18 DEF AddTx, CountReached, Cleared
<1>19. ASSUME Calc
      PROVE  TypeOK'
  BY <1>19 DEF Calc, EndTest, Overwrite
<1> QED
  BY <1>1, <1>2, <1>3, <1>4, <1>5, <1>6, <1>7, <1>8, <1>9, <1>10, <1>11,
     <1>12, <1>13, <1>14, <1>15, <1>16, <1>17, <1>18, <1>19
  DEF Next, Interrupt, Requests, Tasks

\* Every step keeps an end before the test.
LEMMA EndStep ==
  ASSUME TypeOK, PlaceInv, EndInv, Next PROVE EndInv'
<1> USE LinkTestAssumption
    DEF TypeOK, PlaceInv, EndInv, TestWillEnd, CutShortByMeddling,
        Counting, Timed, client, counts
<1>1. ASSUME WriteParam
      PROVE  EndInv'
  BY <1>1 DEF WriteParam
<1>2. ASSUME NEW c \in Commands, WriteCtrl(c)
      PROVE  EndInv'
  BY <1>2 DEF WriteCtrl
<1>3. ASSUME TimerFires
      PROVE  EndInv'
  BY <1>3 DEF TimerFires, Cleared
<1>4. ASSUME BeginRequests
      PROVE  EndInv'
  BY <1>4 DEF BeginRequests, Loaded
<1>5. ASSUME ParamsSeen
      PROVE  EndInv'
  BY <1>5 DEF ParamsSeen, Store
<1>6. ASSUME TakeCtrl
      PROVE  EndInv'
  BY <1>6 DEF TakeCtrl, Loaded
<1>7. ASSUME ClearCtrl
      PROVE  EndInv'
  BY <1>7 DEF ClearCtrl, Store
<1>8. ASSUME RefuseStart
      PROVE  EndInv'
  BY <1>8 DEF RefuseStart, Served
<1>9. ASSUME Refused
      PROVE  EndInv'
  BY <1>9 DEF Refused, Overwrite
<1>10. ASSUME AcceptStart
      PROVE  EndInv'
  BY <1>10 DEF AcceptStart, Served
<1>11. ASSUME NameTest
      PROVE  EndInv'
  BY <1>11 DEF NameTest
<1>12. ASSUME ServeStop
      PROVE  EndInv'
  BY <1>12 DEF ServeStop, Stop, Cleared, Served
<1>13. ASSUME StartTest
      PROVE  EndInv'
  BY <1>13 DEF StartTest, MayStart, ZeroCounts, StartTimer
<1>14. ASSUME OtherSession
      PROVE  EndInv'
  BY <1>14 DEF OtherSession
<1>15. ASSUME NextExchange
      PROVE  EndInv'
  BY <1>15 DEF NextExchange
<1>16. ASSUME Exchange
      PROVE  EndInv'
  BY <1>16 DEF Exchange
<1>17. ASSUME LateStop
      PROVE  EndInv'
  BY <1>17 DEF LateStop
<1>18. ASSUME AddTx
      PROVE  EndInv'
  BY <1>18 DEF AddTx, CountReached, Cleared
<1>19. ASSUME Calc
      PROVE  EndInv'
  BY <1>19 DEF Calc, EndTest, Overwrite
<1> QED
  BY <1>1, <1>2, <1>3, <1>4, <1>5, <1>6, <1>7, <1>8, <1>9, <1>10, <1>11,
     <1>12, <1>13, <1>14, <1>15, <1>16, <1>17, <1>18, <1>19
  DEF Next, Interrupt, Requests, Tasks

\* The end of a test takes its command back.
LEMMA NameStep ==
  ASSUME TypeOK, PlaceInv, StoppedMayStart, Next PROVE StoppedMayStart'
<1> USE LinkTestAssumption
    DEF TypeOK, PlaceInv, StoppedMayStart, client, counts
<1>1. ASSUME WriteParam
      PROVE  StoppedMayStart'
  BY <1>1 DEF WriteParam
<1>2. ASSUME NEW c \in Commands, WriteCtrl(c)
      PROVE  StoppedMayStart'
  BY <1>2 DEF WriteCtrl
<1>3. ASSUME TimerFires
      PROVE  StoppedMayStart'
  BY <1>3 DEF TimerFires, Cleared
<1>4. ASSUME BeginRequests
      PROVE  StoppedMayStart'
  BY <1>4 DEF BeginRequests, Loaded
<1>5. ASSUME ParamsSeen
      PROVE  StoppedMayStart'
  BY <1>5 DEF ParamsSeen, Store
<1>6. ASSUME TakeCtrl
      PROVE  StoppedMayStart'
  BY <1>6 DEF TakeCtrl, Loaded
<1>7. ASSUME ClearCtrl
      PROVE  StoppedMayStart'
  BY <1>7 DEF ClearCtrl, Store
<1>8. ASSUME RefuseStart
      PROVE  StoppedMayStart'
  BY <1>8 DEF RefuseStart, Served
<1>9. ASSUME Refused
      PROVE  StoppedMayStart'
  BY <1>9 DEF Refused, Overwrite
<1>10. ASSUME AcceptStart
      PROVE  StoppedMayStart'
  BY <1>10 DEF AcceptStart, Served
<1>11. ASSUME NameTest
      PROVE  StoppedMayStart'
  BY <1>11 DEF NameTest
<1>12. ASSUME ServeStop
      PROVE  StoppedMayStart'
  BY <1>12 DEF ServeStop, Stop, Cleared, Served
<1>13. ASSUME StartTest
      PROVE  StoppedMayStart'
  BY <1>13 DEF StartTest, MayStart, ZeroCounts, StartTimer
<1>14. ASSUME OtherSession
      PROVE  StoppedMayStart'
  BY <1>14 DEF OtherSession
<1>15. ASSUME NextExchange
      PROVE  StoppedMayStart'
  BY <1>15 DEF NextExchange
<1>16. ASSUME Exchange
      PROVE  StoppedMayStart'
  BY <1>16 DEF Exchange
<1>17. ASSUME LateStop
      PROVE  StoppedMayStart'
  BY <1>17 DEF LateStop
<1>18. ASSUME AddTx
      PROVE  StoppedMayStart'
  BY <1>18 DEF AddTx, CountReached, Cleared
<1>19. ASSUME Calc
      PROVE  StoppedMayStart'
  BY <1>19 DEF Calc, EndTest, Overwrite
<1> QED
  BY <1>1, <1>2, <1>3, <1>4, <1>5, <1>6, <1>7, <1>8, <1>9, <1>10, <1>11,
     <1>12, <1>13, <1>14, <1>15, <1>16, <1>17, <1>18, <1>19
  DEF Next, Interrupt, Requests, Tasks

\* Every step keeps the client's command.
LEMMA CommandStep ==
  ASSUME TypeOK, CommandInv, Next PROVE CommandInv'
<1> USE LinkTestAssumption
    DEF TypeOK, CommandInv, CommandWaits, Controls, client, counts
<1>1. ASSUME WriteParam
      PROVE  CommandInv'
  BY <1>1 DEF WriteParam
<1>2. ASSUME NEW c \in Commands, WriteCtrl(c)
      PROVE  CommandInv'
  BY <1>2 DEF WriteCtrl
<1>3. ASSUME TimerFires
      PROVE  CommandInv'
  BY <1>3 DEF TimerFires, Cleared
<1>4. ASSUME BeginRequests
      PROVE  CommandInv'
  BY <1>4 DEF BeginRequests, Loaded
<1>5. ASSUME ParamsSeen
      PROVE  CommandInv'
  BY <1>5 DEF ParamsSeen, Store
<1>6. ASSUME TakeCtrl
      PROVE  CommandInv'
  BY <1>6 DEF TakeCtrl, Loaded
<1>7. ASSUME ClearCtrl
      PROVE  CommandInv'
  BY <1>7 DEF ClearCtrl, Store
<1>8. ASSUME RefuseStart
      PROVE  CommandInv'
  BY <1>8 DEF RefuseStart, Served
<1>9. ASSUME Refused
      PROVE  CommandInv'
  BY <1>9 DEF Refused, Overwrite
<1>10. ASSUME AcceptStart
      PROVE  CommandInv'
  BY <1>10 DEF AcceptStart, Served
<1>11. ASSUME NameTest
      PROVE  CommandInv'
  BY <1>11 DEF NameTest
<1>12. ASSUME ServeStop
      PROVE  CommandInv'
  BY <1>12 DEF ServeStop, Stop, Cleared, Served
<1>13. ASSUME StartTest
      PROVE  CommandInv'
  BY <1>13 DEF StartTest, MayStart, ZeroCounts, StartTimer
<1>14. ASSUME OtherSession
      PROVE  CommandInv'
  BY <1>14 DEF OtherSession
<1>15. ASSUME NextExchange
      PROVE  CommandInv'
  BY <1>15 DEF NextExchange
<1>16. ASSUME Exchange
      PROVE  CommandInv'
  BY <1>16 DEF Exchange
<1>17. ASSUME LateStop
      PROVE  CommandInv'
  BY <1>17 DEF LateStop
<1>18. ASSUME AddTx
      PROVE  CommandInv'
  BY <1>18 DEF AddTx, CountReached, Cleared
<1>19. ASSUME Calc
      PROVE  CommandInv'
  BY <1>19 DEF Calc, EndTest, Overwrite
<1> QED
  BY <1>1, <1>2, <1>3, <1>4, <1>5, <1>6, <1>7, <1>8, <1>9, <1>10, <1>11,
     <1>12, <1>13, <1>14, <1>15, <1>16, <1>17, <1>18, <1>19
  DEF Next, Interrupt, Requests, Tasks

\* No step sets the flag of a test that runs.
LEMMA StopStep ==
  ASSUME TypeOK, PlaceInv, Next PROVE StopKept
<1> USE LinkTestAssumption
    DEF TypeOK, PlaceInv, StopKept, client, counts
<1>1. ASSUME WriteParam
      PROVE  StopKept
  BY <1>1 DEF WriteParam
<1>2. ASSUME NEW c \in Commands, WriteCtrl(c)
      PROVE  StopKept
  BY <1>2 DEF WriteCtrl
<1>3. ASSUME TimerFires
      PROVE  StopKept
  BY <1>3 DEF TimerFires, Cleared
<1>4. ASSUME BeginRequests
      PROVE  StopKept
  BY <1>4 DEF BeginRequests, Loaded
<1>5. ASSUME ParamsSeen
      PROVE  StopKept
  BY <1>5 DEF ParamsSeen, Store
<1>6. ASSUME TakeCtrl
      PROVE  StopKept
  BY <1>6 DEF TakeCtrl, Loaded
<1>7. ASSUME ClearCtrl
      PROVE  StopKept
  BY <1>7 DEF ClearCtrl, Store
<1>8. ASSUME RefuseStart
      PROVE  StopKept
  BY <1>8 DEF RefuseStart, Served
<1>9. ASSUME Refused
      PROVE  StopKept
  BY <1>9 DEF Refused, Overwrite
<1>10. ASSUME AcceptStart
      PROVE  StopKept
  BY <1>10 DEF AcceptStart, Served
<1>11. ASSUME NameTest
      PROVE  StopKept
  BY <1>11 DEF NameTest
<1>12. ASSUME ServeStop
      PROVE  StopKept
  BY <1>12 DEF ServeStop, Stop, Cleared, Served
<1>13. ASSUME StartTest
      PROVE  StopKept
  BY <1>13 DEF StartTest, MayStart, ZeroCounts, StartTimer
<1>14. ASSUME OtherSession
      PROVE  StopKept
  BY <1>14 DEF OtherSession
<1>15. ASSUME NextExchange
      PROVE  StopKept
  BY <1>15 DEF NextExchange
<1>16. ASSUME Exchange
      PROVE  StopKept
  BY <1>16 DEF Exchange
<1>17. ASSUME LateStop
      PROVE  StopKept
  BY <1>17 DEF LateStop
<1>18. ASSUME AddTx
      PROVE  StopKept
  BY <1>18 DEF AddTx, CountReached, Cleared
<1>19. ASSUME Calc
      PROVE  StopKept
  BY <1>19 DEF Calc, EndTest, Overwrite
<1> QED
  BY <1>1, <1>2, <1>3, <1>4, <1>5, <1>6, <1>7, <1>8, <1>9, <1>10, <1>11,
     <1>12, <1>13, <1>14, <1>15, <1>16, <1>17, <1>18, <1>19
  DEF Next, Interrupt, Requests, Tasks

Inv ==
  /\ TypeOK /\ PlaceInv /\ CountInv /\ EndInv /\ StoppedMayStart
  /\ CommandInv

\* The invariant holds from the start and through every step.
LEMMA Inductive == Spec => []Inv
<1> USE LinkTestAssumption
<1>1. Init => Inv
  BY DEF Init, Inv, TypeOK, PlaceInv, CountInv, EndInv, TestWillEnd,
         CutShortByMeddling, Counting, Timed, StoppedMayStart, CommandInv,
         CommandWaits, Controls
<1>2. Inv /\ [Next]_vars => Inv'
  <2> SUFFICES ASSUME Inv, [Next]_vars PROVE Inv'
    OBVIOUS
  <2>1. CASE Next
    BY <2>1, PlaceStep, CountStep, TypeStep, EndStep, NameStep, CommandStep
    DEF Inv
  <2>2. CASE UNCHANGED vars
    BY <2>2
    DEF vars, Inv, TypeOK, PlaceInv, CountInv, EndInv, TestWillEnd,
        CutShortByMeddling, Counting, Timed, StoppedMayStart, CommandInv,
        CommandWaits
  <2> QED BY <2>1, <2>2
<1> QED BY <1>1, <1>2, PTL DEF Spec

\* Every variable of the test and its commands keeps a value of its type.
THEOREM TypeCorrect == Spec => []TypeOK
BY Inductive, PTL DEF Inv

\* The loss rate is computed from at least one exchange and no more answers
\* than exchanges: a late stop reported as an exchange does not break it.
THEOREM RateIsAShare == Spec => []LossIsAShare
<1>1. Inv => LossIsAShare
  BY DEF Inv, TypeOK, PlaceInv, CountInv, LossIsAShare
<1> QED BY <1>1, Inductive, PTL

\* A test nobody stopped has a count before it or a timer that runs, unless the
\* client changed its parameters.
THEOREM TestsWillEnd == Spec => []TestWillEnd
<1>1. Inv => TestWillEnd
  BY DEF Inv, EndInv
<1> QED BY <1>1, Inductive, PTL

\* Only changing the parameters of a test leaves a timer that cuts another.
THEOREM StaleTimersAreMade == Spec => []CutShortByMeddling
<1>1. Inv => CutShortByMeddling
  BY DEF Inv, EndInv
<1> QED BY <1>1, Inductive, PTL

\* A device with no test holds no command of its own.
THEOREM TestsMayStart == Spec => []StoppedMayStart
BY Inductive, PTL DEF Inv

\* A command is lost in the two ways named only.
THEOREM CommandsWait == Spec => []CommandWaits
<1>1. Inv => CommandWaits
  BY DEF Inv, CommandInv
<1> QED BY <1>1, Inductive, PTL

\* A stop served during a test is not taken back.
THEOREM StopsStick == Spec => StopSticks
<1>1. Inv /\ [Next]_vars =>
        [StopKept]_vars
  BY StopStep DEF Inv
<1> QED BY <1>1, Inductive, PTL DEF Spec, StopSticks, StopKept
=============================================================================
