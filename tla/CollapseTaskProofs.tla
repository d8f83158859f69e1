-------------------------- MODULE CollapseTaskProofs --------------------------
(***************************************************************************)
(* Proofs about the collapse meter, for every depth of the FIFO and        *)
(* wherever interrupts fall.                                               *)
(***************************************************************************)
EXTENDS CollapseTask, TLAPS

\* The stretch of a turn in which no measurement is being made.
Between == {"loop", "read", "rearm", "erase", "status", "dispatch", "config"}

\* The inductive form of AwakeForAReason and HeldBackResumes.
Awake == pc \in Between /\ lpm = "RUN" => state = "ACTIVE"

HeldBack ==
  /\ GateReopens
  /\ pc \in Between /\ obj = "ACTIVE" => state = "ACTIVE" \/ "out" \in armed

\* What a step needs to be one of CollapseService: a measurement past its
\* entry has marked the task active, a periodic one has stored its sample, the
\* pin is configured in trigger mode and released in the periodic one, and
\* edges arrive at a configured pin only.
Promised ==
  /\ pc \in {"gate", "take"} => obj = "ACTIVE"
  /\ pc = "take" /\ mode = "PERIOD" => fifo > 0
  /\ mode = "PERIOD" => pin = "none"
  /\ mode = "TRIGGER" => pin # "none"
  /\ edge = "pending" => pin # "none"

(***************************************************************************)
(* The inductive form of Listens.  Attended says what clears the latch or  *)
(* enables the pin, in every mode: the latch of a motion outlives a visit  *)
(* to the periodic mode.                                                   *)
(***************************************************************************)
Attended ==
  \/ (latch = {} \/ pc = "status") /\ pin # "off"
  \/ edge = "pending" \/ "in" \in armed \/ evt # {}

Stages ==
  /\ edge = "pending" => pin = "on" /\ latch # {}
  /\ pc = "read" => evt # {}
  /\ pc = "rearm" => "motion" \in evt \/ pin # "off" \/ "in" \in armed
  /\ pc = "erase" => pin # "off" \/ "in" \in armed

\* What holds until an interrupt does harm.
Unharmed == struck = "no" => Attended /\ Stages

-----------------------------------------------------------------------------
(* Initial states.                                                         *)

LEMMA Capacity == Cap \in Nat /\ Cap > 0
BY CollapseAssumption

LEMMA InitType == Init => TypeOK
BY Capacity DEF Init, TypeOK, Modes, Locations, Sources

-----------------------------------------------------------------------------
(* Steps.                                                                  *)

\* Every step keeps the types.
LEMMA TypeStep == TypeOK /\ Next => TypeOK'
<1> SUFFICES ASSUME TypeOK, Next PROVE TypeOK'
  OBVIOUS
<1> USE Capacity DEF TypeOK, Modes, Locations, Sources, Strike, hw, task
<1>1. CASE Moves BY <1>1 DEF Moves, Latches
<1>2. CASE Fills BY <1>2 DEF Fills, Latches
<1>3. CASE PinIrq
  <2>1. latch' \subseteq Sources BY <1>3 DEF PinIrq, ReadStatus
  <2>2. evt' \subseteq Sources BY <1>3 DEF PinIrq
  <2>3. wait' \in {"yes", "no"} /\ state' \in {"IDLE", "ACTIVE"}
    BY <1>3 DEF PinIrq
  <2> QED BY <1>3, <2>1, <2>2, <2>3 DEF PinIrq
<1>4. CASE FifoOut BY <1>4 DEF FifoOut, Resume
<1>5. CASE FifoIn BY <1>5 DEF FifoIn, EnablePin
<1>6. CASE HandleEvt BY <1>6 DEF HandleEvt, Main
<1>7. CASE ReadFifo BY <1>7 DEF ReadFifo, Main, EnablePin
<1>8. CASE Rearm
  <2>1. fifo' \in 0..Cap BY <1>8 DEF Rearm, StoreAndPause, Stored
  <2>2. armed' \subseteq {"in", "out"} BY <1>8 DEF Rearm, StoreAndPause
  <2>3. pc' \in Locations BY <1>8 DEF Rearm, Main
  <2> QED BY <1>8, <2>1, <2>2, <2>3 DEF Rearm
<1>9. CASE Erase BY <1>9 DEF Erase, Main
<1>10. CASE ClearStatus BY <1>10 DEF ClearStatus, Main
<1>11. CASE Dispatch BY <1>11 DEF Dispatch, Main
<1>12. CASE Activate BY <1>12 DEF Activate, Main
<1>13. CASE GateShut BY <1>13 DEF GateShut, Main, Blocked
<1>14. CASE GateOpen BY <1>14 DEF GateOpen, Main, Blocked, Stored
<1>15. CASE Deliver
  <2>1. fifo' \in 0..Cap BY <1>15 DEF Deliver
  <2>2. armed' \subseteq {"in", "out"} BY <1>15 DEF Deliver
  <2>3. mtx' \in {"open", "shut"} /\ pc' \in Locations BY <1>15 DEF Deliver,
      Main
  <2> QED BY <1>15, <2>1, <2>2, <2>3 DEF Deliver
<1>16. CASE Empty BY <1>16 DEF Empty, Main, WaitForMotion
<1>17. CASE Finish BY <1>17 DEF Finish, Main, ToRest
<1>18. CASE TaskStart BY <1>18 DEF TaskStart, Main
<1>19. CASE SetPeriod BY <1>19 DEF SetPeriod, Main, KeepTimers
<1>20. CASE SetTrigger BY <1>20 DEF SetTrigger, Main
<1>21. CASE SetModeEnds BY <1>21 DEF SetModeEnds, Main
<1>22. CASE SetOther BY <1>22 DEF SetOther, Main
<1> QED BY <1>1, <1>2, <1>3, <1>4, <1>5, <1>6, <1>7, <1>8, <1>9, <1>10,
           <1>11, <1>12, <1>13, <1>14, <1>15, <1>16, <1>17, <1>18, <1>19,
           <1>20, <1>21, <1>22
         DEF Next, Interrupt, Handler

\* Only the start of the task wakes the processor, and the dispatch that takes
\* the measurement up leaves the stretch between measurements.
LEMMA AwakeStep == Awake /\ Next => Awake'
<1> SUFFICES ASSUME Awake, Next PROVE Awake'
  OBVIOUS
<1> USE DEF Awake, Between, hw, task
<1>1. CASE Moves BY <1>1 DEF Moves, Latches
<1>2. CASE Fills BY <1>2 DEF Fills, Latches
<1>3. CASE PinIrq BY <1>3 DEF PinIrq, ReadStatus
<1>4. CASE FifoOut BY <1>4 DEF FifoOut, Resume
<1>5. CASE FifoIn BY <1>5 DEF FifoIn, EnablePin
<1>6. CASE HandleEvt BY <1>6 DEF HandleEvt, Main
<1>7. CASE ReadFifo BY <1>7 DEF ReadFifo, Main, EnablePin
<1>8. CASE Rearm BY <1>8 DEF Rearm, Main, StoreAndPause, Stored
<1>9. CASE Erase BY <1>9 DEF Erase, Main
<1>10. CASE ClearStatus BY <1>10 DEF ClearStatus, Main
<1>11. CASE Dispatch BY <1>11 DEF Dispatch, Main
<1>12. CASE Activate BY <1>12 DEF Activate, Main
<1>13. CASE GateShut BY <1>13 DEF GateShut, Main, Blocked
<1>14. CASE GateOpen BY <1>14 DEF GateOpen, Main, Blocked, Stored
<1>15. CASE Deliver BY <1>15 DEF Deliver, Main
<1>16. CASE Empty BY <1>16 DEF Empty, Main, WaitForMotion
<1>17. CASE Finish BY <1>17 DEF Finish, Main, ToRest
<1>18. CASE TaskStart BY <1>18 DEF TaskStart, Main
<1>19. CASE SetPeriod BY <1>19 DEF SetPeriod, Main, KeepTimers
<1>20. CASE SetTrigger BY <1>20 DEF SetTrigger, Main
<1>21. CASE SetModeEnds BY <1>21 DEF SetModeEnds, Main
<1>22. CASE SetOther BY <1>22 DEF SetOther, Main
<1> QED BY <1>1, <1>2, <1>3, <1>4, <1>5, <1>6, <1>7, <1>8, <1>9, <1>10,
           <1>11, <1>12, <1>13, <1>14, <1>15, <1>16, <1>17, <1>18, <1>19,
           <1>20, <1>21, <1>22
         DEF Next, Interrupt, Handler

\* The gate and its timer are closed and started together; opening it resumes.
LEMMA HeldBackStep == HeldBack /\ Next => HeldBack'
<1> SUFFICES ASSUME HeldBack, Next PROVE HeldBack'
  OBVIOUS
<1> USE DEF HeldBack, GateReopens, Between, hw, task
<1>1. CASE Moves BY <1>1 DEF Moves, Latches
<1>2. CASE Fills BY <1>2 DEF Fills, Latches
<1>3. CASE PinIrq BY <1>3 DEF PinIrq, ReadStatus
<1>4. CASE FifoOut BY <1>4 DEF FifoOut, Resume
<1>5. CASE FifoIn BY <1>5 DEF FifoIn, EnablePin
<1>6. CASE HandleEvt BY <1>6 DEF HandleEvt, Main
<1>7. CASE ReadFifo BY <1>7 DEF ReadFifo, Main, EnablePin
<1>8. CASE Rearm BY <1>8 DEF Rearm, Main, StoreAndPause, Stored
<1>9. CASE Erase BY <1>9 DEF Erase, Main
<1>10. CASE ClearStatus BY <1>10 DEF ClearStatus, Main
<1>11. CASE Dispatch BY <1>11 DEF Dispatch, Main
<1>12. CASE Activate BY <1>12 DEF Activate, Main
<1>13. CASE GateShut BY <1>13 DEF GateShut, Main, Blocked
<1>14. CASE GateOpen BY <1>14 DEF GateOpen, Main, Blocked, Stored
<1>15. CASE Deliver BY <1>15 DEF Deliver, Main
<1>16. CASE Empty BY <1>16 DEF Empty, Main, WaitForMotion
<1>17. CASE Finish BY <1>17 DEF Finish, Main, ToRest
<1>18. CASE TaskStart BY <1>18 DEF TaskStart, Main
<1>19. CASE SetPeriod BY <1>19 DEF SetPeriod, Main, KeepTimers
<1>20. CASE SetTrigger BY <1>20 DEF SetTrigger, Main
<1>21. CASE SetModeEnds BY <1>21 DEF SetModeEnds, Main
<1>22. CASE SetOther BY <1>22 DEF SetOther, Main
<1> QED BY <1>1, <1>2, <1>3, <1>4, <1>5, <1>6, <1>7, <1>8, <1>9, <1>10,
           <1>11, <1>12, <1>13, <1>14, <1>15, <1>16, <1>17, <1>18, <1>19,
           <1>20, <1>21, <1>22
         DEF Next, Interrupt, Handler

\* The periodic mode gives the pin up, a value that is no mode leaves it; the
\* gate opens after the sample of the periodic mode is stored.
LEMMA PromisedStep == TypeOK /\ Promised /\ Next => Promised'
<1> SUFFICES ASSUME TypeOK, Promised, Next PROVE Promised'
  OBVIOUS
<1> USE DEF TypeOK, Modes, Locations, Sources, Promised, hw, task
<1>1. CASE Moves BY <1>1 DEF Moves, Latches
<1>2. CASE Fills BY <1>2 DEF Fills, Latches
<1>3. CASE PinIrq BY <1>3 DEF PinIrq, ReadStatus
<1>4. CASE FifoOut BY <1>4 DEF FifoOut, Resume
<1>5. CASE FifoIn BY <1>5 DEF FifoIn, EnablePin
<1>6. CASE HandleEvt BY <1>6 DEF HandleEvt, Main
<1>7. CASE ReadFifo BY <1>7 DEF ReadFifo, Main, EnablePin
<1>8. CASE Rearm BY <1>8 DEF Rearm, Main, StoreAndPause, Stored
<1>9. CASE Erase BY <1>9 DEF Erase, Main
<1>10. CASE ClearStatus BY <1>10 DEF ClearStatus, Main
<1>11. CASE Dispatch BY <1>11 DEF Dispatch, Main
<1>12. CASE Activate BY <1>12 DEF Activate, Main
<1>13. CASE GateShut BY <1>13 DEF GateShut, Main, Blocked
<1>14. CASE GateOpen BY <1>14, Capacity DEF GateOpen, Main, Blocked, Stored
<1>15. CASE Deliver BY <1>15 DEF Deliver, Main
<1>16. CASE Empty BY <1>16 DEF Empty, Main, WaitForMotion
<1>17. CASE Finish BY <1>17 DEF Finish, Main, ToRest
<1>18. CASE TaskStart BY <1>18 DEF TaskStart, Main
<1>19. CASE SetPeriod BY <1>19 DEF SetPeriod, Main, KeepTimers
<1>20. CASE SetTrigger BY <1>20 DEF SetTrigger, Main
<1>21. CASE SetModeEnds BY <1>21 DEF SetModeEnds, Main
<1>22. CASE SetOther BY <1>22 DEF SetOther, Main
<1> QED BY <1>1, <1>2, <1>3, <1>4, <1>5, <1>6, <1>7, <1>8, <1>9, <1>10,
           <1>11, <1>12, <1>13, <1>14, <1>15, <1>16, <1>17, <1>18, <1>19,
           <1>20, <1>21, <1>22
         DEF Next, Interrupt, Handler

\* Without harm an event is not erased unseen and the latch is not left set.
LEMMA UnharmedStep ==
  TypeOK /\ Promised /\ Unharmed /\ Next => Unharmed'
<1> SUFFICES ASSUME TypeOK, Promised, Unharmed, Next PROVE Unharmed'
  OBVIOUS
<1> USE DEF TypeOK, Modes, Locations, Sources, Promised, Unharmed, Stages,
            Attended, OnBus, Overlooks, Strike, hw, task
<1>1. CASE Moves BY <1>1 DEF Moves, Latches
<1>2. CASE Fills BY <1>2 DEF Fills, Latches
<1>3. CASE PinIrq
  <2>1. pin' = "off" /\ pc' = pc /\ mode' = mode /\ armed' = armed
    BY <1>3 DEF PinIrq
  <2>2. CASE OnBus \/ Overlooks
    BY <1>3, <2>1, <2>2 DEF PinIrq
  <2>3. CASE ~OnBus /\ ~Overlooks
    <3>1. evt' = latch /\ struck' = struck /\ edge' = "none"
      BY <1>3, <2>3 DEF PinIrq, ReadStatus
    <3>2. edge = "pending"
      BY <1>3 DEF PinIrq
    <3>3. ASSUME pc = "rearm", latch # {} PROVE "motion" \in latch
      BY <2>3, <3>3
    <3> QED BY <2>1, <2>3, <3>1, <3>2, <3>3
  <2> QED BY <2>2, <2>3
<1>4. CASE FifoOut BY <1>4 DEF FifoOut, Resume
<1>5. CASE FifoIn BY <1>5 DEF FifoIn, EnablePin
<1>6. CASE HandleEvt BY <1>6 DEF HandleEvt, Main
<1>7. CASE ReadFifo BY <1>7 DEF ReadFifo, Main, EnablePin
<1>8. CASE Rearm BY <1>8 DEF Rearm, Main, StoreAndPause, Stored
<1>9. CASE Erase BY <1>9 DEF Erase, Main
<1>10. CASE ClearStatus BY <1>10 DEF ClearStatus, Main
<1>11. CASE Dispatch BY <1>11 DEF Dispatch, Main
<1>12. CASE Activate BY <1>12 DEF Activate, Main
<1>13. CASE GateShut BY <1>13 DEF GateShut, Main, Blocked
<1>14. CASE GateOpen BY <1>14 DEF GateOpen, Main, Blocked, Stored
<1>15. CASE Deliver BY <1>15 DEF Deliver, Main
<1>16. CASE Empty BY <1>16 DEF Empty, Main, WaitForMotion
<1>17. CASE Finish BY <1>17 DEF Finish, Main, ToRest
<1>18. CASE TaskStart BY <1>18 DEF TaskStart, Main
<1>19. CASE SetPeriod BY <1>19 DEF SetPeriod, Main, KeepTimers
<1>20. CASE SetTrigger BY <1>20 DEF SetTrigger, Main
<1>21. CASE SetModeEnds BY <1>21 DEF SetModeEnds, Main
<1>22. CASE SetOther BY <1>22 DEF SetOther, Main
<1> QED BY <1>1, <1>2, <1>3, <1>4, <1>5, <1>6, <1>7, <1>8, <1>9, <1>10,
           <1>11, <1>12, <1>13, <1>14, <1>15, <1>16, <1>17, <1>18, <1>19,
           <1>20, <1>21, <1>22
         DEF Next, Interrupt, Handler

\* The initial states are initial states of the service.
LEMMA ServiceInit == Init => Service!Init
BY DEF Init, Modes, Service!Init, Work, TakenUp, Spaced, Ears, Report

\* Every step of the task is a step of the service, or none.
LEMMA ServiceStep ==
  TypeOK /\ Promised /\ Next =>
    Service!Next \/ UNCHANGED <<mode, Ears, wait, Work, Spaced, Report>>
<1> SUFFICES ASSUME TypeOK, Promised, Next,
                    ~UNCHANGED <<mode, Ears, wait, Work, Spaced, Report>>
             PROVE  Service!Next
  OBVIOUS
<1> USE DEF TypeOK, Modes, Locations, Sources, Promised, Work, TakenUp, Spaced,
            Ears, Report, hw, task
<1>1. CASE Moves BY <1>1 DEF Moves, Latches
<1>2. CASE Fills BY <1>2 DEF Fills, Latches
<1>3. CASE PinIrq
  <2>1. wait = "yes" /\ wait' = "no" /\ state' = "ACTIVE" /\ obj = "IDLE"
    BY <1>3 DEF PinIrq
  <2>2. Work' \in {Service!More} \cup ({Work} \ {"none"})
    BY <1>3, <2>1 DEF PinIrq, Service!More
  <2>3. Service!Motion
    BY <1>3, <2>1, <2>2 DEF PinIrq, Service!Motion
  <2> QED BY <2>3 DEF Service!Next
<1>4. CASE FifoOut
  <2>1. Spaced = "yes" /\ Spaced' = "no"
    BY <1>4 DEF FifoOut
  <2>2. Work' = Work \/ (Work # "two" /\ Work' = Service!More)
    BY <1>4 DEF FifoOut, Resume, Service!More
  <2>3. Service!Expire \/ Service!Double
    BY <1>4, <2>1, <2>2 DEF FifoOut, Service!Expire, Service!Double
  <2> QED BY <2>3 DEF Service!Next
<1>5. CASE FifoIn BY <1>5 DEF FifoIn, EnablePin
<1>6. CASE HandleEvt BY <1>6 DEF HandleEvt, Main
<1>7. CASE ReadFifo BY <1>7 DEF ReadFifo, Main, EnablePin
<1>8. CASE Rearm BY <1>8 DEF Rearm, Main, StoreAndPause, Stored
<1>9. CASE Erase BY <1>9 DEF Erase, Main
<1>10. CASE ClearStatus BY <1>10 DEF ClearStatus, Main
<1>11. CASE Dispatch BY <1>11 DEF Dispatch, Main
<1>12. CASE Activate BY <1>12 DEF Activate, Main
<1>13. CASE GateShut
  <2>1. Service!Merge
    BY <1>13 DEF GateShut, Main, Blocked, Service!Merge
  <2> QED BY <2>1 DEF Service!Next
<1>14. CASE GateOpen BY <1>14 DEF GateOpen, Main, Blocked, Stored
<1>15. CASE Deliver
  <2>1. Work # "none" /\ Work' = Service!Fewer
    BY <1>15 DEF Deliver, Main, Service!Fewer
  <2>2. Spaced' = IF mode = "TRIGGER" THEN "yes" ELSE Spaced
    BY <1>15 DEF Deliver
  <2>3. Report = "NONE" /\ Report' = "SAMPLE" /\ Ears' = Ears
    BY <1>15 DEF Deliver, Main
  <2>4. Service!Measured
    BY <1>15, <2>1, <2>2, <2>3 DEF Deliver, Service!Measured
  <2> QED BY <2>4 DEF Service!Next
<1>16. CASE Empty
  <2>1. mode # "PERIOD" /\ Report = "NONE" /\ Report' = "EMPTY"
    BY <1>16 DEF Empty, Main
  <2>2. Work # "none" /\ Work' = Service!Fewer
    BY <1>16 DEF Empty, Main, Service!Fewer
  <2>3. Service!Empty
    BY <1>16, <2>1, <2>2 DEF Empty, WaitForMotion, Service!Empty
  <2> QED BY <2>3 DEF Service!Next
<1>17. CASE Finish
  <2>1. Service!Rest
    BY <1>17 DEF Finish, Main, ToRest, Service!Rest
  <2> QED BY <2>1 DEF Service!Next
<1>18. CASE TaskStart
  <2>1. Service!Start
    BY <1>18 DEF TaskStart, Main, Service!Start
  <2> QED BY <2>1 DEF Service!Next
<1>19. CASE SetPeriod
  <2>1. Service!SetMode
    BY <1>19 DEF SetPeriod, Main, KeepTimers, Service!SetMode
  <2> QED BY <2>1 DEF Service!Next
<1>20. CASE SetTrigger
  <2>1. mode # "TRIGGER"
    BY <1>20 DEF SetTrigger, Main
  <2>2. Service!SetMode
    BY <1>20, <2>1 DEF SetTrigger, Main, Service!SetMode
  <2> QED BY <2>2 DEF Service!Next
<1>21. CASE SetModeEnds BY <1>21 DEF SetModeEnds, Main
<1>22. CASE SetOther
  <2>1. /\ mode # "OTHER" /\ mode' = "OTHER" /\ Ears' = Ears /\ wait' = wait
        /\ Spaced' = Spaced /\ Report' = Report
    BY <1>22 DEF SetOther, Main
  <2>2. Work' = Work
    BY <1>22 DEF SetOther, Main
  <2>3. Service!SetMode
    BY <2>1, <2>2 DEF Service!SetMode
  <2> QED BY <2>3 DEF Service!Next
<1> QED BY <1>1, <1>2, <1>3, <1>4, <1>5, <1>6, <1>7, <1>8, <1>9, <1>10,
           <1>11, <1>12, <1>13, <1>14, <1>15, <1>16, <1>17, <1>18, <1>19,
           <1>20, <1>21, <1>22
         DEF Next, Interrupt, Handler

-----------------------------------------------------------------------------
(* The theorems.                                                           *)

\* Every variable of the task keeps a value of its type.
THEOREM TypeCorrect == Spec => []TypeOK
<1>1. TypeOK /\ UNCHANGED vars => TypeOK'
  BY DEF TypeOK, vars
<1> QED BY <1>1, InitType, TypeStep, PTL DEF Spec

\* Between two turns of the main loop the processor is kept awake only for a
\* measurement, wherever interrupts fall.
THEOREM WakesForMeasuring == Spec => []AwakeForAReason
<1>1. Init => Awake
  BY DEF Init, Awake, Between
<1>2. Awake /\ UNCHANGED vars => Awake'
  BY DEF Awake, Between, vars
<1>3. Awake => AwakeForAReason
  BY DEF Awake, AwakeForAReason, Between
<1> QED BY <1>1, <1>2, <1>3, AwakeStep, PTL DEF Spec

\* A shut gate has its timer running, through every change of mode.
THEOREM GateIsTimed == Spec => []GateReopens
<1>1. Init => HeldBack
  BY DEF Init, HeldBack, GateReopens, Between
<1>2. HeldBack /\ UNCHANGED vars => HeldBack'
  BY DEF HeldBack, GateReopens, Between, vars
<1>3. HeldBack => GateReopens
  BY DEF HeldBack
<1> QED BY <1>1, <1>2, <1>3, HeldBackStep, PTL DEF Spec

\* A measurement the gate holds back is resumed, wherever interrupts fall.
THEOREM HeldBackIsResumed == Spec => []HeldBackResumes
<1>1. Init => HeldBack
  BY DEF Init, HeldBack, GateReopens, Between
<1>2. HeldBack /\ UNCHANGED vars => HeldBack'
  BY DEF HeldBack, GateReopens, Between, vars
<1>3. HeldBack => HeldBackResumes
  BY DEF HeldBack, HeldBackResumes, Between
<1> QED BY <1>1, <1>2, <1>3, HeldBackStep, PTL DEF Spec

\* The task keeps the promise of CollapseService, wherever interrupts fall: no
\* measurement is forgotten, and none is started but by the scheduler, a motion
\* that was waited for and the timer between samples.
THEOREM ServiceIsKept == Spec => KeepsService
<1>1. Init => Promised
  BY DEF Init, Promised
<1>2. Promised /\ UNCHANGED vars => Promised'
  BY DEF Promised, vars
<1>3. UNCHANGED vars => UNCHANGED <<mode, Ears, wait, Work, Spaced, Report>>
  BY DEF vars, Work, TakenUp, Spaced, Ears, Report
<1> QED BY <1>1, <1>2, <1>3, PromisedStep, ServiceInit, ServiceStep,
           TypeCorrect, PTL
         DEF Spec, KeepsService, Service!Spec

\* A device whose sensor is set to trigger goes deaf to motion in the four ways
\* Strike names and in no other, however often the mode is changed and wherever
\* interrupts fall; setting the mode anew with nothing latched heals it.
THEOREM NeverDeaf == Spec => []Listens
<1>1. Init => Promised /\ Unharmed
  BY DEF Init, Promised, Unharmed, Stages, Attended
<1>2. Promised /\ UNCHANGED vars => Promised'
  BY DEF Promised, vars
<1>3. Unharmed /\ UNCHANGED vars => Unharmed'
  BY DEF Unharmed, Stages, Attended, vars
<1>4. TypeOK /\ Promised /\ Unharmed => Listens
  BY DEF TypeOK, Promised, Unharmed, Attended, Listens
<1> QED BY <1>1, <1>2, <1>3, <1>4, PromisedStep, UnharmedStep, TypeCorrect, PTL
        DEF Spec
=============================================================================
