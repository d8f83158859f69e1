--------------------------- MODULE LoraTaskProofs ---------------------------
(***************************************************************************)
(* Proofs about the LoRa transmission task, for every retry limit, every   *)
(* counter bound and both kinds of link.                                   *)
(***************************************************************************)
EXTENDS LoraTask, TLAPS

-----------------------------------------------------------------------------
(* Types.                                                                  *)

LEMMA CapNat == FailCap \in Nat \ {0}
BY LoraAssumption

LEMMA InitType == Init => TypeOK
BY CapNat
   DEF Init, TypeOK, Commands, Links, Reports, Frames, Locations

\* Every interrupt handler keeps the types.
LEMMA InterruptType == TypeOK /\ Interrupt => TypeOK'
<1> SUFFICES ASSUME TypeOK, Interrupt PROVE TypeOK'
  OBVIOUS
<1> USE DEF TypeOK, Commands, Frames
<1>1. CASE SliceFires BY <1>1 DEF SliceFires, Post
<1>2. CASE TxTimeoutFires BY <1>2 DEF TxTimeoutFires, Post
<1>3. CASE IdleFires BY <1>3 DEF IdleFires, Post
<1>4. CASE SignalIrq BY <1>4 DEF SignalIrq
<1>5. ASSUME NEW f \in Frames, RadioIrq(f) PROVE TypeOK'
  BY <1>5 DEF RadioIrq, Store
<1> QED BY <1>1, <1>2, <1>3, <1>4, <1>5 DEF Interrupt

\* Every request of another task keeps the types.
LEMMA RequestType == TypeOK /\ Request => TypeOK'
BY DEF TypeOK, Request, Start, LlrtRequest, ResetBegin, Commands,
       Locations

\* Every step of the main loop keeps the types.
LEMMA MainType == TypeOK /\ MainStep => TypeOK'
<1> SUFFICES ASSUME TypeOK, MainStep PROVE TypeOK'
  OBVIOUS
<1> USE DEF TypeOK, Commands, Links, Reports, Frames, Locations
<1>1. CASE Dispatch BY <1>1 DEF Dispatch, Handler
<1>2. CASE ActiveBegin
  <2>1. armed' \subseteq {"slice", "reply", "backoff"} BY <1>2 DEF ActiveBegin
  <2> QED BY <1>2, <2>1 DEF ActiveBegin
<1>3. CASE Transmit
  <2>1. armed' \subseteq {"slice", "reply", "backoff"}
    BY <1>3 DEF Transmit, CadBusy, TxError, TxOk
  <2> QED BY <1>3, <2>1 DEF Transmit, CadBusy, TxError, TxOk
<1>4. CASE DoubleInit BY <1>4 DEF DoubleInit
<1>5. CASE SuccessBegin BY <1>5 DEF SuccessBegin
<1>6. CASE ParseFails BY <1>6 DEF ParseFails
<1>7. CASE ParseAccepts
  <2>1. fails' \in 0..FailCap BY <1>7, CapNat DEF ParseAccepts
  <2>2. armed' \subseteq {"slice", "reply", "backoff"} BY <1>7 DEF ParseAccepts
  <2>3. cmd' \in Commands /\ obj' \in {"IDLE", "ACTIVE"} /\ pc' \in Locations
    BY <1>7 DEF ParseAccepts
  <2>4. conn' \in Links /\ out' \in Reports /\ lpm' \in {"RUN", "LP", "STOP"}
    BY <1>7 DEF ParseAccepts
  <2> QED BY <1>7, <2>1, <2>2, <2>3, <2>4 DEF ParseAccepts
<1>8. CASE FailBegin BY <1>8, CapNat DEF FailBegin, CountFailure
<1>9. CASE GiveUp BY <1>9 DEF GiveUp
<1>10. CASE BackOff BY <1>10 DEF BackOff, SleepUntilRetry
<1>11. CASE StopBegin BY <1>11 DEF StopBegin
<1>12. CASE StopEnd BY <1>12, CapNat DEF StopEnd, Disconnect, AllTimersOff, Verdict
<1>13. CASE ResetForget BY <1>13, CapNat DEF ResetForget
<1>14. CASE ResetEnd BY <1>14 DEF ResetEnd, AllTimersOff
<1>15. CASE Report BY <1>15 DEF Report
<1>16. CASE Reboot BY <1>16, CapNat DEF Reboot, AllTimersOff
<1> QED BY <1>1, <1>2, <1>3, <1>4, <1>5, <1>6, <1>7, <1>8, <1>9, <1>10,
           <1>11, <1>12, <1>13, <1>14, <1>15, <1>16 DEF MainStep

\* Every variable of the task keeps a value of its type, in every behaviour.
THEOREM TypeCorrect == Spec => []TypeOK
<1>1. TypeOK /\ [Next]_vars => TypeOK'
  <2> SUFFICES ASSUME TypeOK, [Next]_vars PROVE TypeOK'
    OBVIOUS
  <2>1. CASE Next BY <2>1, InterruptType, RequestType, MainType DEF Next
  <2>2. CASE UNCHANGED vars
    BY <2>2 DEF vars, TypeOK
  <2> QED BY <2>1, <2>2
<1> QED BY <1>1, InitType, PTL DEF Spec

-----------------------------------------------------------------------------
(***************************************************************************)
(* The inductive invariant, in parts.  Quiet is about the radio and the    *)
(* timers when no session is open, Wakeful about the low-power table,      *)
(* Answered about a session that got its reply.                            *)
(***************************************************************************)
Quiet ==
  /\ obj = "IDLE" /\ pc # "unwind" =>
       radio = "off" /\ armed \subseteq {"backoff"}
  /\ pc \in {"transmit", "fault"} => obj = "ACTIVE"
  /\ pc = "parse" => radio = "off" /\ "reply" \notin armed
  /\ pc \in {"unwind", "report"} => obj = "IDLE"

Wakeful ==
  /\ pc = "loop" /\ cmd = "IDLE" /\ lpm = "RUN" => "reply" \in armed
  /\ pc = "loop" /\ cmd = "IDLE" /\ lpm = "LP" => "backoff" \in armed
  /\ obj = "ACTIVE" => lpm # "STOP"
  /\ pc = "report" => lpm = "STOP"
  /\ pc = "transmit" => lpm = "RUN"

Answered ==
  /\ pc = "parse" => cmd \notin {"TX_FAIL", "TX_SUCCESS"}
  /\ answer = "got" =>
       /\ fails = 0 /\ cmd \notin {"TX_FAIL", "TX_SUCCESS"}
       /\ radio = "off" /\ "reply" \notin armed
       /\ pc \notin {"transmit", "fault", "success", "parse", "fail", "backoff"}
       /\ obj = "ACTIVE" => pc # "active" /\ (pc = "loop" => cmd = "STOP")

Counted ==
  /\ pc = "backoff" => answer # "awaits"
  /\ obj = "ACTIVE" =>
       /\ answer = "failed" => fails > 0
       /\ cmd = "STOP" \/ pc \in {"stop", "halt"} => answer # "awaits"
\* Every way out of a session passes a handler that unconfigures the radio.
LEMMA QuietStep == TypeOK /\ Quiet /\ Next => Quiet'
<1> SUFFICES ASSUME TypeOK, Quiet, Next PROVE Quiet'
  OBVIOUS
<1> USE DEF TypeOK, Commands, Quiet
<1>1. CASE SliceFires BY <1>1 DEF SliceFires, Post
<1>2. CASE TxTimeoutFires BY <1>2 DEF TxTimeoutFires, Post
<1>3. CASE IdleFires BY <1>3 DEF IdleFires, Post
<1>4. CASE SignalIrq BY <1>4 DEF SignalIrq
<1>5. ASSUME NEW f \in Frames, RadioIrq(f) PROVE Quiet'
  BY <1>5 DEF RadioIrq, Store, Frames
<1>6. CASE Start BY <1>6 DEF Start
<1>7. CASE LlrtRequest BY <1>7 DEF LlrtRequest
<1>8. CASE ResetBegin BY <1>8 DEF ResetBegin
<1>9. CASE Dispatch BY <1>9 DEF Dispatch, Handler
<1>10. CASE ActiveBegin BY <1>10 DEF ActiveBegin
<1>11. CASE Transmit BY <1>11 DEF Transmit, CadBusy, TxError, TxOk
<1>12. CASE DoubleInit BY <1>12 DEF DoubleInit
<1>13. CASE SuccessBegin BY <1>13 DEF SuccessBegin
<1>14. CASE ParseFails BY <1>14 DEF ParseFails
<1>15. CASE ParseAccepts BY <1>15 DEF ParseAccepts
<1>16. CASE FailBegin BY <1>16 DEF FailBegin, CountFailure
<1>17. CASE GiveUp BY <1>17 DEF GiveUp
<1>18. CASE BackOff BY <1>18 DEF BackOff, SleepUntilRetry
<1>19. CASE StopBegin BY <1>19 DEF StopBegin
<1>20. CASE StopEnd BY <1>20 DEF StopEnd, Disconnect, AllTimersOff
<1>21. CASE ResetForget BY <1>21 DEF ResetForget
<1>22. CASE ResetEnd BY <1>22 DEF ResetEnd, AllTimersOff
<1>23. CASE Report BY <1>23 DEF Report
<1>24. CASE Reboot BY <1>24 DEF Reboot, AllTimersOff
<1> QED BY <1>1, <1>2, <1>3, <1>4, <1>5, <1>6, <1>7, <1>8, <1>9, <1>10, <1>11,
           <1>12, <1>13, <1>14, <1>15, <1>16, <1>17, <1>18, <1>19, <1>20,
           <1>21, <1>22, <1>23, <1>24 DEF Next, Interrupt, Request, MainStep

\* Every state the low-power table is left in has its wake-up.
LEMMA WakefulStep == TypeOK /\ Quiet /\ Wakeful /\ Next => Wakeful'
<1> SUFFICES ASSUME TypeOK, Quiet, Wakeful, Next PROVE Wakeful'
  OBVIOUS
<1> USE DEF TypeOK, Commands, Wakeful
<1>1. CASE SliceFires BY <1>1 DEF SliceFires, Post
<1>2. CASE TxTimeoutFires BY <1>2 DEF TxTimeoutFires, Post
<1>3. CASE IdleFires BY <1>3 DEF IdleFires, Post
<1>4. CASE SignalIrq BY <1>4 DEF SignalIrq
<1>5. ASSUME NEW f \in Frames, RadioIrq(f) PROVE Wakeful'
  BY <1>5 DEF RadioIrq, Store, Frames
<1>6. CASE Start BY <1>6 DEF Start
<1>7. CASE LlrtRequest BY <1>7 DEF LlrtRequest
<1>8. CASE ResetBegin BY <1>8 DEF ResetBegin
<1>9. CASE Dispatch BY <1>9 DEF Dispatch, Handler
<1>10. CASE ActiveBegin BY <1>10 DEF ActiveBegin
<1>11. CASE Transmit BY <1>11 DEF Transmit, CadBusy, TxError, TxOk
<1>12. CASE DoubleInit BY <1>12 DEF DoubleInit
<1>13. CASE SuccessBegin BY <1>13 DEF SuccessBegin
<1>14. CASE ParseFails BY <1>14 DEF ParseFails
<1>15. CASE ParseAccepts BY <1>15 DEF ParseAccepts
<1>16. CASE FailBegin BY <1>16 DEF FailBegin, CountFailure
<1>17. CASE GiveUp BY <1>17 DEF GiveUp
<1>18. CASE BackOff BY <1>18 DEF BackOff, SleepUntilRetry
<1>19. CASE StopBegin BY <1>19 DEF StopBegin
<1>20. CASE StopEnd BY <1>20 DEF StopEnd, Disconnect, AllTimersOff
<1>21. CASE ResetForget BY <1>21 DEF ResetForget
<1>22. CASE ResetEnd BY <1>22 DEF ResetEnd, Quiet
<1>23. CASE Report BY <1>23 DEF Report
<1>24. CASE Reboot BY <1>24 DEF Reboot, AllTimersOff
<1> QED BY <1>1, <1>2, <1>3, <1>4, <1>5, <1>6, <1>7, <1>8, <1>9, <1>10, <1>11,
           <1>12, <1>13, <1>14, <1>15, <1>16, <1>17, <1>18, <1>19, <1>20,
           <1>21, <1>22, <1>23, <1>24 DEF Next, Interrupt, Request, MainStep

\* Once a reply is accepted nothing of the session can count a failure.
LEMMA AnsweredStep == TypeOK /\ Quiet /\ Answered /\ Next => Answered'
<1> SUFFICES ASSUME TypeOK, Quiet, Answered, Next PROVE Answered'
  OBVIOUS
<1> USE DEF TypeOK, Commands, Quiet, Answered
<1>1. CASE SliceFires BY <1>1 DEF SliceFires, Post
<1>2. CASE TxTimeoutFires BY <1>2 DEF TxTimeoutFires, Post
<1>3. CASE IdleFires BY <1>3 DEF IdleFires, Post
<1>4. CASE SignalIrq BY <1>4 DEF SignalIrq
<1>5. ASSUME NEW f \in Frames, RadioIrq(f) PROVE Answered'
  BY <1>5 DEF RadioIrq, Store, Frames
<1>6. CASE Start BY <1>6 DEF Start
<1>7. CASE LlrtRequest BY <1>7 DEF LlrtRequest
<1>8. CASE ResetBegin BY <1>8 DEF ResetBegin
<1>9. CASE Dispatch BY <1>9 DEF Dispatch, Handler
<1>10. CASE ActiveBegin BY <1>10 DEF ActiveBegin
<1>11. CASE Transmit BY <1>11 DEF Transmit, CadBusy, TxError, TxOk
<1>12. CASE DoubleInit BY <1>12 DEF DoubleInit
<1>13. CASE SuccessBegin BY <1>13 DEF SuccessBegin
<1>14. CASE ParseFails BY <1>14 DEF ParseFails
<1>15. CASE ParseAccepts BY <1>15, CapNat DEF ParseAccepts
<1>16. CASE FailBegin BY <1>16, CapNat DEF FailBegin, CountFailure
<1>17. CASE GiveUp BY <1>17 DEF GiveUp
<1>18. CASE BackOff BY <1>18 DEF BackOff, SleepUntilRetry
<1>19. CASE StopBegin BY <1>19 DEF StopBegin
<1>20. CASE StopEnd BY <1>20 DEF StopEnd, Disconnect, AllTimersOff
<1>21. CASE ResetForget BY <1>21 DEF ResetForget
<1>22. CASE ResetEnd
  <2>1. obj' = "IDLE" /\ pc' = "report" BY <1>22 DEF ResetEnd
  <2>2. radio' = "off" /\ "reply" \notin armed' BY <1>22 DEF ResetEnd,
      AllTimersOff
  <2> QED BY <1>22, <2>1, <2>2 DEF ResetEnd
<1>23. CASE Report BY <1>23 DEF Report
<1>24. CASE Reboot BY <1>24 DEF Reboot, AllTimersOff
<1> QED BY <1>1, <1>2, <1>3, <1>4, <1>5, <1>6, <1>7, <1>8, <1>9, <1>10, <1>11,
           <1>12, <1>13, <1>14, <1>15, <1>16, <1>17, <1>18, <1>19, <1>20,
           <1>21, <1>22, <1>23, <1>24 DEF Next, Interrupt, Request, MainStep

\* When one reply resolves within the slice, STOP follows a counted failure or an
\* accepted reply.
LEMMA CountedStep == ~SlowLink /\ TypeOK /\ Quiet /\ Counted /\ Next => Counted'
<1> SUFFICES ASSUME ~SlowLink, TypeOK, Quiet, Counted, Next PROVE Counted'
  OBVIOUS
<1> USE DEF TypeOK, Commands, Quiet, Counted
<1>1. CASE SliceFires BY <1>1 DEF SliceFires, Post
<1>2. CASE TxTimeoutFires BY <1>2 DEF TxTimeoutFires, Post
<1>3. CASE IdleFires BY <1>3 DEF IdleFires, Post
<1>4. CASE SignalIrq BY <1>4 DEF SignalIrq
<1>5. ASSUME NEW f \in Frames, RadioIrq(f) PROVE Counted'
  BY <1>5 DEF RadioIrq, Store, Frames
<1>6. CASE Start BY <1>6 DEF Start
<1>7. CASE LlrtRequest BY <1>7 DEF LlrtRequest
<1>8. CASE ResetBegin BY <1>8 DEF ResetBegin
<1>9. CASE Dispatch BY <1>9 DEF Dispatch, Handler
<1>10. CASE ActiveBegin BY <1>10 DEF ActiveBegin
<1>11. CASE Transmit BY <1>11 DEF Transmit, CadBusy, TxError, TxOk
<1>12. CASE DoubleInit BY <1>12 DEF DoubleInit
<1>13. CASE SuccessBegin BY <1>13 DEF SuccessBegin
<1>14. CASE ParseFails BY <1>14 DEF ParseFails
<1>15. CASE ParseAccepts BY <1>15, CapNat DEF ParseAccepts
<1>16. CASE FailBegin BY <1>16, CapNat DEF FailBegin, CountFailure
<1>17. CASE GiveUp BY <1>17 DEF GiveUp
<1>18. CASE BackOff BY <1>18 DEF BackOff, SleepUntilRetry
<1>19. CASE StopBegin BY <1>19 DEF StopBegin
<1>20. CASE StopEnd BY <1>20 DEF StopEnd, Disconnect, AllTimersOff
<1>21. CASE ResetForget BY <1>21 DEF ResetForget
<1>22. CASE ResetEnd BY <1>22 DEF ResetEnd, AllTimersOff
<1>23. CASE Report BY <1>23 DEF Report
<1>24. CASE Reboot BY <1>24 DEF Reboot, AllTimersOff
<1> QED BY <1>1, <1>2, <1>3, <1>4, <1>5, <1>6, <1>7, <1>8, <1>9, <1>10, <1>11,
           <1>12, <1>13, <1>14, <1>15, <1>16, <1>17, <1>18, <1>19, <1>20,
           <1>21, <1>22, <1>23, <1>24 DEF Next, Interrupt, Request, MainStep

-----------------------------------------------------------------------------
(* The properties.                                                         *)

IInv == TypeOK /\ Quiet /\ Wakeful /\ Answered

LEMMA InitInvariant == Init => IInv /\ Counted
BY InitType DEF Init, IInv, Quiet, Wakeful, Answered, Counted

LEMMA Invariant == Spec => []IInv
<1>1. IInv /\ [Next]_vars => IInv'
  <2> SUFFICES ASSUME IInv, [Next]_vars PROVE IInv'
    OBVIOUS
  <2>1. CASE Next
    BY <2>1, InterruptType, RequestType, MainType, QuietStep, WakefulStep,
       AnsweredStep DEF Next, IInv
  <2>2. CASE UNCHANGED vars
    BY <2>2 DEF vars, IInv, TypeOK, Quiet, Wakeful, Answered
  <2> QED BY <2>1, <2>2
<1> QED BY <1>1, InitInvariant, PTL DEF Spec

LEMMA CountedInvariant == ~SlowLink => (Spec => []Counted)
<1> SUFFICES ASSUME ~SlowLink PROVE Spec => []Counted
  OBVIOUS
<1>1. IInv /\ Counted /\ [Next]_vars => Counted'
  <2> SUFFICES ASSUME IInv, Counted, [Next]_vars PROVE Counted'
    OBVIOUS
  <2>1. CASE Next BY <2>1, CountedStep DEF IInv
  <2>2. CASE UNCHANGED vars BY <2>2 DEF vars, Counted
  <2> QED BY <2>1, <2>2
<1> QED BY <1>1, Invariant, InitInvariant, PTL DEF Spec

\* Between sessions the radio is unconfigured and neither the slice nor the
\* reply timer runs, in every behaviour of lora_transmission.c.
THEOREM QuietBetweenSessions == Spec => []IdleMeansQuiet
<1>1. IInv => IdleMeansQuiet BY DEF IInv, Quiet, IdleMeansQuiet
<1> QED BY <1>1, Invariant, PTL

\* An open session never sleeps without a timer that wakes it.
THEOREM SessionsWakeUp == Spec => []NoLostWakeup
<1>1. IInv => NoLostWakeup BY DEF IInv, TypeOK, Wakeful, NoLostWakeup
<1> QED BY <1>1, Invariant, PTL

\* The task never keeps the processor awake for nothing.
THEOREM NeverIdlyAwake == Spec => []AwakeForAReason
<1>1. IInv => AwakeForAReason BY DEF IInv, Wakeful, AwakeForAReason
<1> QED BY <1>1, Invariant, PTL

\* A session in which a reply was accepted is never reported as a lost
\* connection, whatever the interleaving of timers, radio and main loop.
THEOREM AnsweredSessions == Spec => AnsweredIsNotLost
<1>1. IInv /\ [Next]_vars =>
        (pc = "halt" /\ pc' = "report" /\ out' = "DISCON" => answer # "got")
  <2> SUFFICES ASSUME IInv, [Next]_vars, pc = "halt", pc' = "report",
                      out' = "DISCON", answer = "got"
               PROVE FALSE
    OBVIOUS
  <2>1. fails = 0 BY DEF IInv, Answered
  <2>2. StopEnd
    BY DEF Next, Interrupt, Request, MainStep, vars, SliceFires, TxTimeoutFires,
      IdleFires, SignalIrq, RadioIrq, Start, LlrtRequest, ResetBegin, Dispatch,
      ActiveBegin, Transmit, DoubleInit, SuccessBegin, ParseFails, ParseAccepts,
      FailBegin, GiveUp, BackOff, StopBegin, ResetForget, ResetEnd, Report,
      Reboot
  <2> QED BY <2>1, <2>2 DEF StopEnd, Verdict
<1>2. IInv /\ [Next]_vars =>
        [pc = "halt" /\ pc' = "report" /\ out' = "DISCON" => answer # "got"]_vars
  BY <1>1
<1> QED BY <1>2, Invariant, PTL DEF Spec, AnsweredIsNotLost

\* With radio parameters for which one reply resolves within the slice, an open
\* session is reported as confirmed only if a reply was accepted in it.
THEOREM ConfirmedSessions == ~SlowLink => (Spec => ConfirmedMeansAnswered)
<1> SUFFICES ASSUME ~SlowLink PROVE Spec => ConfirmedMeansAnswered
  OBVIOUS
<1>1. IInv /\ Counted /\ [Next]_vars =>
        [pc = "halt" /\ obj = "ACTIVE" /\ pc' = "report" /\ out' = "CONNECT"
           => answer = "got"]_vars
  <2> SUFFICES ASSUME IInv, Counted, [Next]_vars, pc = "halt", obj = "ACTIVE",
                      pc' = "report", out' = "CONNECT"
               PROVE answer = "got"
    OBVIOUS
  <2>1. StopEnd
    BY DEF Next, Interrupt, Request, MainStep, vars, SliceFires, TxTimeoutFires,
      IdleFires, SignalIrq, RadioIrq, Start, LlrtRequest, ResetBegin, Dispatch,
      ActiveBegin, Transmit, DoubleInit, SuccessBegin, ParseFails, ParseAccepts,
      FailBegin, GiveUp, BackOff, StopBegin, ResetForget, ResetEnd, Report,
      Reboot
  <2>2. fails = 0 BY <2>1 DEF StopEnd, Verdict, IInv, TypeOK
  <2> QED BY <2>2 DEF Counted, IInv, TypeOK
<1> QED BY <1>1, CountedInvariant, Invariant, PTL
        DEF Spec, ConfirmedMeansAnswered

-----------------------------------------------------------------------------
(***************************************************************************)
(* The service.  What a command that outlives its session meets: no failed *)
(* attempt is counted but the one it counts itself.                        *)
(***************************************************************************)
LeftOver ==
  /\ pc \in {"unwind", "report"} => fails = 0
  /\ obj = "IDLE" /\ pc \in {"halt", "parse", "backoff"} =>
       cmd \in {"IDLE", "ACTIVE"}
  /\ obj = "IDLE" /\ (cmd \in {"TX_SUCCESS", "TX_FAIL"}
                        \/ pc \in {"success", "parse", "fail"}) => fails = 0
  /\ obj = "IDLE" /\ pc = "backoff" => fails = 1
  /\ obj = "IDLE" /\ (cmd = "STOP" \/ pc \in {"stop", "halt"})
       /\ fails # 0 => llrt = "RUN" \/ MaxFails <= 1

serviceVars == <<Session, pre, Heard, conn, out, Again>>

\* Every step keeps it.
LEMMA LeftOverStep ==
  TypeOK /\ Quiet /\ Answered /\ LeftOver /\ Next => LeftOver'
<1> SUFFICES ASSUME TypeOK, Quiet, Answered, LeftOver, Next PROVE LeftOver'
  OBVIOUS
<1> USE DEF TypeOK, Commands, Quiet, Answered, LeftOver
<1>1. CASE SliceFires BY <1>1 DEF SliceFires, Post
<1>2. CASE TxTimeoutFires BY <1>2 DEF TxTimeoutFires, Post
<1>3. CASE IdleFires BY <1>3 DEF IdleFires, Post
<1>4. CASE SignalIrq BY <1>4 DEF SignalIrq
<1>5. ASSUME NEW f \in Frames, RadioIrq(f) PROVE LeftOver'
  BY <1>5 DEF RadioIrq, Store, Frames
<1>6. CASE Start BY <1>6 DEF Start
<1>7. CASE LlrtRequest BY <1>7 DEF LlrtRequest
<1>8. CASE ResetBegin BY <1>8 DEF ResetBegin
<1>9. CASE Dispatch BY <1>9 DEF Dispatch, Handler
<1>10. CASE ActiveBegin BY <1>10 DEF ActiveBegin
<1>11. CASE Transmit BY <1>11 DEF Transmit, CadBusy, TxError, TxOk
<1>12. CASE DoubleInit BY <1>12 DEF DoubleInit
<1>13. CASE SuccessBegin BY <1>13 DEF SuccessBegin
<1>14. CASE ParseFails BY <1>14 DEF ParseFails
<1>15. CASE ParseAccepts BY <1>15, CapNat DEF ParseAccepts
<1>16. CASE FailBegin BY <1>16, CapNat DEF FailBegin, CountFailure
<1>17. CASE GiveUp BY <1>17, LoraAssumption DEF GiveUp, Limit
<1>18. CASE BackOff BY <1>18 DEF BackOff, SleepUntilRetry
<1>19. CASE StopBegin BY <1>19 DEF StopBegin
<1>20. CASE StopEnd BY <1>20 DEF StopEnd, Disconnect, AllTimersOff
<1>21. CASE ResetForget BY <1>21 DEF ResetForget
<1>22. CASE ResetEnd BY <1>22 DEF ResetEnd, AllTimersOff
<1>23. CASE Report BY <1>23 DEF Report
<1>24. CASE Reboot BY <1>24 DEF Reboot, AllTimersOff
<1> QED BY <1>1, <1>2, <1>3, <1>4, <1>5, <1>6, <1>7, <1>8, <1>9, <1>10, <1>11,
           <1>12, <1>13, <1>14, <1>15, <1>16, <1>17, <1>18, <1>19, <1>20,
           <1>21, <1>22, <1>23, <1>24 DEF Next, Interrupt, Request, MainStep

\* Every step is a step of the service, or none.
LEMMA ServiceStep ==
  ASSUME TypeOK, Quiet, Answered, LeftOver, SlowLink \/ Counted, Next
  PROVE  [Service!Next]_serviceVars
<1> USE DEF TypeOK, Commands, Links, Quiet, Answered, LeftOver, serviceVars,
      Session, Heard, Again, Served
<1>1. CASE SliceFires
  BY <1>1 DEF SliceFires, Post
<1>2. CASE TxTimeoutFires
  BY <1>2 DEF TxTimeoutFires, Post
<1>3. CASE IdleFires
  BY <1>3 DEF IdleFires, Post, Service!Next, Service!Fade
<1>4. CASE SignalIrq
  BY <1>4 DEF SignalIrq
<1>5. ASSUME NEW f \in Frames, RadioIrq(f)
      PROVE  [Service!Next]_serviceVars
  BY <1>5 DEF RadioIrq
<1>6. CASE Start
  BY <1>6 DEF Start, Service!Next, Service!Ask
<1>7. CASE LlrtRequest
  BY <1>7 DEF LlrtRequest
<1>8. CASE ResetBegin
  BY <1>8 DEF ResetBegin, Service!Next, Service!Fade
<1>9. CASE Dispatch
  BY <1>9 DEF Dispatch, Handler, Service!Next, Service!Fade
<1>10. CASE ActiveBegin
  BY <1>10 DEF ActiveBegin, Service!Next, Service!Open
<1>11. CASE Transmit
  BY <1>11 DEF Transmit, CadBusy, TxError, TxOk
<1>12. CASE DoubleInit
  BY <1>12 DEF DoubleInit
<1>13. CASE SuccessBegin
  BY <1>13 DEF SuccessBegin
<1>14. CASE ParseFails
  BY <1>14 DEF ParseFails
<1>15. CASE ParseAccepts
  <2>1. CASE llrt = "RUN"
    <3>1. Service!Test
      BY <1>15, <2>1 DEF ParseAccepts, Service!Test, Service!Closes
    <3> QED BY <3>1 DEF Service!Next
  <2>2. CASE llrt # "RUN" /\ conn = "OFFLINE"
    <3>1. Service!Connect
      BY <1>15, <2>2 DEF ParseAccepts, Service!Connect, Service!Closes
    <3> QED BY <3>1 DEF Service!Next
  <2>3. CASE llrt # "RUN" /\ conn = "CONNECT"
    <3>1. Service!Hear
      BY <1>15, <2>3 DEF ParseAccepts, Service!Hear
    <3> QED BY <3>1 DEF Service!Next
  <2> QED BY <2>1, <2>2, <2>3
<1>16. CASE FailBegin
  BY <1>16 DEF FailBegin, CountFailure
<1>17. CASE GiveUp
  BY <1>17 DEF GiveUp
<1>18. CASE BackOff
  BY <1>18 DEF BackOff, SleepUntilRetry, Service!Next, Service!Fade
<1>19. CASE StopBegin
  BY <1>19 DEF StopBegin
<1>20. CASE StopEnd
  <2>1. Service!Closes
    BY <1>20 DEF StopEnd, Service!Closes
  <2>2. CASE Verdict = "TEST"
    <3>1. Service!Test
      BY <1>20, <2>1, <2>2 DEF StopEnd, Disconnect, Service!Test
    <3> QED BY <3>1 DEF Service!Next
  <2>3. CASE Verdict = "OFFLINE"
    <3>1. pre = "OFFLINE"
      BY <2>3 DEF Verdict
    <3>2. Service!Miss
      BY <1>20, <2>1, <2>3, <3>1 DEF StopEnd, Disconnect, Service!Miss
    <3> QED BY <3>2 DEF Service!Next
  <2>4. CASE Verdict = "DISCON"
    <3>1. llrt # "RUN" /\ fails # 0 /\ pre = "CONNECT"
      BY <2>4 DEF Verdict
    <3>2. Heard = "no" /\ (Session = "open" \/ ~(MaxFails > 1))
      BY <1>20, <3>1, LoraAssumption DEF StopEnd
    <3>3. Service!Lose
      BY <1>20, <2>1, <2>4, <3>1, <3>2
      DEF StopEnd, Disconnect, Service!Lose
    <3> QED BY <3>3 DEF Service!Next
  <2>5. CASE Verdict = "CONNECT"
    <3>1. fails = 0 /\ pre = "CONNECT"
      BY <2>5 DEF Verdict
    <3>2. Session = "open" => Heard = "yes" \/ SlowLink
      BY <1>20, <3>1 DEF StopEnd, Counted
    <3>3. Service!Confirm
      BY <1>20, <2>1, <2>5, <3>1, <3>2
      DEF StopEnd, Disconnect, Service!Confirm
    <3> QED BY <3>3 DEF Service!Next
  <2> QED BY <2>2, <2>3, <2>4, <2>5 DEF Verdict
<1>21. CASE ResetForget
  BY <1>21 DEF ResetForget, Service!Next, Service!Forget
<1>22. CASE ResetEnd
  BY <1>22 DEF ResetEnd, Service!Next, Service!Forgotten
<1>23. CASE Report
  BY <1>23 DEF Report
<1>24. CASE Reboot
  BY <1>24 DEF Reboot, Service!Next, Service!Restart
<1> QED BY <1>1, <1>2, <1>3, <1>4, <1>5, <1>6, <1>7, <1>8, <1>9, <1>10, <1>11,
           <1>12, <1>13, <1>14, <1>15, <1>16, <1>17, <1>18, <1>19, <1>20,
           <1>21, <1>22, <1>23, <1>24
         DEF Next, Interrupt, Request, MainStep

\* The task implements the service for every retry limit and both kinds of
\* link: one report ends a session, a second one at most follows it, and the
\* connection changes only with the report that says so.
THEOREM ServiceIsKept == Spec => KeepsService
<1>1. Init => Service!Init
  BY DEF Init, Service!Init, Session, Heard, Again, Served
<1>2. Spec => [](SlowLink \/ Counted)
  <2>1. CASE SlowLink
    BY <2>1, PTL
  <2>2. CASE ~SlowLink
    BY <2>2, CountedInvariant, PTL
  <2> QED BY <2>1, <2>2
<1>3. IInv /\ LeftOver /\ [Next]_vars => LeftOver'
  <2> SUFFICES ASSUME IInv, LeftOver, [Next]_vars PROVE LeftOver'
    OBVIOUS
  <2>1. CASE Next BY <2>1, LeftOverStep DEF IInv
  <2>2. CASE UNCHANGED vars BY <2>2 DEF vars, LeftOver
  <2> QED BY <2>1, <2>2
<1>4. Init => LeftOver
  BY DEF Init, LeftOver
<1>5. IInv /\ LeftOver /\ (SlowLink \/ Counted) /\ [Next]_vars
        => [Service!Next]_serviceVars
  <2> SUFFICES ASSUME IInv, LeftOver, SlowLink \/ Counted, [Next]_vars
               PROVE  [Service!Next]_serviceVars
    OBVIOUS
  <2>1. CASE Next BY <2>1, ServiceStep DEF IInv
  <2>2. CASE UNCHANGED vars
    BY <2>2 DEF vars, serviceVars, Session, Heard, Again, Served
  <2> QED BY <2>1, <2>2
<1> QED BY <1>1, <1>2, <1>3, <1>4, <1>5, Invariant, PTL
        DEF Spec, KeepsService, Service!Spec, serviceVars
=============================================================================
