---------------------------- MODULE GatewayProofs ----------------------------
(***************************************************************************)
(* Proofs about the gateway's frames: for all addresses, all writes, and   *)
(* frames and timers in any order.                                         *)
(***************************************************************************)
EXTENDS Gateway, TLAPS

\* The inductive form of NeverTwice and DeafForAReason: a frame in the buffer
\* has not been carried out, and waits for the parser or was passed over; no
\* answer is awaited while properties are applied.
BufferInv ==
  /\ rx # None => used = "no"
  /\ rx # None /\ session # "answered" => left # "no"
  /\ pc # "lora" => session \in {"idle", "stopped"}

\* The properties that are behind the handler's present one have been applied.
Ahead ==
  /\ pc = "offset" => dirty \subseteq {"offset", "mode", "interval", "long"}
  /\ pc = "mode" => dirty \subseteq {"mode", "interval", "long"}
  /\ pc = "interval" => dirty \subseteq {"interval", "long"}
  /\ pc = "long" => dirty \subseteq {"long"}
  /\ pc \in {"lora", "reset"} => dirty = {}

\* The inductive form of MatchedIsSaved: a property not waiting to be applied
\* agrees with its parameter.
SavedInv ==
  /\ DOMAIN param = {"short", "offset", "mode", "long", "sample", "trigger",
                     "period"}
  /\ \A p \in {"short", "mode", "long"} : p \notin dirty => param[p] = prop[p]

\* The inductive form of PeriodReachesMode, while the frame is applied.
ToldInv ==
  told.cmd = "publish" =>
    /\ \A p \in Props : p \in DOMAIN told.writes => prop[p] = told.writes[p]
    /\ "interval" \in DOMAIN told.writes =>
         /\ pc \in {"short", "offset", "mode", "interval"} =>
              "interval" \in dirty
         /\ pc \in {"long", "lora", "reset"} /\ prop.interval # 0 =>
              /\ param.mode = Period => param.sample = prop.interval
              /\ param.mode = Trigger => param.trigger = prop.interval
              /\ dev = prop.interval /\ param.period = prop.interval

\* The inductive form of ConnectionSurvives.
JoinInv ==
  told.cmd = "connect" =>
    /\ dirty \subseteq {"short"}
    /\ pc = "short" => joined = "yes"

\* No frame is the empty buffer.
LEMMA FramesAreSomething == ASSUME NEW f \in Frames PROVE f # None
  BY DEF Frames, Connections, Answers, Tests, Junk, None

\* Every step keeps the types.
LEMMA TypeStep ==
  ASSUME TypeOK, Ahead, Next PROVE TypeOK'
<1> USE GatewayAssumption
    DEF TypeOK, Props, buffer, object, Ahead
<1>1. ASSUME Ask
      PROVE  TypeOK'
  BY <1>1 DEF Ask
<1>2. ASSUME NEW f \in Frames, Receive(f)
      PROVE  TypeOK'
  BY <1>2 DEF Receive, Keep
<1>3. ASSUME SliceEnds
      PROVE  TypeOK'
  BY <1>3 DEF SliceEnds, PassOver
<1>4. ASSUME ReplyTimesOut
      PROVE  TypeOK'
  BY <1>4 DEF ReplyTimesOut, PassOver, TryAgain
<1>5. ASSUME StopEnds
      PROVE  TypeOK'
  BY <1>5 DEF StopEnds
<1>6. ASSUME Switch
      PROVE  TypeOK'
  BY <1>6 DEF Switch
<1>7. ASSUME Accept, WriteShort
      PROVE  TypeOK'
  BY <1>7 DEF Accept, WriteShort, ClearFlags, Mark, Join, Parsing
<1>8. ASSUME Accept, WriteMulti
      PROVE  TypeOK'
  BY <1>8 DEF Accept, WriteMulti, ClearFlags, Mark, Parsing
<1>9. ASSUME Accept, rx.cmd = "test",
             UNCHANGED <<prop, dirty, joined>>
      PROVE  TypeOK'
  BY <1>9 DEF Accept, ClearFlags, Parsing
<1>10. ASSUME Reject
      PROVE  TypeOK'
  BY <1>10 DEF Reject, ClearFlags, TryAgain, Parsing
<1>11. ASSUME RejectPayload
      PROVE  TypeOK'
  BY <1>11 DEF RejectPayload, TryAgain, Parsing
<1>12. ASSUME Apply, pc = "short", SetShort(prop.short)
      PROVE  TypeOK'
  BY <1>12 DEF Apply, SetShort, LoraReset, After
<1>13. ASSUME Apply, pc = "offset", SetOffset(prop.offset)
      PROVE  TypeOK'
  BY <1>13 DEF Apply, SetOffset, After
<1>14. ASSUME Apply, pc = "mode", SetMode(prop.mode)
      PROVE  TypeOK'
  BY <1>14 DEF Apply, SetMode, After
<1>15. ASSUME Apply, pc = "interval", SetInterval(prop.interval)
      PROVE  TypeOK'
  BY <1>15 DEF Apply, SetInterval, After
<1>16. ASSUME Apply, pc = "long", SetLong(prop.long)
      PROVE  TypeOK'
  BY <1>16 DEF Apply, SetLong, LoraReset, After
<1>17. ASSUME Skip
      PROVE  TypeOK'
  BY <1>17 DEF Skip, After
<1> QED
  BY <1>1, <1>2, <1>3, <1>4, <1>5, <1>6, <1>7, <1>8, <1>9, <1>10, <1>11,
     <1>12, <1>13, <1>14, <1>15, <1>16, <1>17
  DEF Next, Accept, Write, Apply, Set

\* Every step keeps the buffer's frame from being carried out again.
LEMMA BufferStep ==
  ASSUME TypeOK, BufferInv, Next PROVE BufferInv'
<1> USE GatewayAssumption
    DEF TypeOK, Props, buffer, object, BufferInv
<1>1. ASSUME Ask
      PROVE  BufferInv'
  BY <1>1 DEF Ask
<1>2. ASSUME NEW f \in Frames, Receive(f)
      PROVE  BufferInv'
  BY <1>2, FramesAreSomething DEF Receive, Keep
<1>3. ASSUME SliceEnds
      PROVE  BufferInv'
  BY <1>3 DEF SliceEnds, PassOver
<1>4. ASSUME ReplyTimesOut
      PROVE  BufferInv'
  BY <1>4 DEF ReplyTimesOut, PassOver, TryAgain
<1>5. ASSUME StopEnds
      PROVE  BufferInv'
  BY <1>5 DEF StopEnds
<1>6. ASSUME Switch
      PROVE  BufferInv'
  BY <1>6 DEF Switch
<1>7. ASSUME Accept, WriteShort
      PROVE  BufferInv'
  BY <1>7 DEF Accept, WriteShort, ClearFlags, Mark, Join, Parsing
<1>8. ASSUME Accept, WriteMulti
      PROVE  BufferInv'
  BY <1>8 DEF Accept, WriteMulti, ClearFlags, Mark, Parsing
<1>9. ASSUME Accept, rx.cmd = "test",
             UNCHANGED <<prop, dirty, joined>>
      PROVE  BufferInv'
  BY <1>9 DEF Accept, ClearFlags, Parsing
<1>10. ASSUME Reject
      PROVE  BufferInv'
  BY <1>10 DEF Reject, ClearFlags, TryAgain, Parsing
<1>11. ASSUME RejectPayload
      PROVE  BufferInv'
  BY <1>11 DEF RejectPayload, TryAgain, Parsing
<1>12. ASSUME Apply, pc = "short", SetShort(prop.short)
      PROVE  BufferInv'
  BY <1>12 DEF Apply, SetShort, LoraReset, After
<1>13. ASSUME Apply, pc = "offset", SetOffset(prop.offset)
      PROVE  BufferInv'
  BY <1>13 DEF Apply, SetOffset, After
<1>14. ASSUME Apply, pc = "mode", SetMode(prop.mode)
      PROVE  BufferInv'
  BY <1>14 DEF Apply, SetMode, After
<1>15. ASSUME Apply, pc = "interval", SetInterval(prop.interval)
      PROVE  BufferInv'
  BY <1>15 DEF Apply, SetInterval, After
<1>16. ASSUME Apply, pc = "long", SetLong(prop.long)
      PROVE  BufferInv'
  BY <1>16 DEF Apply, SetLong, LoraReset, After
<1>17. ASSUME Skip
      PROVE  BufferInv'
  BY <1>17 DEF Skip, After
<1> QED
  BY <1>1, <1>2, <1>3, <1>4, <1>5, <1>6, <1>7, <1>8, <1>9, <1>10, <1>11,
     <1>12, <1>13, <1>14, <1>15, <1>16, <1>17
  DEF Next, Accept, Write, Apply, Set

\* The handler leaves nothing behind.
LEMMA AheadStep ==
  ASSUME TypeOK, Ahead, Next PROVE Ahead'
<1> USE GatewayAssumption
    DEF TypeOK, Props, buffer, object, Ahead
<1>1. ASSUME Ask
      PROVE  Ahead'
  BY <1>1 DEF Ask
<1>2. ASSUME NEW f \in Frames, Receive(f)
      PROVE  Ahead'
  BY <1>2 DEF Receive, Keep
<1>3. ASSUME SliceEnds
      PROVE  Ahead'
  BY <1>3 DEF SliceEnds, PassOver
<1>4. ASSUME ReplyTimesOut
      PROVE  Ahead'
  BY <1>4 DEF ReplyTimesOut, PassOver, TryAgain
<1>5. ASSUME StopEnds
      PROVE  Ahead'
  BY <1>5 DEF StopEnds
<1>6. ASSUME Switch
      PROVE  Ahead'
  BY <1>6 DEF Switch
<1>7. ASSUME Accept, WriteShort
      PROVE  Ahead'
  BY <1>7 DEF Accept, WriteShort, ClearFlags, Mark, Join, Parsing
<1>8. ASSUME Accept, WriteMulti
      PROVE  Ahead'
  BY <1>8 DEF Accept, WriteMulti, ClearFlags, Mark, Parsing
<1>9. ASSUME Accept, rx.cmd = "test",
             UNCHANGED <<prop, dirty, joined>>
      PROVE  Ahead'
  BY <1>9 DEF Accept, ClearFlags, Parsing
<1>10. ASSUME Reject
      PROVE  Ahead'
  BY <1>10 DEF Reject, ClearFlags, TryAgain, Parsing
<1>11. ASSUME RejectPayload
      PROVE  Ahead'
  BY <1>11 DEF RejectPayload, TryAgain, Parsing
<1>12. ASSUME Apply, pc = "short", SetShort(prop.short)
      PROVE  Ahead'
  BY <1>12 DEF Apply, SetShort, LoraReset, After
<1>13. ASSUME Apply, pc = "offset", SetOffset(prop.offset)
      PROVE  Ahead'
  BY <1>13 DEF Apply, SetOffset, After
<1>14. ASSUME Apply, pc = "mode", SetMode(prop.mode)
      PROVE  Ahead'
  BY <1>14 DEF Apply, SetMode, After
<1>15. ASSUME Apply, pc = "interval", SetInterval(prop.interval)
      PROVE  Ahead'
  BY <1>15 DEF Apply, SetInterval, After
<1>16. ASSUME Apply, pc = "long", SetLong(prop.long)
      PROVE  Ahead'
  BY <1>16 DEF Apply, SetLong, LoraReset, After
<1>17. ASSUME Skip
      PROVE  Ahead'
  BY <1>17 DEF Skip, After
<1> QED
  BY <1>1, <1>2, <1>3, <1>4, <1>5, <1>6, <1>7, <1>8, <1>9, <1>10, <1>11,
     <1>12, <1>13, <1>14, <1>15, <1>16, <1>17
  DEF Next, Accept, Write, Apply, Set

\* Every step keeps what was applied.
LEMMA SavedStep ==
  ASSUME TypeOK, Ahead, SavedInv, Next PROVE SavedInv'
<1> USE GatewayAssumption
    DEF TypeOK, Props, buffer, object, Ahead, SavedInv
<1>1. ASSUME Ask
      PROVE  SavedInv'
  BY <1>1 DEF Ask
<1>2. ASSUME NEW f \in Frames, Receive(f)
      PROVE  SavedInv'
  BY <1>2 DEF Receive, Keep
<1>3. ASSUME SliceEnds
      PROVE  SavedInv'
  BY <1>3 DEF SliceEnds, PassOver
<1>4. ASSUME ReplyTimesOut
      PROVE  SavedInv'
  BY <1>4 DEF ReplyTimesOut, PassOver, TryAgain
<1>5. ASSUME StopEnds
      PROVE  SavedInv'
  BY <1>5 DEF StopEnds
<1>6. ASSUME Switch
      PROVE  SavedInv'
  BY <1>6 DEF Switch
<1>7. ASSUME Accept, WriteShort
      PROVE  SavedInv'
  BY <1>7 DEF Accept, WriteShort, ClearFlags, Mark, Join, Parsing
<1>8. ASSUME Accept, WriteMulti
      PROVE  SavedInv'
  BY <1>8 DEF Accept, WriteMulti, ClearFlags, Mark, Parsing
<1>9. ASSUME Accept, rx.cmd = "test",
             UNCHANGED <<prop, dirty, joined>>
      PROVE  SavedInv'
  BY <1>9 DEF Accept, ClearFlags, Parsing
<1>10. ASSUME Reject
      PROVE  SavedInv'
  BY <1>10 DEF Reject, ClearFlags, TryAgain, Parsing
<1>11. ASSUME RejectPayload
      PROVE  SavedInv'
  BY <1>11 DEF RejectPayload, TryAgain, Parsing
<1>12. ASSUME Apply, pc = "short", SetShort(prop.short)
      PROVE  SavedInv'
  BY <1>12 DEF Apply, SetShort, LoraReset, After
<1>13. ASSUME Apply, pc = "offset", SetOffset(prop.offset)
      PROVE  SavedInv'
  BY <1>13 DEF Apply, SetOffset, After
<1>14. ASSUME Apply, pc = "mode", SetMode(prop.mode)
      PROVE  SavedInv'
  BY <1>14 DEF Apply, SetMode, After
<1>15. ASSUME Apply, pc = "interval", SetInterval(prop.interval)
      PROVE  SavedInv'
  <2>1. DOMAIN param' = DOMAIN param
    BY <1>15 DEF SetInterval
  <2>2. \A p \in {"short", "mode", "long"} : param'[p] = param[p]
    BY <1>15 DEF SetInterval
  <2>3. dirty' = dirty \ {"interval"} /\ prop' = prop
    BY <1>15 DEF Apply
  <2> QED BY <2>1, <2>2, <2>3
<1>16. ASSUME Apply, pc = "long", SetLong(prop.long)
      PROVE  SavedInv'
  BY <1>16 DEF Apply, SetLong, LoraReset, After
<1>17. ASSUME Skip
      PROVE  SavedInv'
  BY <1>17 DEF Skip, After
<1> QED
  BY <1>1, <1>2, <1>3, <1>4, <1>5, <1>6, <1>7, <1>8, <1>9, <1>10, <1>11,
     <1>12, <1>13, <1>14, <1>15, <1>16, <1>17
  DEF Next, Accept, Write, Apply, Set

\* Every step keeps what the last frame wrote.
LEMMA ToldStep ==
  ASSUME TypeOK, Ahead, SavedInv, ToldInv, Next PROVE ToldInv'
<1> USE GatewayAssumption
    DEF TypeOK, Props, buffer, object, Ahead, SavedInv, ToldInv,
        Period, Trigger, PeriodOf
<1>1. ASSUME Ask
      PROVE  ToldInv'
  BY <1>1 DEF Ask
<1>2. ASSUME NEW f \in Frames, Receive(f)
      PROVE  ToldInv'
  BY <1>2 DEF Receive, Keep
<1>3. ASSUME SliceEnds
      PROVE  ToldInv'
  BY <1>3 DEF SliceEnds, PassOver
<1>4. ASSUME ReplyTimesOut
      PROVE  ToldInv'
  BY <1>4 DEF ReplyTimesOut, PassOver, TryAgain
<1>5. ASSUME StopEnds
      PROVE  ToldInv'
  BY <1>5 DEF StopEnds
<1>6. ASSUME Switch
      PROVE  ToldInv'
  BY <1>6 DEF Switch
<1>7. ASSUME Accept, WriteShort
      PROVE  ToldInv'
  BY <1>7 DEF Accept, WriteShort, ClearFlags, Mark, Join, Parsing
<1>8. ASSUME Accept, WriteMulti
      PROVE  ToldInv'
  BY <1>8 DEF Accept, WriteMulti, ClearFlags, Mark, Parsing
<1>9. ASSUME Accept, rx.cmd = "test",
             UNCHANGED <<prop, dirty, joined>>
      PROVE  ToldInv'
  BY <1>9 DEF Accept, ClearFlags, Parsing
<1>10. ASSUME Reject
      PROVE  ToldInv'
  BY <1>10 DEF Reject, ClearFlags, TryAgain, Parsing
<1>11. ASSUME RejectPayload
      PROVE  ToldInv'
  BY <1>11 DEF RejectPayload, TryAgain, Parsing
<1>12. ASSUME Apply, pc = "short", SetShort(prop.short)
      PROVE  ToldInv'
  BY <1>12 DEF Apply, SetShort, LoraReset, After
<1>13. ASSUME Apply, pc = "offset", SetOffset(prop.offset)
      PROVE  ToldInv'
  BY <1>13 DEF Apply, SetOffset, After
<1>14. ASSUME Apply, pc = "mode", SetMode(prop.mode)
      PROVE  ToldInv'
  BY <1>14 DEF Apply, SetMode, After
<1>15. ASSUME Apply, pc = "interval", SetInterval(prop.interval)
      PROVE  ToldInv'
  BY <1>15 DEF Apply, SetInterval, After
<1>16. ASSUME Apply, pc = "long", SetLong(prop.long)
      PROVE  ToldInv'
  BY <1>16 DEF Apply, SetLong, LoraReset, After
<1>17. ASSUME Skip
      PROVE  ToldInv'
  BY <1>17 DEF Skip, After
<1> QED
  BY <1>1, <1>2, <1>3, <1>4, <1>5, <1>6, <1>7, <1>8, <1>9, <1>10, <1>11,
     <1>12, <1>13, <1>14, <1>15, <1>16, <1>17
  DEF Next, Accept, Write, Apply, Set

\* A connection writes nothing but its short address.
LEMMA JoinStep ==
  ASSUME TypeOK, Ahead, JoinInv, Next PROVE JoinInv'
<1> USE GatewayAssumption
    DEF TypeOK, Props, buffer, object, Ahead, JoinInv
<1>1. ASSUME Ask
      PROVE  JoinInv'
  BY <1>1 DEF Ask
<1>2. ASSUME NEW f \in Frames, Receive(f)
      PROVE  JoinInv'
  BY <1>2 DEF Receive, Keep
<1>3. ASSUME SliceEnds
      PROVE  JoinInv'
  BY <1>3 DEF SliceEnds, PassOver
<1>4. ASSUME ReplyTimesOut
      PROVE  JoinInv'
  BY <1>4 DEF ReplyTimesOut, PassOver, TryAgain
<1>5. ASSUME StopEnds
      PROVE  JoinInv'
  BY <1>5 DEF StopEnds
<1>6. ASSUME Switch
      PROVE  JoinInv'
  BY <1>6 DEF Switch
<1>7. ASSUME Accept, WriteShort
      PROVE  JoinInv'
  BY <1>7 DEF Accept, WriteShort, ClearFlags, Mark, Join, Parsing
<1>8. ASSUME Accept, WriteMulti
      PROVE  JoinInv'
  BY <1>8 DEF Accept, WriteMulti, ClearFlags, Mark, Parsing
<1>9. ASSUME Accept, rx.cmd = "test",
             UNCHANGED <<prop, dirty, joined>>
      PROVE  JoinInv'
  BY <1>9 DEF Accept, ClearFlags, Parsing
<1>10. ASSUME Reject
      PROVE  JoinInv'
  BY <1>10 DEF Reject, ClearFlags, TryAgain, Parsing
<1>11. ASSUME RejectPayload
      PROVE  JoinInv'
  BY <1>11 DEF RejectPayload, TryAgain, Parsing
<1>12. ASSUME Apply, pc = "short", SetShort(prop.short)
      PROVE  JoinInv'
  BY <1>12 DEF Apply, SetShort, LoraReset, After
<1>13. ASSUME Apply, pc = "offset", SetOffset(prop.offset)
      PROVE  JoinInv'
  BY <1>13 DEF Apply, SetOffset, After
<1>14. ASSUME Apply, pc = "mode", SetMode(prop.mode)
      PROVE  JoinInv'
  BY <1>14 DEF Apply, SetMode, After
<1>15. ASSUME Apply, pc = "interval", SetInterval(prop.interval)
      PROVE  JoinInv'
  BY <1>15 DEF Apply, SetInterval, After
<1>16. ASSUME Apply, pc = "long", SetLong(prop.long)
      PROVE  JoinInv'
  BY <1>16 DEF Apply, SetLong, LoraReset, After
<1>17. ASSUME Skip
      PROVE  JoinInv'
  BY <1>17 DEF Skip, After
<1> QED
  BY <1>1, <1>2, <1>3, <1>4, <1>5, <1>6, <1>7, <1>8, <1>9, <1>10, <1>11,
     <1>12, <1>13, <1>14, <1>15, <1>16, <1>17
  DEF Next, Accept, Write, Apply, Set

Inv ==
  /\ TypeOK /\ BufferInv /\ Ahead /\ SavedInv /\ ToldInv /\ JoinInv

\* The invariant holds from the start and through every step.
LEMMA Inductive == Spec => []Inv
<1> USE GatewayAssumption
<1>1. Init => Inv
  BY DEF Init, Inv, TypeOK, Props, BufferInv, Ahead, SavedInv, ToldInv,
         JoinInv, None
<1>2. Inv /\ [Next]_vars => Inv'
  <2> SUFFICES ASSUME Inv, [Next]_vars PROVE Inv'
    OBVIOUS
  <2>1. CASE Next
    BY <2>1, TypeStep, BufferStep, AheadStep, SavedStep, ToldStep, JoinStep
    DEF Inv
  <2>2. CASE UNCHANGED vars
    BY <2>2
    DEF vars, Inv, TypeOK, BufferInv, Ahead, SavedInv, ToldInv, JoinInv
  <2> QED BY <2>1, <2>2
<1> QED BY <1>1, <1>2, PTL DEF Spec

\* Buffer, object and parameters keep values of their types.
THEOREM TypeCorrect == Spec => []TypeOK
BY Inductive, PTL DEF Inv

\* An answer finds the buffer occupied only for one of the two reasons.
THEOREM DeafForTwoReasons == Spec => []DeafForAReason
<1>1. Inv => DeafForAReason
  BY DEF Inv, BufferInv, DeafForAReason
<1> QED BY <1>1, Inductive, PTL

\* Every address and the mode are saved before the next frame is looked at.
THEOREM AddressesAreSaved == Spec => []MatchedIsSaved
<1>1. Inv => MatchedIsSaved
  BY DEF Inv, Ahead, SavedInv, MatchedIsSaved
<1> QED BY <1>1, Inductive, PTL

\* A restart by a long address leaves nothing of its frame unapplied.
THEOREM RestartIsLast == Spec => []ResetAppliesAll
<1>1. Inv => ResetAppliesAll
  BY DEF Inv, Ahead, ResetAppliesAll
<1> QED BY <1>1, Inductive, PTL

\* An interval becomes the period of the mode the same frame sets.
THEOREM IntervalsReachTheirMode == Spec => []PeriodReachesMode
<1>1. Inv => PeriodReachesMode
  BY DEF Inv, TypeOK, Ahead, SavedInv, ToldInv, PeriodReachesMode, PeriodOf,
         Props, Period, Trigger
<1> QED BY <1>1, Inductive, PTL

\* What NeverTwice says of a step.
Once == pc = "lora" /\ pc' = "short" => used = "no"

\* No frame is carried out twice.
THEOREM FramesOnce == Spec => NeverTwice
<1>1. Inv /\ [Next]_vars => [Once]_vars
  <2> SUFFICES ASSUME Inv, Next PROVE Once
    OBVIOUS
  <2>1. ASSUME Accept PROVE Once
    BY <2>1 DEF Accept, Inv, BufferInv, Once
  <2>2. ASSUME Apply \/ Skip PROVE Once
    BY <2>2 DEF Apply, Skip, Props, Inv, TypeOK, Once
  <2>3. ASSUME pc' = pc PROVE Once
    BY <2>3 DEF Once
  <2> QED
    BY <2>1, <2>2, <2>3
    DEF Next, Ask, SliceEnds, ReplyTimesOut, StopEnds, Switch, Receive, Reject,
        RejectPayload, object, buffer
<1> QED BY <1>1, Inductive, PTL DEF Spec, NeverTwice, Once

\* What ConnectionSurvives says of a step.
Survives ==
  told.cmd = "connect" /\ pc \in Props /\ conn = "connected"
    => conn' = "connected"

\* The short address of a connection leaves the connection alone.
THEOREM ConnectionsSurvive == Spec => ConnectionSurvives
<1>1. Inv /\ [Next]_vars => [Survives]_vars
  <2> SUFFICES ASSUME Inv, Next PROVE Survives
    OBVIOUS
  <2>1. ASSUME Apply PROVE Survives
    BY <2>1
    DEF Apply, Set, SetShort, SetOffset, SetMode, SetInterval, SetLong, Inv,
        Ahead, JoinInv, Survives
  <2>2. ASSUME pc = "lora" PROVE Survives
    BY <2>2 DEF Props, Survives
  <2>3. ASSUME conn' = conn PROVE Survives
    BY <2>3 DEF Survives
  <2> QED
    BY <2>1, <2>2, <2>3
    DEF Next, Ask, SliceEnds, ReplyTimesOut, StopEnds, Switch, Receive, Reject,
        RejectPayload, Accept, Parsing, Skip
<1> QED BY <1>1, Inductive, PTL DEF Spec, ConnectionSurvives, Survives
=============================================================================
