--------------------------- MODULE ParamStoreProofs ---------------------------
(***************************************************************************)
(* Proofs about the parameter store: for all sets of parameters and        *)
(* values, wherever client writes and power failures fall.                 *)
(***************************************************************************)
EXTENDS ParamStore, TLAPS

\* The inductive form of BootsWhole: the page carries a version only when it
\* carries everything else.
Whole ==
  /\ BootsWhole
  /\ page \in [Fields -> Values \cup {"erased"}] /\ left \subseteq Fields
  /\ Valid => page \in [Fields -> Values]
  /\ pc = "write" =>
       /\ \A f \in Fields \ left : page[f] \in Values
       /\ \/ "version" \in left /\ page["version"] = "erased"
          \/ left = {} /\ Valid

(***************************************************************************)
(* The inductive form of NothingForgotten, SavedBeforeReset and            *)
(* VersionSurvives.  While the page is being written, a field that differs *)
(* from the one in use has raised the flag, and late names it.             *)
(***************************************************************************)
Current ==
  /\ "version" \notin late
  /\ flag = "no" /\ pc \in {"turn", "save", "saved", "reset"} =>
       \A f \in Fields : Saved(f)
  /\ pc \in {"saved", "reset"} => \A f \in Fields \ late : Saved(f)
  /\ pc = "write" =>
       \A f \in Fields \ left : flag = "no" \/ f \notin late => page[f] = ram[f]

\* Every step keeps the types.
LEMMA TypeStep ==
  ASSUME TypeOK, Next PROVE TypeOK'
<1> USE ParamAssumption DEF TypeOK, Addresses, Fields, Values, LongAddrs
<1>1. ASSUME NEW f \in Fields \ {"version"}, NEW v \in Of(f), ClientWrites(f, v)
      PROVE  TypeOK'
  BY <1>1 DEF ClientWrites, Mark, Of
<1>2. ASSUME NEW f \in Params \cup {"short"}, NEW v \in Vals, GatewaySets(f, v)
      PROVE  TypeOK'
  BY <1>2 DEF GatewaySets, Mark
<1>3. ASSUME NEW v \in LongAddrs, GatewaySetsAddr(v)
      PROVE  TypeOK'
  BY <1>3 DEF GatewaySetsAddr, Mark, Kinds
<1>4. ASSUME NEW v \in LongAddrs, GatewaySetsVersion(v)
      PROVE  TypeOK'
  BY <1>4 DEF GatewaySetsVersion, Forced, Kinds
<1>5. ASSUME FallBack
      PROVE  TypeOK'
  BY <1>5 DEF FallBack, Try
<1>6. ASSUME EndOfTurn
      PROVE  TypeOK'
  BY <1>6 DEF EndOfTurn, SaveFirst
<1>7. ASSUME NothingToSave
      PROVE  TypeOK'
  BY <1>7 DEF NothingToSave, Return
<1>8. ASSUME SaveBegins
      PROVE  TypeOK'
  BY <1>8 DEF SaveBegins
<1>9. ASSUME Erase
      PROVE  TypeOK'
  BY <1>9 DEF Erase, Erased
<1>10. ASSUME NEW f \in left, WriteField(f)
      PROVE  TypeOK'
  BY <1>10 DEF WriteField, InOrder
<1>11. ASSUME SaveEnds
      PROVE  TypeOK'
  BY <1>11 DEF SaveEnds, Return, LeaveFlag
<1>12. ASSUME ServeRequests
      PROVE  TypeOK'
  BY <1>12 DEF ServeRequests
<1>13. ASSUME Boot
      PROVE  TypeOK'
  BY <1>13 DEF Boot, Recovered, Valid, Default, Kinds
<1> QED
  BY <1>1, <1>2, <1>3, <1>4, <1>5, <1>6, <1>7, <1>8, <1>9, <1>10, <1>11,
      <1>12, <1>13
  DEF Next, ClientStep, GatewayStep, AddrStep, Writing, Reset, PowerFails

\* Every step keeps the page whole or without a version.
LEMMA WholeStep ==
  ASSUME TypeOK, Whole, Next PROVE Whole'
<1> USE ParamAssumption DEF TypeOK, Whole, BootsWhole, Valid, Addresses,
    Fields, Values, LongAddrs, Kinds
<1>1. ASSUME NEW f \in Fields \ {"version"}, NEW v \in Of(f), ClientWrites(f, v)
      PROVE  Whole'
  BY <1>1 DEF ClientWrites, Mark, Of
<1>2. ASSUME NEW f \in Params \cup {"short"}, NEW v \in Vals, GatewaySets(f, v)
      PROVE  Whole'
  BY <1>2 DEF GatewaySets, Mark
<1>3. ASSUME NEW v \in LongAddrs, GatewaySetsAddr(v)
      PROVE  Whole'
  BY <1>3 DEF GatewaySetsAddr, Mark, Kinds
<1>4. ASSUME NEW v \in LongAddrs, GatewaySetsVersion(v)
      PROVE  Whole'
  BY <1>4 DEF GatewaySetsVersion, Forced, Kinds
<1>5. ASSUME FallBack
      PROVE  Whole'
  BY <1>5 DEF FallBack, Try
<1>6. ASSUME EndOfTurn
      PROVE  Whole'
  BY <1>6 DEF EndOfTurn, SaveFirst
<1>7. ASSUME NothingToSave
      PROVE  Whole'
  BY <1>7 DEF NothingToSave, Return
<1>8. ASSUME SaveBegins
      PROVE  Whole'
  BY <1>8 DEF SaveBegins
<1>9. ASSUME Erase
      PROVE  Whole'
  BY <1>9 DEF Erase, Erased
<1>10. ASSUME NEW f \in left, WriteField(f)
      PROVE  Whole'
  <2>1. page' \in [Fields -> Values \cup {"erased"}] /\ left' \subseteq Fields
    BY <1>10 DEF WriteField
  <2>2. BootsWhole'
    BY <1>10 DEF WriteField
  <2>3. \A g \in Fields \ left' : page'[g] \in Values
    BY <1>10 DEF WriteField
  <2>4. CASE f = "version"
    <3>1. left' = {} /\ Valid'
      BY <1>10, <2>4 DEF WriteField, InOrder
    <3>2. page' \in [Fields -> Values]
      BY <2>1, <2>3, <3>1
    <3> QED BY <1>10, <2>1, <2>2, <2>3, <3>1, <3>2 DEF WriteField
  <2>5. CASE f # "version"
    <3>1. "version" \in left' /\ page'["version"] = "erased"
      BY <1>10, <2>5 DEF WriteField
    <3> QED BY <1>10, <2>1, <2>2, <2>3, <3>1 DEF WriteField
  <2> QED BY <2>4, <2>5
<1>11. ASSUME SaveEnds
      PROVE  Whole'
  BY <1>11 DEF SaveEnds, Return, LeaveFlag
<1>12. ASSUME ServeRequests
      PROVE  Whole'
  BY <1>12 DEF ServeRequests
<1>13. ASSUME Boot
      PROVE  Whole'
  BY <1>13 DEF Boot, Recovered, Valid, Default, Kinds
<1> QED
  BY <1>1, <1>2, <1>3, <1>4, <1>5, <1>6, <1>7, <1>8, <1>9, <1>10, <1>11,
      <1>12, <1>13
  DEF Next, ClientStep, GatewayStep, AddrStep, Writing, Reset, PowerFails

\* Every step keeps unsaved changes known.
LEMMA CurrentStep ==
  ASSUME TypeOK, Whole, Current, Next PROVE Current'
<1> USE ParamAssumption DEF TypeOK, Whole, Current, Saved, Addresses, Fields,
    Values, LongAddrs, BootsWhole, Valid, Kinds
<1>1. ASSUME NEW f \in Fields \ {"version"}, NEW v \in Of(f), ClientWrites(f, v)
      PROVE  Current'
  BY <1>1 DEF ClientWrites, Mark, Of
<1>2. ASSUME NEW f \in Params \cup {"short"}, NEW v \in Vals, GatewaySets(f, v)
      PROVE  Current'
  BY <1>2 DEF GatewaySets, Mark
<1>3. ASSUME NEW v \in LongAddrs, GatewaySetsAddr(v)
      PROVE  Current'
  BY <1>3 DEF GatewaySetsAddr, Mark, Kinds
<1>4. ASSUME NEW v \in LongAddrs, GatewaySetsVersion(v)
      PROVE  Current'
  BY <1>4 DEF GatewaySetsVersion, Forced, Kinds
<1>5. ASSUME FallBack
      PROVE  Current'
  BY <1>5 DEF FallBack, Try
<1>6. ASSUME EndOfTurn
      PROVE  Current'
  BY <1>6 DEF EndOfTurn, SaveFirst
<1>7. ASSUME NothingToSave
      PROVE  Current'
  BY <1>7 DEF NothingToSave, Return
<1>8. ASSUME SaveBegins
      PROVE  Current'
  BY <1>8 DEF SaveBegins
<1>9. ASSUME Erase
      PROVE  Current'
  BY <1>9 DEF Erase, Erased
<1>10. ASSUME NEW f \in left, WriteField(f)
      PROVE  Current'
  BY <1>10 DEF WriteField, InOrder
<1>11. ASSUME SaveEnds
      PROVE  Current'
  BY <1>11 DEF SaveEnds, Return, LeaveFlag
<1>12. ASSUME ServeRequests
      PROVE  Current'
  BY <1>12 DEF ServeRequests
<1>13. ASSUME Boot
      PROVE  Current'
  BY <1>13 DEF Boot, Recovered, Valid, Default, Kinds
<1> QED
  BY <1>1, <1>2, <1>3, <1>4, <1>5, <1>6, <1>7, <1>8, <1>9, <1>10, <1>11,
      <1>12, <1>13
  DEF Next, ClientStep, GatewayStep, AddrStep, Writing, Reset, PowerFails

\* Every step of the store is a step of its promise or none.
LEMMA StoreStep ==
  ASSUME TypeOK, Whole, Current, Next PROVE [Store!Next]_<<ram, Recovered,
      late>>
<1> USE ParamAssumption DEF TypeOK, Whole, Current, Addresses, Fields, Values,
    LongAddrs, BootsWhole, Valid, Kinds, Recovered
<1>1. ASSUME NEW f \in Fields \ {"version"}, NEW v \in Of(f), ClientWrites(f, v)
      PROVE  [Store!Next]_<<ram, Recovered, late>>
  <2>1. v \in Values
    BY DEF Of
  <2>2. Store!Change(f, v)
    BY <1>1 DEF ClientWrites, Store!Change
  <2> QED BY <2>1, <2>2 DEF Store!Next
<1>2. ASSUME NEW f \in Params \cup {"short"}, NEW v \in Vals, GatewaySets(f, v)
      PROVE  [Store!Next]_<<ram, Recovered, late>>
  <2>1. Store!Change(f, v)
    BY <1>2 DEF GatewaySets, Store!Change
  <2> QED BY <2>1 DEF Store!Next
<1>3. ASSUME NEW v \in LongAddrs, GatewaySetsAddr(v)
      PROVE  [Store!Next]_<<ram, Recovered, late>>
  <2>1. Store!Change("long", v)
    BY <1>3 DEF GatewaySetsAddr, Store!Change
  <2> QED BY <2>1 DEF Store!Next
<1>4. ASSUME NEW v \in LongAddrs, GatewaySetsVersion(v)
      PROVE  [Store!Next]_<<ram, Recovered, late>>
  <2>1. Store!ChangeTwo("long", "version", v)
    BY <1>4 DEF GatewaySetsVersion, Store!ChangeTwo
  <2> QED BY <2>1 DEF Store!Next
<1>5. ASSUME FallBack
      PROVE  [Store!Next]_<<ram, Recovered, late>>
  <2>1. Store!Change("gateway", DefaultVal)
    BY <1>5 DEF FallBack, Try, Store!Change
  <2> QED BY <2>1 DEF Store!Next
<1>6. ASSUME EndOfTurn
      PROVE  [Store!Next]_<<ram, Recovered, late>>
  BY <1>6 DEF EndOfTurn, SaveFirst
<1>7. ASSUME NothingToSave
      PROVE  [Store!Next]_<<ram, Recovered, late>>
  BY <1>7 DEF NothingToSave, Return
<1>8. ASSUME SaveBegins
      PROVE  [Store!Next]_<<ram, Recovered, late>>
  BY <1>8 DEF SaveBegins,
    Store!Next, Store!Begin
<1>9. ASSUME Erase
      PROVE  [Store!Next]_<<ram, Recovered, late>>
  BY <1>9 DEF Erase, Erased,
    Store!Next, Store!Lose
<1>10. ASSUME NEW f \in left, WriteField(f)
      PROVE  [Store!Next]_<<ram, Recovered, late>>
  <2>1. CASE f = "version"
    <3>1. Recovered = Default /\ Recovered' = page'
      BY <1>10, <2>1 DEF WriteField, InOrder
    <3>2. page' \in [Fields -> Values]
      BY <1>10, <2>1 DEF WriteField, InOrder
    <3>3. \A g \in Fields \ late : page'[g] = ram[g]
      BY <1>10, <2>1 DEF WriteField, InOrder
    <3> QED BY <1>10, <3>1, <3>2, <3>3 DEF WriteField, Store!Next, Store!Keep
  <2>2. CASE f # "version"
    BY <1>10, <2>2 DEF WriteField
  <2> QED BY <2>1, <2>2
<1>11. ASSUME SaveEnds
      PROVE  [Store!Next]_<<ram, Recovered, late>>
  BY <1>11 DEF SaveEnds, Return, LeaveFlag
<1>12. ASSUME ServeRequests
      PROVE  [Store!Next]_<<ram, Recovered, late>>
  BY <1>12 DEF ServeRequests
<1>13. ASSUME Boot
      PROVE  [Store!Next]_<<ram, Recovered, late>>
  BY <1>13 DEF Boot,
    Store!Next, Store!Restart
<1> QED
  BY <1>1, <1>2, <1>3, <1>4, <1>5, <1>6, <1>7, <1>8, <1>9, <1>10, <1>11,
      <1>12, <1>13
  DEF Next, ClientStep, GatewayStep, AddrStep, Writing, Reset, PowerFails

\* Every variable of the store keeps a value of its type.
THEOREM TypeCorrect == Spec => []TypeOK
<1>1. Init => TypeOK
  BY ParamAssumption
  DEF Init, TypeOK, Default, Erased, Addresses, Fields, Values, LongAddrs, Kinds
<1>2. TypeOK /\ UNCHANGED vars => TypeOK'
  BY DEF TypeOK, vars
<1> QED BY <1>1, <1>2, TypeStep, PTL DEF Spec

\* Both inductive invariants hold of every behavior.
LEMMA Inductive == Spec => [](Whole /\ Current)
<1>1. Init => Whole /\ Current
  BY ParamAssumption
  DEF Init, Whole, BootsWhole, Current, Valid, Default, Erased, Addresses,
      Fields, Values,
      LongAddrs, Kinds
<1>2. Whole /\ Current /\ UNCHANGED vars => (Whole /\ Current)'
  BY DEF Whole, BootsWhole, Current, Saved, Valid, vars
<1> QED BY <1>1, <1>2, WholeStep, CurrentStep, TypeCorrect, PTL DEF Spec

\* However the power fails, the device never runs on a page written in part.
THEOREM AlwaysBootsWhole == Spec => []BootsWhole
<1>1. Whole => BootsWhole
  BY DEF Whole
<1> QED BY <1>1, Inductive, PTL

\* No change made while the page is written is forgotten.
THEOREM ChangesAreRemembered == Spec => []NothingForgotten
<1>1. Current => NothingForgotten
  BY DEF Current, NothingForgotten
<1> QED BY <1>1, Inductive, PTL

\* A reset finds everything saved but what was changed too late.
THEOREM ResetsAreSafe == Spec => []SavedBeforeReset
<1>1. Current => SavedBeforeReset
  BY DEF Current, SavedBeforeReset
<1> QED BY <1>1, Inductive, PTL

\* A new version is on the page before the device is reset for it.
THEOREM NewVersionSurvives == Spec => []VersionSurvives
<1>1. Current => VersionSurvives
  BY DEF Current, VersionSurvives, Saved, Addresses, Fields
<1> QED BY <1>1, Inductive, PTL

\* The store implements what SettingsStore promises.
THEOREM PromiseIsKept == Spec => KeepsPromise
<1>1. Init => Store!Init
  BY DEF Init, Store!Init, Recovered, Valid, Erased, Kinds, Addresses, Fields
<1>2. UNCHANGED vars => UNCHANGED <<ram, Recovered, late>>
  BY DEF vars, Recovered, Valid
<1> QED
  BY <1>1, <1>2, StoreStep, TypeCorrect, Inductive, PTL
  DEF Spec, KeepsPromise, Store!Spec
=============================================================================
