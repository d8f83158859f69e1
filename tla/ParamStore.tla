------------------------------ MODULE ParamStore ------------------------------
(***************************************************************************)
(* The persistent parameters: the structure sys_param                      *)
(* (KEIL-MDK/FUNC/sys_param.c), which Bluetooth writes change from an      *)
(* interrupt and the gateway's commands from the main loop, and the flash  *)
(* page (FUNC/flash.c) the main loop saves it to.  Saving takes tens of    *)
(* milliseconds, reads sys_param while it writes, and power may fail at    *)
(* any time.                                                               *)
(***************************************************************************)
CONSTANTS
  Params,     \* the parameters other than addresses and version
  Vals,       \* the values of a parameter and of the other addresses
  DefaultVal

Kinds == {"inclinometer", "collapse"}

LongAddrs == Kinds \cup {"foreign"}

Addresses == {"long", "short", "gateway"}

Fields == Addresses \cup {"version"} \cup Params

Values == LongAddrs \cup Vals

ASSUME ParamAssumption ==
  /\ Params \cap (Addresses \cup {"version"}) = {}
  /\ DefaultVal \in Vals /\ "erased" \notin Vals

\* A long address is abstracted to the version its first byte names; "erased"
\* is what an erased page reads as.
Default ==
  [f \in Fields |-> IF f \in {"long", "version"} THEN "inclinometer"
                                                 ELSE DefaultVal]

VARIABLES
  ram,    \* sys_param; ram["version"] is object_version
  page,   \* the flash page
  flag,   \* update_flag
  req,    \* dev_param_req
  reset,  \* sys_reset_flag
  after,  \* where saving returns to: "handler", or "reset" when
          \* iot_set_long_addr has called it
  left,   \* the fields flash_write has still to write
  late,   \* the fields changed since flash_write read them, or might have
  pc

vars == <<ram, page, flag, req, reset, after, left, late, pc>>

Erased == [f \in Fields |-> "erased"]

\* The first start of a device: sys_param_init has taken the defaults.
Init ==
  /\ ram = Default /\ page = Erased /\ flag = "yes"
  /\ req = "no" /\ reset = "no" /\ after = "handler"
  /\ left = {} /\ late = {} /\ pc = "turn"

-----------------------------------------------------------------------------
(* Changes.                                                                *)

Of(f) == IF f = "long" THEN LongAddrs ELSE Vals

\* The flag sys_param_set raises when a byte differs.
Mark(f, v) == flag' = IF ram[f] # v THEN "yes" ELSE flag

\* The write handlers of ble_char_handler.c, in the SoftDevice's interrupt.  An
\* address asks for a reset, if anything is unsaved.
ClientWrites(f, v) ==
  /\ ram' = [ram EXCEPT ![f] = v] /\ Mark(f, v)
  /\ IF f \in Params
     THEN UNCHANGED <<req, reset>>
     ELSE req' = "yes" /\ reset' = IF flag' = "yes" THEN "yes" ELSE reset
  /\ late' = IF pc \in {"write", "saved", "reset"} /\ ram[f] # v
             THEN late \cup {f} ELSE late
  /\ UNCHANGED <<page, after, left, pc>>

ClientStep ==
  \E f \in Fields \ {"version"} : \E v \in Of(f) : ClientWrites(f, v)

\* The iot_set_* functions, but for the long address.
GatewaySets(f, v) ==
  /\ pc = "turn"
  /\ ram' = [ram EXCEPT ![f] = v] /\ Mark(f, v)
  /\ UNCHANGED <<page, req, reset, after, left, late, pc>>

GatewayStep == \E f \in Params \cup {"short"} : \E v \in Vals : GatewaySets(f, v)

\* iot_set_long_addr with an address of the device's version or of none.
GatewaySetsAddr(v) ==
  /\ pc = "turn" /\ v \notin Kinds \ {ram["version"]}
  /\ ram' = [ram EXCEPT !["long"] = v] /\ Mark("long", v)
  /\ UNCHANGED <<page, req, reset, after, left, late, pc>>

\* Mutated form: the flag is left to the comparison of the addresses.
Unforced(v) == Mark("long", v)

Forced(v) == flag' = "yes"

\* iot_set_long_addr with an address of the other version: the parameters are
\* saved and the device reset.
GatewaySetsVersion(v) ==
  /\ pc = "turn" /\ v \in Kinds \ {ram["version"]}
  /\ ram' = [ram EXCEPT !["long"] = v, !["version"] = v] /\ Forced(v)
  /\ pc' = "save" /\ after' = "reset"
  /\ UNCHANGED <<page, req, reset, left, late>>

AddrStep ==
  \E v \in LongAddrs : GatewaySetsAddr(v) \/ GatewaySetsVersion(v)

Try(a) == ram' = [ram EXCEPT !["gateway"] = a]

\* ble_task_stop_handler: without a gateway the default one is tried, but not
\* saved.
FallBack ==
  /\ pc = "turn" /\ Try(DefaultVal)
  /\ UNCHANGED <<page, flag, req, reset, after, left, late, pc>>

-----------------------------------------------------------------------------
(* Saving, in the main loop.                                               *)

\* Mutated form: the requests of the clients are served before the saving.
ServeFirst == pc' = IF reset = "yes" THEN "reset" ELSE "save"

SaveFirst == pc' = "save"

EndOfTurn ==
  /\ pc = "turn" /\ SaveFirst
  /\ UNCHANGED <<ram, page, flag, req, reset, after, left, late>>

Return == pc' = IF after = "reset" THEN "reset" ELSE "saved"

\* sys_save_param_to_flash with nothing to save.
NothingToSave ==
  /\ pc = "save" /\ flag = "no" /\ Return
  /\ UNCHANGED <<ram, page, flag, req, reset, after, left, late>>

\* The flag is lowered before the parameters are read.
SaveBegins ==
  /\ pc = "save" /\ flag = "yes"
  /\ flag' = "no" /\ late' = {} /\ pc' = "erase"
  /\ UNCHANGED <<ram, page, req, reset, after, left>>

Erase ==
  /\ pc = "erase" /\ pc' = "write"
  /\ page' = Erased /\ left' = Fields
  /\ UNCHANGED <<ram, flag, req, reset, after, late>>

\* object_version is the last of the fields.
InOrder(f) == f = "version" => left = {"version"}

WriteField(f) ==
  /\ pc = "write" /\ f \in left /\ InOrder(f)
  /\ page' = [page EXCEPT ![f] = ram[f]] /\ left' = left \ {f}
  /\ UNCHANGED <<ram, flag, req, reset, after, late, pc>>

Writing == \E f \in left : WriteField(f)

\* Mutated form: the flag is lowered after the writing, too.
LowerAgain == flag' = "no"

LeaveFlag == UNCHANGED flag

SaveEnds ==
  /\ pc = "write" /\ left = {}
  /\ Return /\ LeaveFlag
  /\ UNCHANGED <<ram, page, req, reset, after, left, late>>

\* dev_cfg_char_change_handler: an address a client has changed resets the
\* device.
ServeRequests ==
  /\ pc = "saved"
  /\ req' = "no"
  /\ pc' = IF req = "yes" /\ reset = "yes" THEN "reset" ELSE "turn"
  /\ UNCHANGED <<ram, page, flag, reset, after, left, late>>

-----------------------------------------------------------------------------
(* Restarts.                                                               *)

Valid == page["version"] \in Kinds

\* Mutated form: only what was not written takes its default.
FieldByField ==
  [f \in Fields |-> IF page[f] = "erased" THEN Default[f] ELSE page[f]]

Recovered == IF Valid THEN page ELSE Default

\* sys_param_init
Boot ==
  /\ ram' = Recovered
  /\ flag' = IF Valid THEN "no" ELSE "yes"
  /\ req' = "no" /\ reset' = "no" /\ after' = "handler"
  /\ left' = {} /\ late' = {} /\ pc' = "turn"
  /\ UNCHANGED page

\* sys_reset
Reset == pc = "reset" /\ Boot

PowerFails == Boot

Next ==
  \/ ClientStep \/ GatewayStep \/ AddrStep \/ FallBack
  \/ EndOfTurn \/ NothingToSave \/ SaveBegins \/ Erase \/ Writing \/ SaveEnds
  \/ ServeRequests \/ Reset \/ PowerFails

Spec == Init /\ [][Next]_vars

-----------------------------------------------------------------------------
(* Properties.                                                             *)

\* Every variable of the store keeps a value of its type.
TypeOK ==
  /\ ram \in [Fields -> Values \cup {"erased"}]
  /\ page \in [Fields -> Values \cup {"erased"}]
  /\ {flag, req, reset} \subseteq {"yes", "no"}
  /\ after \in {"handler", "reset"}
  /\ left \subseteq Fields /\ late \subseteq Fields
  /\ pc \in {"turn", "save", "erase", "write", "saved", "reset"}

\* A field is saved; the gateway address may be the default one tried for want
\* of a gateway.
Saved(f) ==
  page[f] = ram[f] \/ (f = "gateway" /\ ram[f] = DefaultVal)

\* However the power fails, the device never runs on a page written in part.
BootsWhole == ram \in [Fields -> Values] /\ ram["version"] \in Kinds

\* No change is forgotten: wherever a write falls in the saving, what is not on
\* the page will be saved.
NothingForgotten == pc = "turn" /\ flag = "no" => \A f \in Fields : Saved(f)

\* A client's reset finds everything saved but what was changed while it was
\* being saved or after.
SavedBeforeReset ==
  pc = "reset" => \A f \in Fields \ late : Saved(f)

\* A reset for the sake of a new version finds that version on the page: the
\* gateway need not ask twice.
VersionSurvives ==
  pc = "reset" /\ after = "reset" => page["version"] = ram["version"]

Store == INSTANCE SettingsStore
  WITH want <- ram, kept <- Recovered, moving <- late

\* The store keeps its promise: a restart brings back the defaults or a complete
\* set of settings.
KeepsPromise == Store!Spec
=============================================================================
