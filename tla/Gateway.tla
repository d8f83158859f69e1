------------------------------- MODULE Gateway -------------------------------
(***************************************************************************)
(* What the gateway's frames do to the device: the receive buffer and the  *)
(* parser (KEIL-MDK/FUNC/wireless_comm_services.c), the object whose       *)
(* properties the frames write (FUNC/iotobject.c), and the handler that    *)
(* applies them once in each turn of the main loop (APP/iot_operate.c), in *)
(* the version for collapse meters.  Of a LoRa session only what the       *)
(* buffer sees is left; LoraTask has the rest.                             *)
(***************************************************************************)
EXTENDS Naturals

CONSTANTS
  Publications, \* the writes a publication's answer may carry: functions from
                \* some of the properties, "unknown" ones too, to values
  Shorts,       \* short addresses
  Longs         \* long addresses of this version; one of another is "foreign"

Props == {"short", "offset", "mode", "interval", "long"}

Period == 0   \* PERIOD_MODE
Trigger == 1  \* TRIGGER_MODE

ASSUME GatewayAssumption ==
  /\ \A w \in Publications :
       /\ DOMAIN w \subseteq Props \cup {"unknown"}
       /\ "short" \in DOMAIN w => w.short \in Shorts
       /\ "long" \in DOMAIN w => w.long \in Longs \cup {"foreign"}
  /\ "all" \notin Shorts /\ "foreign" \notin Longs

(***************************************************************************)
(* A frame, told apart by what _parseMasterMsg looks at.  "junk" has a bad *)
(* length, command word or checksum, or another device's or gateway's      *)
(* address; the short address "all" is the broadcast.                      *)
(***************************************************************************)
Connections == [cmd : {"connect"}, long : Longs, short : Shorts]
Answers == [cmd : {"publish"}, to : Shorts \cup {"all"}, writes : Publications]
Tests == [cmd : {"test"}, payload : {"good", "bad"}]
Junk == [cmd : {"junk"}]
None == [cmd |-> "none"]

Frames == Connections \cup Answers \cup Tests \cup Junk

VARIABLES
  rx,      \* the receive buffer
  finish,  \* _frame_finish_flag
  session, \* the LoRa session: "idle", "waiting" for an answer, "answered"
           \* or "stopped"
  conn,    \* lora_conn_status: "offline" or "connected"
  test,    \* a link test is running
  joined,  \* _conn_short_addr_update_flag
  prop,    \* the object's properties
  dirty,   \* those with _propModifyFlag set
  param,   \* the parameters they are for, and the periods of both modes
  dev,     \* collapse_obj.period
  used,    \* history: the frame in the buffer has been carried out
  left,    \* history: why the frame in the buffer was passed over, or "no"
  told,    \* history: the last frame carried out
  pc       \* the main loop: LoRa, one property of iot_operate, or a reset

buffer == <<rx, finish, used, left>>
object == <<joined, prop, dirty, param, dev>>

vars == <<rx, finish, session, conn, test, joined, prop, dirty, param, dev,
          used, left, told, pc>>

Init ==
  /\ \E s \in Shorts, l \in Longs, m \in {Period, Trigger} :
       /\ prop = [short |-> s, offset |-> 0, mode |-> m, interval |-> 3 + m,
                  long |-> l]
       /\ param = [short |-> s, offset |-> 0, mode |-> m, long |-> l,
                   sample |-> 3, trigger |-> 4, period |-> 3 + m]
       /\ dev = 3 + m
  /\ rx = None /\ finish = "no" /\ session = "idle" /\ conn = "offline"
  /\ test = "no" /\ joined = "no" /\ dirty = {}
  /\ used = "no" /\ left = "no" /\ told = None /\ pc = "lora"

-----------------------------------------------------------------------------
(* The session.                                                            *)

\* lora_status_active sends the request for a test, a connection or a
\* publication.
Ask ==
  /\ pc = "lora" /\ session = "idle"
  /\ session' = "waiting"
  /\ UNCHANGED <<buffer, conn, test, object, told, pc>>

\* A frame is kept only when the buffer is empty.
Keep(f) ==
  IF rx = None THEN rx' = f /\ used' = "no" ELSE UNCHANGED <<rx, used>>

\* lora_tx_cplt_cb and _wirelessRxCpltCallBack, the radio's interrupt
Receive(f) ==
  /\ session \in {"waiting", "answered"}
  /\ Keep(f) /\ finish' = "yes" /\ session' = "answered"
  /\ UNCHANGED <<conn, test, object, left, told, pc>>

\* The next attempt, or the end of the attempts.
TryAgain == session' \in {"waiting", "stopped"}

\* A timer's interrupt takes the mailbox from an answer.
PassOver == left' = IF session = "answered" THEN "overtaken" ELSE left

SliceEnds ==
  /\ session \in {"waiting", "answered"}
  /\ session' = "stopped" /\ PassOver
  /\ UNCHANGED <<rx, finish, used, conn, test, object, told, pc>>

ReplyTimesOut ==
  /\ session \in {"waiting", "answered"}
  /\ TryAgain /\ PassOver
  /\ UNCHANGED <<rx, finish, used, conn, test, object, told, pc>>

\* lora_status_stop; failed attempts may take the connection away.
StopEnds ==
  /\ pc = "lora" /\ session = "stopped"
  /\ session' = "idle" /\ conn' \in {conn, "offline"}
  /\ UNCHANGED <<buffer, test, object, told, pc>>

\* A client starts a link test, or it ends.
Switch ==
  /\ pc = "lora" /\ session = "idle"
  /\ test' \in {"no", "yes"}
  /\ UNCHANGED <<buffer, session, conn, object, told, pc>>

-----------------------------------------------------------------------------
(* _parseMasterMsg.                                                        *)

\* Mutated form: the number of bytes received is left in place.
ClearFlagOnly == finish' = "no" /\ UNCHANGED <<rx, left>>

ClearFlags == rx' = None /\ finish' = "no" /\ left' = "no"

Valid(f) ==
  \/ f.cmd = "connect" /\ f.long = prop.long
  \/ f.cmd = "publish" /\ f.to \in {prop.short, "all"}
  \/ f.cmd = "test" /\ f.payload = "good"

Parsing == pc = "lora" /\ session = "answered" /\ finish = "yes"

\* Mutated form: the connection's answer is taken for a write like any other.
NotJoined == UNCHANGED joined

Join == joined' = "yes"

\* Mutated form: the object is written without a flag.
Unmarked(ps) == UNCHANGED dirty

\* _propModifyFlag
Mark(ps) == dirty' = dirty \cup (ps \cap Props)

\* _writeShortAddr and _writeMultiProps through _writePropFromBuf
WriteShort ==
  /\ rx.cmd = "connect"
  /\ prop' = [prop EXCEPT !.short = rx.short] /\ Mark({"short"}) /\ Join

WriteMulti ==
  /\ rx.cmd = "publish"
  /\ prop' = [p \in Props |-> IF p \in DOMAIN rx.writes THEN rx.writes[p]
                                                        ELSE prop[p]]
  /\ Mark(DOMAIN rx.writes) /\ UNCHANGED joined

Write ==
  \/ WriteShort \/ WriteMulti
  \/ rx.cmd = "test" /\ UNCHANGED <<prop, dirty, joined>>

\* The parser does not ask what was requested: with a link test running or no
\* connection a valid frame ends the session at once, else STOP does.
Accept ==
  /\ Parsing /\ rx # None /\ Valid(rx)
  /\ Write /\ ClearFlags /\ used' = "yes" /\ told' = rx
  /\ session' = IF test = "yes" \/ conn = "offline" THEN "idle" ELSE "stopped"
  /\ conn' = IF test = "yes" THEN conn ELSE "connected"
  /\ pc' = "short"
  /\ UNCHANGED <<test, param, dev>>

Reject ==
  /\ Parsing /\ rx # None /\ ~Valid(rx) /\ rx.cmd # "test"
  /\ ClearFlags /\ TryAgain
  /\ UNCHANGED <<used, conn, test, object, told, pc>>

\* The one path that leaves the buffer as it is.
RejectPayload ==
  /\ Parsing /\ rx # None /\ ~Valid(rx) /\ rx.cmd = "test"
  /\ TryAgain /\ left' = "payload"
  /\ UNCHANGED <<rx, finish, used, conn, test, object, told, pc>>

-----------------------------------------------------------------------------
(* iot_operate, a property after the other.                                *)

\* Mutated form: the interval is applied before the mode it is for.
IntervalFirst == [short |-> "offset", offset |-> "interval",
                  interval |-> "mode", mode |-> "long", long |-> "lora"]

\* Mutated form: the two addresses come first.
AddressesFirst == [short |-> "long", long |-> "offset", offset |-> "mode",
                   mode |-> "interval", interval |-> "lora"]

After == [short |-> "offset", offset |-> "mode", mode |-> "interval",
          interval |-> "long", long |-> "lora"]

LoraReset == session' = "idle" /\ conn' = "offline"

\* iot_set_short_addr compares sizeof(value), four, bytes of a two-byte array;
\* the two behind it may be anything.
SetShort(v) ==
  /\ \/ joined = "no" /\ LoraReset
     \/ (joined = "yes" \/ v = param.short) /\ UNCHANGED <<session, conn>>
  /\ joined' = "no" /\ param' = [param EXCEPT !.short = v]
  /\ pc' = After.short /\ UNCHANGED dev

\* The period collapse_iot_set_mode takes over; a mode it does not know
\* changes nothing.
PeriodOf(m) ==
  IF m = Period THEN param.sample
  ELSE IF m = Trigger THEN param.trigger ELSE dev

\* iot_set_time_offset; iot_set_mode sets the mode in force once more.
SetOffset(v) ==
  /\ IF v # param.mode
       THEN param' = [param EXCEPT !.offset = v] /\ dev' = PeriodOf(param.mode)
       ELSE UNCHANGED <<param, dev>>
  /\ pc' = After.offset /\ UNCHANGED <<session, conn, joined>>

SetMode(v) ==
  /\ IF v # param.mode
       THEN param' = [param EXCEPT !.mode = v] /\ dev' = PeriodOf(v)
       ELSE UNCHANGED <<param, dev>>
  /\ pc' = After.mode /\ UNCHANGED <<session, conn, joined>>

\* iot_set_sample_interval refuses 0.
SetInterval(v) ==
  /\ IF v # 0
       THEN /\ param' = [param EXCEPT !.period = v,
                           !.sample = IF param.mode = Period THEN v ELSE @,
                           !.trigger = IF param.mode = Trigger THEN v ELSE @]
            /\ dev' = v
       ELSE UNCHANGED <<param, dev>>
  /\ pc' = After.interval /\ UNCHANGED <<session, conn, joined>>

\* iot_set_long_addr looks at the first four bytes; another version's address
\* restarts the device.
SetLong(v) ==
  /\ \/ v # param.long /\ LoraReset
     \/ UNCHANGED <<session, conn>>
  /\ param' = [param EXCEPT !.long = v]
  /\ pc' = IF v = "foreign" THEN "reset" ELSE After.long
  /\ UNCHANGED <<dev, joined>>

Set(p, v) ==
  \/ p = "short" /\ SetShort(v)
  \/ p = "offset" /\ SetOffset(v)
  \/ p = "mode" /\ SetMode(v)
  \/ p = "interval" /\ SetInterval(v)
  \/ p = "long" /\ SetLong(v)

Apply ==
  /\ pc \in dirty
  /\ Set(pc, prop[pc]) /\ dirty' = dirty \ {pc}
  /\ UNCHANGED <<buffer, test, prop, told>>

Skip ==
  /\ pc \in Props \ dirty
  /\ pc' = After[pc]
  /\ UNCHANGED <<buffer, session, conn, test, object, told>>

Next ==
  \/ Ask \/ SliceEnds \/ ReplyTimesOut \/ StopEnds \/ Switch
  \/ \E f \in Frames : Receive(f)
  \/ Accept \/ Reject \/ RejectPayload
  \/ Apply \/ Skip

Spec == Init /\ [][Next]_vars

-----------------------------------------------------------------------------
(* Properties.                                                             *)

\* Buffer, object and parameters keep values of their types.
TypeOK ==
  /\ rx \in Frames \cup {None} /\ finish \in {"no", "yes"}
  /\ session \in {"idle", "waiting", "answered", "stopped"}
  /\ conn \in {"offline", "connected"}
  /\ test \in {"no", "yes"} /\ joined \in {"no", "yes"}
  /\ DOMAIN prop = Props /\ dirty \subseteq Props
  /\ used \in {"no", "yes"} /\ left \in {"no", "overtaken", "payload"}
  /\ told \in Frames \cup {None} /\ pc \in Props \cup {"lora", "reset"}

\* wireless_comm_services.c keeps one frame and one flag for it, set by every
\* frame that arrives: no frame is carried out twice, however answers, timers
\* and sessions follow each other.
NeverTwice == [][pc = "lora" /\ pc' = "short" => used = "no"]_vars

\* A new answer finds the buffer occupied only if a timer overtook an earlier
\* answer, or a link test's answer had a bad payload: every other path through
\* the parser frees it.
DeafForAReason ==
  session = "waiting" /\ rx # None => left # "no"

\* The parser matches frames with the object's addresses; iot_operate has
\* brought every address, and the mode, to the parameters before the task
\* looks at the next frame, so that a restart finds the same ones.
MatchedIsSaved ==
  pc = "lora" =>
    /\ dirty = {}
    /\ \A p \in {"short", "mode", "long"} : param[p] = prop[p]

\* A frame that restarts the device, by a long address of another version,
\* has had everything else it wrote applied before.
ResetAppliesAll == pc = "reset" => dirty = {}

\* One frame may set a mode and an interval: the interval is that mode's
\* period from then on, and the period the meter runs at.
PeriodReachesMode ==
  pc = "lora" /\ told.cmd = "publish" /\ "interval" \in DOMAIN told.writes =>
    LET v == told.writes.interval
    IN  v # 0 =>
          /\ "mode" \in DOMAIN told.writes => param.mode = told.writes.mode
          /\ param.mode \in {Period, Trigger} => PeriodOf(param.mode) = v
          /\ dev = v /\ param.period = v

\* The short address a gateway assigns with the connection never makes the
\* device drop that connection, as a short address written later may.
ConnectionSurvives ==
  [][told.cmd = "connect" /\ pc \in Props /\ conn = "connected"
       => conn' = "connected"]_vars

-----------------------------------------------------------------------------
(* What the repository says of the handler and its code does not do.       *)

\* iot_operate.c:347: the time offset a gateway sets is saved.
OffsetSaved ==
  pc = "lora" /\ told.cmd = "publish" /\ "offset" \in DOMAIN told.writes =>
    param.offset = told.writes.offset
=============================================================================
