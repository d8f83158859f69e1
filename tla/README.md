# Verification of the wireless collapse meter

TLA+ models, model-checking runs and machine-checked proofs of the firmware in
`src/KEIL-MDK/`: a battery-powered nRF52832 device that measures acceleration
and angle, publishes over LoRa to a gateway, and is configured over Bluetooth.
It is a bare-metal program: one main loop, interrupts, and flags between them.
Nearly everything that can go wrong in it is a matter of *when* an interrupt
falls, and that is what the models are about.

The other directories of the repository are the Nordic SDK and vendored
libraries. The repository has no tests and hardly any documentation; what a
component promises is taken from its code, its assertions (`APP_ERROR_CHECK`,
which resets the device when it fails) and its comments.

## The system

### How it runs

- **Main loop** (`MAIN/main.c:230`). Each turn: schedule tasks
  (`sys_task_schd`), sleep if the low-power table allows it, run one step of
  each task (`task_operate`), exchange IoT properties, save parameters to
  flash, save the battery's charge, serve Bluetooth requests.
- **Tasks** are state machines with two variables: `xxx_state`, a mailbox that
  interrupts and the main loop write, and `xxx_obj.state`, what the task is
  doing. A task asks the processor to stay awake (`LPM_TASK_STA_RUN`), lets it
  sleep (`LPM_TASK_STA_LP`) or is stopped (`LPM_TASK_STA_STOP`).
- **Interrupts**: the SoftDevice's Bluetooth events, seven RTC timers, the
  radio's DIO1 pin, the sensor's pin, the signal-detection pin. All application
  interrupts have the same priority (6 in `config/sdk_config.h`), so one handler
  never interrupts another; each interrupts the main loop anywhere.
- **Scheduler** (`APP/sys_proc.c`): an event word says which tasks to start; the
  stop handlers of the tasks set its bits. Measuring is a chain of such events:
  collapse (measure), LoRa (publish), system low power (sleep), collapse, ...

### Components

| component | state | operations | what makes it correct |
|---|---|---|---|
| LoRa task, `lora_transmission.c` | mailbox, session, connection, failure counter, timers, radio | start, attempt, answer, failure and back-off, stop, reset, link test | a session ends with the right report, never stalls, leaves no timer and no radio running |
| Bluetooth task, `bluetooth_low_power.c` | mailbox, state, SoftDevice, timers | advertise, connect, disconnect, time out | asserted SoftDevice calls succeed, the device never goes deaf |
| Scheduler, `sys_proc.c` | event word, what each task does, `lora_disconn` | schedule, one stop handler per task | the chain never breaks and never doubles |
| Collapse meter, `collapse.c` | mode, sensor latch, pin, event, FIFO, gate | pin interrupt, two timers, event handler, task, mode change | motion is never missed for good, samples get out, the chain goes on |
| Parameter store, `sys_param.c`, `flash.c` | `sys_param`, its flag, the flash page | set, save, reset, start | no change forgotten, no torn settings after a power failure |
| Characteristics handler, `ble_char_handler.c` | request bits, `sys_reset_flag` | one write handler per characteristic, request handlers | ranges as documented, requests served once |
| IoT protocol handler, `iot_operate.c`; object model, `iotobject.c` | properties with change flags | write, apply, reset | a frame is applied completely, in the order its properties need, and saved |
| System low power, `system_low_power.c` | mailbox, state, sleep time | start, time out, stop, reset | one end per sleep, sleep of the right length |
| Low-power table, `low_power_manage.c` | entries | register, cancel, set, query | sleeps exactly if no task needs the processor |
| Wireless protocol, `wireless_comm_services.c` | receive buffer, flags | receive, parse, build | a frame is carried out once, and the buffer is free again |
| Sample FIFO, `easy_fifo.c` | two indices, buffer | write, read | a bounded queue |
| Link test, `lora_lost_rate_test.c` | status, flag, counters, timer, the client's command | start, stop, count, compute | every test has an end, its rate is a share, commands are not lost |
| Battery gauge, `sw_bat_soc.c` | totals, level, flags, run times, flash page | add, compute, report, save | what is told and what is saved keep up with the level |
| Calendar, `calendar.c` | counter, ticks, base, run time | set, get, convert | time neither gained nor lost |
| Timers, `sw_timer_rtc.c`; signal detection, `signal_detect.c` | one timer each, one pin | start, stop, expire | as the SDK's |

They interact by direct calls in the main loop (a task's stop handler posts the
next task's event; the IoT handler resets LoRa and changes the mode of the
meter), by mailboxes (interrupts to tasks), and by shared data (`sys_param`,
which Bluetooth writes in an interrupt while the main loop saves it).

The hard behaviours are: interrupts inside a handler that has read a mailbox
and is about to empty it; timers that outlive the session they were started
for; the sensor's latched line, of which the pin sees only edges; power failing
between erasing and writing the flash; and liveness, since one report without a
successor ends measuring for ever. `PROJECT.json` lists them at their lines.

## The modules

| module | models | composed with |
|---|---|---|
| `LoraTask` | `lora_transmission.c`, with the receive buffer, the radio, its timers and the link-test switch as the task sees them | refines `LoraService` |
| `LoraService` | abstract: what the LoRa task reports to the scheduler, and when | |
| `BleTask` | `bluetooth_low_power.c`, with the SoftDevice and the part of `sys_proc.c` it talks to | |
| `SysProc` | `sys_proc.c`; Bluetooth and sleep are reduced to idle or running | composed with `LoraService` and `CollapseService` |
| `CollapseTask` | `collapse.c` with the sensor's latch, the pin, both timers and a scheduler that starts it at any time | refines `CollapseService` |
| `CollapseService` | abstract: which measurements go on, and what the collapse task reports of them | |
| `ParamStore` | `sys_param.c` and `flash.c`, with the Bluetooth and gateway writes and the reset requests | refines `SettingsStore` |
| `SettingsStore` | abstract: what a store of settings promises | |
| `Calendar` | `calendar.c`: the 24-bit counter, asked by the main loop in steps and by a client in an interrupt | part of `SlpTask` |
| `SlpTask` | `system_low_power.c`: the length of a sleep, its timer, its one end | extends `Calendar` |
| `Gateway` | what frames do: `_parseMasterMsg` and its buffer, `iotobject.c`, `iot_c_operate` | |
| `LinkTest` | `lora_lost_rate_test.c`, the request bits of `ble_char_handler.c`, the reports of `sys_proc.c` that drive a test | |
| `BatSoc` | `sw_bat_soc.c`, with the reply timer's interrupt, the report of `iot_operate.c` and its flash page | |

`MCxxx` instantiates a module for TLC. `LoraTaskProofs`, `SysProcProofs`,
`CollapseTaskProofs`, `ParamStoreProofs`, `SlpTaskProofs`, `GatewayProofs` and
`LinkTestProofs` hold the proofs, `BleBatProofs` those of `BleTask` and `BatSoc`.

The scheduler and the two tasks that make its chain are composed by way of
abstract services. `LoraTask` and `CollapseTask`, where interrupts fall between
any two steps, are shown to implement `LoraService` and `CollapseService`;
`SysProc` holds an instance of each service in their place, adds what the
scheduler does to the service's steps, and takes no step that the services do not
allow. What is shown of `SysProc` so rests on what the tasks really report, also
after an unlucky interrupt. Between the other modules what one task sees of
another (an event, a session's end) is an action of its environment, open to every
order the code allows. `LoraTask` has the session in full and abstracts frames;
`Gateway` has the frames and abstracts the session.

### How state and actions correspond to the code

A variable is named after the C variable it stands for, or its declaration says
which one that is. C flags are two-valued strings. A handler of the main loop is
split exactly where an interrupt could be told apart from one before or after
it: between reading a mailbox and emptying it, between two writes an interrupt
also makes, around a blocking call. `pc` is the place reached. An interrupt
handler is one action. Dropped everywhere: logging, LEDs, payloads.

- **LoraTask.** `cmd` is `lora_state`. `ActiveBegin`/`Transmit`,
  `SuccessBegin`/`ParseFails`/`ParseAccepts`, `FailBegin`/`GiveUp`/`BackOff` and
  `StopBegin`/`StopEnd` are the four status handlers; `Report` is the stop
  handler. `Frames` abstracts received frames to the parser's verdicts, among
  them the wrong link-test reply whose rejection leaves the buffer occupied.
  `answer` is a history variable. As a `LoraService`, a session is open from
  `ActiveBegin` to the handler that closes it; `began` is `lora_pre_conn_status`,
  `again` says that a mailbox or a place of `pc` still holds the cause of another
  report.
- **BleTask.** `mail` is `ble_state`, `air` the SoftDevice's own state. The
  asserted calls have a failing branch that leads to `Reboot`.
- **SysProc.** `Torn` is the load-change-store of `SET_TASK_EVT` cut by the
  signal-detection edge. `slp = "late"` is the sleep timer that fires inside
  `slp_reset`. There is one action for each report of LoRa and of the collapse
  task: the step of the service, and the branch of the stop handler it leads to.
  `asked` is a start that has not opened its session yet. `AfterPublication` is
  what a delivered publication posts: nothing in the collapse version's mode that
  is neither 0 nor 1, which is how a chain may have `Ended`.
- **CollapseTask.** `latch` is the sensor's status register, and the interrupt
  line is high while it is not empty; `edge` is a pending pin interrupt. `mtx` is
  `fifo_mtx`. `mode` is `"OTHER"` for every byte that is neither `PERIOD_MODE` nor
  `TRIGGER_MODE`: the gateway may store it, `SetOther` leaves the sensor and the
  pin as they are, and a device may start with it (`Init`). `struck` is history.
  As a `CollapseService`, a measurement goes on while `collapse_state` is ACTIVE
  or while one is taken up (`TakenUp`), so that there may be two; the pin has ears
  while it is configured; the report being made is told by the place of `pc`
  between the stop handler's call and the end of `collapse_operate` (`Rest`).
- **ParamStore.** A field is written in one step, `object_version` last, as the
  structure is laid out. `late` collects what changed after `flash_write` had
  read it. An address is abstracted to the version its first byte names.
- **Calendar, SlpTask.** `ReadCounter`, `TakeElapse`, `StoreCount`, `AddElapse`
  are `ticks_elapse_get` step by step; `ClientAsks` is the same function in one
  go, in an interrupt. `elapsed`, `lived` and `lost` are history: the ticks that
  really passed, and those a clearing costs. `torn` says that a client's reading
  fell inside one of the main loop.
- **Gateway.** `pc` runs through the properties in the order `iot_c_operate`
  applies them. A frame is what the parser tells apart; `writes` is a function
  from some properties to values, unknown numbers included. `left` says why a
  frame in the buffer was passed over.
- **LinkTest.** Clearing a request bit is a load (`Loaded`) and a store
  (`Store`); interrupts fall between. `meddled`, `asked`, `lost` and `cause` are
  history: what the client did during a test and what became of its command.
- **BatSoc.** `sw_bat_soc_power_calc` is four steps in the main loop and one in
  the reply timer's interrupt. Energy comes in units; a total that was read from
  a torn page is NaN (`bad`), which compares false and converts to 0.

### Interrupts inside a handler

Some stretches of code are fatal if an interrupt falls into them. No run closes
one of them: in every run interrupts fall everywhere. Where the harm is done, a
history variable remembers it, and the properties that need it say so:
`CollapseTask.struck`, `BleTask.hit`, `Calendar.torn`, `SlpTask.crossed`,
`BatSoc.cut`, `LinkTest.lost`. Such a property shows that nothing *else* leads to
the harm; the properties without the condition hold of the harmed device too.

`SysProc.Preempt` is a constant that closes them (inside an update of the event
word, `slp_reset` or a handler of LoRa); it is `TRUE` in the run, and the proofs
cover both values.

What the properties except, and so do not catch, is this. Each exception is
behaviour of the code that the model contains, and most are listed again under
"What the models found".

| hazard | excepted by |
|---|---|
| the back-off timer outlives its session (`lora_transmission.c`) | `IdleMeansQuiet`, which is silent on that timer |
| an event inside a handler of the Bluetooth task | `NeverDeaf` until `hit`; `DisconUpdatesState` is violated by it |
| an interrupt in one of the four stretches of `collapse.c` | `Listens` and `KeepsWriting` until `struck` |
| a mode that is neither 0 nor 1 (`sys_proc.c:230`) | `ChainAlive` (`Ended`), `WaitsForMotion`, `KeepsPublishing` |
| the gateway's address is changed without raising the flag | `NothingForgotten`, of that field |
| a client reads the clock inside the main loop's reading | `ClockTrue` until `torn` |
| a sleep longer than the timer's range | `SleepEnds`, `WakesOnGrid` |
| the sleep timer fires inside `slp_reset` | `OneEndPerSleep` (`crossed`) |
| a link-test answer that stays in the buffer | `DeafForAReason` (`left = "payload"`) |
| a client's command overwritten by the device | `CommandWaits` (`lost`) |
| a computation of the battery's level cut into another | `GaugeTold` (`cut`) |
| power lost inside the write of the battery's page | `ResetGivesALevel`, `LevelSaved` (`bad`) |

## The runs

| run | instance | shows |
|---|---|---|
| `lora_task` | no retry limit, counter saturating at 2, replies resolve within a slice | radio and timers quiet between sessions; an answered session is never reported lost, a confirmed one was answered; attempts go on; refinement of `LoraService` |
| `lora_slice` | as above, counter 1 | *violated*: a session ends (`sys_param.h:59`). STOP is overwritten by a handler that empties the mailbox |
| `ble_task` | bounded advertising, events anywhere | advertising never started in the wrong state; advertising always ends; until an event falls inside a handler, the device never goes deaf and LoRa is retried while it has no gateway |
| `ble_discon` | the same | *violated*: a disconnection updates the state (`bluetooth_low_power.c:176`) |
| `sys_proc` | collapse version, any mode, torn updates, LoRa and measuring as their services, two disturbances | the chain ends only in a mode that is neither periodic nor trigger, by a publication delivered there or by waiting for motion; elsewhere it waits only for motion that can come; Bluetooth is alive, one chain, publishing goes on |
| `collapse_task` | FIFO of 2, any mode, interrupts everywhere | the device goes deaf to motion by an interrupt in one of four stretches and in no other way, and hears again once the mode is set anew with nothing latched; samples get out, a measurement held back included; writing goes on; refinement of `CollapseService` |
| `param_store` | one parameter, two values, three addresses | changes are never forgotten; a reset comes after saving; a new version survives it; refinement of `SettingsStore` |
| `sleep` | counter of 13 ticks cleared above 5, 2 ticks a second, intervals 0, 2 and 3, offsets 0 and 1, a timer of 4 s | the clock is true to the ticks a clearing costs; a sleep ends, ends once, and on the grid of its interval |
| `gateway` | two short addresses, two long ones and a foreign one, answers that write modes 0 to 2, intervals 0 and 8, offsets, an unknown property | a frame is carried out once; the buffer is occupied for one of two reasons only; addresses and mode are saved before the next frame; a restart loses nothing of its frame; an interval reaches the mode of its frame; a connection survives its own short address |
| `gateway_offset` | one short address | *violated*: the time offset is saved (`iot_operate.c:347`). It is compared with the mode |
| `link_test` | counts 0 and 2, times 0 and 1, every command | the rate is a share; a test has an end before it and reaches it; commands are lost only as named |
| `battery` | three levels of two units, run times to 2 | the level told and the level saved keep up with the totals; a reset gives back at most a level; the Bluetooth time is true |

The runs are kept to the questions that take several steps or several actors to
get wrong. Type invariants and simpler facts (the processor awake for a reason, a
shut gate timed, a stop that sticks, ...) are theorems instead, which cover every
instance.

### Bounds, and why they are enough

- `FailCap` saturates the LoRa failure counter. The code compares it with 0, 1
  (link tests) and the limit `~0u`, which no counter reaches; 2 keeps "none",
  "one" and "more" apart.
- `Budget` in `SysProc` bounds clients leaving, link tests, resets, mode changes,
  measurements doubled by a timer and sessions that report twice or open by
  themselves, together. Each may add one link to the measuring chain (that is what
  `OneChain` says), so an unbounded number is not finite-state; two let any pair of
  them fall around one another, and the proofs have no bound.
- `SlowLink = FALSE` in `SysProc`: a reply comes or times out within a session;
  the proofs cover both values.
- `Cap` in `CollapseTask` is the number of samples, not of bytes; 2 keeps empty,
  partly filled and full apart.
- `Modes` in `CollapseTask` and `CollapseService`: the code compares a mode with 0
  and 1 only, so one value, `"OTHER"`, stands for every other byte.
- One parameter and two values in `ParamStore`: the store treats all parameters
  alike and only compares values; each kind of address, which it does tell
  apart, is there.

- `Modulus`, `ClearAbove`, `MaxGap` and `TimerWrap` in `SlpTask` keep the
  proportions of 2^24, 0xEFFFFF, the longest time between two readings and
  131072 s: the counter is cleared, and could wrap, several times in a behaviour
  of `Horizon` ticks, and a sleep may exceed the timer's range. Of intervals of 0
  and of sleeps beyond that range the properties of the sleep say nothing.
- `Publications` in `Gateway` are chosen for what the handler compares: a mode
  with an interval in one frame, a mode and an interval nothing accepts, an offset
  that equals a mode and one that does not, either address, an unknown number.
- `MaxTx` in `LinkTest` bounds the exchanges of a test without a count; counts are
  compared with it by `>=` only, so 2 keeps "first", "last" and "past" apart.
- `Levels` and `Unit` in `BatSoc`: consumptions of 0 or 1 unit, two to a level, so
  that a computation changes the level or does not; the battery may be emptied,
  and by one unit more.

The proofs cover every value of these constants.

### Deadlock

Deadlock is checked except in five runs. In `ble_task` and `ble_discon` the
device can really stop: a disconnection erased by the connection's handler leaves
a task without mail, timers or events. In `gateway` and `gateway_offset` a frame
that restarts the device ends the behaviour (`pc = "reset"`), and in `sleep` the
bound `Horizon` does.

### Fairness

Weak fairness of the main loop's steps and of expiring timers everywhere: the
loop has no blocking wait that an interrupt does not end, and the RTC runs.
Beyond that:

- `LoraTask`: nothing else. The gateway may be silent for ever.
- `BleTask`: a connected client leaves some time (the supervision timeout ends a
  dead connection). Clients need not come.
- `SysProc`: strong fairness of measuring, of new connections (`LinkReported`) and
  of ending link tests, because the gateway, the sensor and the client are outside
  the device: the property speaks of a gateway that answers now and then. The end of
  a session without a connection is weakly fair, since the time slice ends it.
  So is an awaited motion: the sensor moves, and its pin is not deaf, which is what
  `CollapseTask.Listens` shows up to the four stretches.
- `CollapseTask`: strong fairness of the handler's steps and the scheduler's,
  since interrupts disable them for the length of an interrupt handler (hundreds
  of microseconds) again and again; of motion that reaches an enabled pin, which
  is the premise "continuous motion" of `collapse.h:7`; and of a turn that finds a
  motion's event, which a frame that sets the mode would have to hit each time.
- `LinkTest`: a timer fires; and strong fairness of the next exchange, of late
  stops and, for a test that does not repeat itself, of the end of its session,
  which the client's requests only hold up. A test that repeats itself may wait
  for an answer without end, so `TestEnds` is not stated for it.
- `ParamStore`, `SlpTask`, `Gateway` and `BatSoc` have safety and action
  properties only.

## The proofs

All are checked by TLAPS for every value of the constants.

- **LoraTask.** `TypeCorrect`; `QuietBetweenSessions`; `SessionsWakeUp`;
  `NeverIdlyAwake`; `AnsweredSessions`; `ConfirmedSessions` (assuming
  `~SlowLink`). None of the invariants is inductive by itself: between two steps
  of a handler the radio may be on or the mailbox empty. The strengthening says,
  for each place of `pc`, what is still to be switched off and who will fill
  the mailbox. `ServiceIsKept`: every step is a step of `LoraService` or none. It
  needs `LeftOver`, which says of each mailbox and place what report may still come
  of it, and that a session counts as closed once its handler has decided so.
- **BleTask.** `TypeCorrect`; `StartsWhenSilent`; `AdvertisingIsBounded`;
  `NeverIdlyAwake`; and `NotDeaf`, until an event falls inside a handler. The key
  is that the task's state is IDLE with a silent SoftDevice unless a disconnection
  or a timeout is on its way.
- **SysProc.** `TypeCorrect`; `BleIsAlive`; `ChainIsAlive`;
  `ChainWaitsForMotion`; `ChainIsOne`. A mode may be any byte: `ChainIsAlive` says
  that a chain with nothing to wait for was ended by a publication delivered in a
  mode that is neither, and `ChainWaitsForMotion` (by way of `Rests`) that a chain
  at rest in trigger mode has a configured pin and a measurement the motion will
  start, and that none is at rest in periodic mode. An update of the event word may
  be torn, but what it drops is the event of an interrupt, which is BLE, and
  Bluetooth restarts itself. `OneChain` counts places and is not inductive: a motion that is awaited, a
  retry that Bluetooth owes and a test that was asked for become links in a step that
  costs nothing. `Paid` counts those too: every step puts one thing in the place of
  another or was paid for out of `Budget`. That a session asked for has not been
  opened by someone else (`NotYetOpen`) is what keeps a report from being counted
  twice.
- **CollapseTask.** `TypeCorrect`; `WakesForMeasuring`; `GateIsTimed`;
  `HeldBackIsResumed`; `ServiceIsKept`; and `NeverDeaf`. All hold wherever
  interrupts fall. `NeverDeaf` assumes nothing: its invariant (`Unharmed`) says that
  until `Strike`, and again once the mode was set anew with nothing latched, the
  latch is cleared or the pin enabled by something that is on its way (`Attended`),
  at each stage of the event handler (`Stages`), also in periodic mode, where a
  latch outlives the visit. The invariant of `ServiceIsKept` (`Promised`) says that
  edges arrive at a configured pin only, that the pin is configured in trigger mode
  and released in the periodic one, whatever modes were set since, that a periodic
  measurement has stored what it is about to read, and that one past its entry has
  marked the task.
- **ParamStore.** `TypeCorrect`; `AlwaysBootsWhole`; `ChangesAreRemembered`;
  `ResetsAreSafe`; `NewVersionSurvives`; and `PromiseIsKept`, that every step of
  the store is a step of `SettingsStore` or none. Two invariants carry them:
  `Whole` (a page carries a version only when it carries everything else) and
  `Current` (during a write, a field that differs from the one in use has raised
  the flag and is named by `late`).

- **SlpTask.** `TypeCorrect`; `ClockKeepsTime`; `RunTimeIsTrue`;
  `SleepsAreBounded`; `SleepsEnd`; `SleepsEndOnce`; `SleepsOnGrid`.
  The clock's invariant says, at
  each step of a reading, how far the counter is from what was read of it; that it
  never wraps unseen rests on `ClearAbove + MaxGap < Modulus`. The length of a sleep
  needs the remainder of a division by any interval, which is a lemma; that it ends on
  the grid of its interval needs the lapse of time between the reading the length was
  computed from and the start of the timer (`GridInv`).
- **Gateway.** `TypeCorrect`; `DeafForTwoReasons`; `AddressesAreSaved`;
  `RestartIsLast`; `IntervalsReachTheirMode`; `FramesOnce`; `ConnectionsSurvive`.
  The invariant `Ahead` says which properties may still be flagged at each place of
  the handler; `ToldInv` that those of the last frame are flagged until then and in
  force after it.
- **LinkTest.** `TypeCorrect`; `RateIsAShare`; `TestsWillEnd`;
  `StaleTimersAreMade`; `TestsMayStart`; `CommandsWait`; `StopsStick`. A late stop
  reported as an exchange is why `CountInv` counts by place and kind of session; a
  timer belongs to the test that started it or the client has meddled (`EndInv`).

- **BatSoc.** `GaugeTypeCorrect`; `GaugeIsTold`; `LevelIsSaved`; `ResetsGiveALevel`;
  `BleTimeIsTrue`. The level exists four times (computed, kept, told, saved) and an
  interrupt may recompute it between any two. `UsedInv`, `HighInv`, `PageInv`,
  `ToldInv` and `BehindInv` order the copies at each place of a computation, a
  report and a save, and say which flag is raised while one of them is behind. Under
  them lie lemmas on the division of the totals into levels: a unit more costs at
  most a level.

The assumptions are the named ones of the modules (`LoraAssumption`, ...), which
give the constants their types and, for the counter, its proportions.

Only model-checked: the liveness properties (`AttemptsContinue`, `RetriesLora`,
`KeepsPublishing`, `SamplesGetOut`, `KeepsWriting`, `TestEnds`), since liveness
under fairness is out of the prover's reach. Every other property of a passing run
is a theorem as well. That the
properties bite is shown by one changed definition per property (the operators
marked "Mutated form"), with which TLC finds the property violated.

## What the models found

1. The STOP of the LoRa time slice can be overwritten; the session then lasts
   until a gateway answers (`lora_slice`).
2. A disconnection inside the connection's handler is erased: the device is deaf
   until it resets (`ble_discon`).
3. A time offset that equals the number of the mode in force is dropped
   (`gateway_offset`).

Other behaviour of the code that the models contain, which the conditions of the
properties name, and which no run is devoted to:

- An interrupt inside the handler that closes a session, or inside a reset, leaves
  a command behind, and the task reports a second time (`LoraService.again`): LINK
  and then OFFLINE when the slice ends while a connection is accepted, CONNECT after
  a session was reported DISCON. An answer that comes then makes a connection
  outside any session.
- A back-off timer that outlives its session starts an attempt in another one and
  initialises the SPI driver twice (`DoubleInit`), or opens a session nobody asked
  for, which is judged by the `lora_pre_conn_status` of an earlier one.
- The timer between two samples is not stopped when the trigger mode is left
  (`CollapseService.Double`): it fires inside a periodic measurement, or between a
  measurement's being taken up and the look at the gate, and a second one follows
  that the scheduler did not ask for, with a second chain of events behind it.
- The advertising timeout overwrites a connection, and the asserted stop of an
  advertising that is over resets the device (`StopAdv`).
- In each of the four stretches of `CollapseTask` a motion leaves the pin disabled
  or the latch set: no more samples until the mode is set anew with nothing latched
  (`struck`).
- The gateway may set the mode of the collapse version to any byte
  (`iot_operate.c:304`), which is saved; `sys_param.h:51` names 0 and 1 only. In
  such a mode nothing is measured: the samples the FIFO still holds are published,
  and when such a publication is delivered no event is posted (`sys_proc.c:230`) and
  the chain is over (`Ended`); without a sample the chain waits for a motion, which
  the pin of a device that was not in trigger mode does not hear. A link test or a
  reset starts a chain that ends in the same way.
- A client that reads the time inside the main loop's own reading makes the clock
  run ahead for good (`torn`); a sleep timer that expires inside `slp_reset` ends a
  sleep that was called off (`crossed`).
- A link-test answer with a bad payload stays in the buffer, and every later frame
  is dropped (`left = "payload"`).
- A client's command for a link test is lost when it is written while the main loop
  clears the bits of the parameters, or when the device writes its own state over
  it (`lost`).
- Power lost inside the write of the battery's page leaves one that passes for
  whole, since its mark is written first: the level is 0 from then on, or until
  the standby total is computed anew (`bad`).

## What is not modelled

- Vendored code: the Nordic SDK, the SoftDevice (as far as the Bluetooth task
  sees it, it is part of `BleTask`), the Bosch sensor library. They are the larger
  part of the repository, and configuration, register definitions and drivers for
  other boards the larger part of them.
- Data: frames byte by byte and their building, acceleration and angle arithmetic,
  filters, the date computed from the clock (nothing depends on it), what is
  published and shown.
- The index arithmetic of the sample FIFO and the search of the low-power table:
  sequential code whose users are all in the main loop. The FIFO is a counter of
  samples in `CollapseTask`, each task has its own entry of the table.
- Ranges of characteristics: `VERIFY_DATA` reads a value as signed, so that
  advertising times of 32768 s and more are refused, although 65535 is documented.
  A long address a client writes may name another version than `object_version`;
  `ParamStore` lets the two differ, and no document says they must agree.
- The inclinometer task, its branch of the IoT handler and the software signal
  detection, which this version of the product never starts; the DFU entry; the
  debug console; the hardware battery gauge.
- Undefined behaviour: setting the periodic mode twice (by way of the time offset),
  or from a device that started in a mode that is neither, makes the GPIOTE driver
  release a pin it does not hold. `Gateway` has the frame that does so;
  `CollapseTask` leaves out the second call, and takes the other one for a release
  without effect.

## Plan

Done, in this order: LoRa task, Bluetooth task, scheduler, collapse meter,
parameter store with its abstract specification, clock and sleep, gateway frames,
link test, battery gauge. What a next step would be worth:

1. Services for Bluetooth and for sleep, refined by `BleTask` and `SlpTask`, in the
   place of the two tasks `SysProc` still reduces to idle or running.
2. A composition of `LoraTask` with `Gateway` over the receive buffer both model, so
   that frames and sessions are told apart in one state.
3. The requests of a client (`ble_char_handler.c`) other than link tests, as far as
   the parameters they write are used by more than one task.
