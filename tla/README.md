# Verification of the remote pump firmware

TLA+ models, TLC runs and TLAPS proofs about the firmware of a remotely
controlled water pump (LN882H, FreeRTOS, C++), and about the parts of its
Android app and of its upload tool that work against it asynchronously. Source paths below are relative
to the repository root. `PROJECT.json` ties every definition to the lines it
models, every run to its properties and every property to the hazard it is for.

## 1. The system

A relay contact and a TRIAC in parallel switch the pump. A current sensor
watches it; a protection layer stops the pump when it runs dry, jams or
overloads. Commands come from a button and, as JSON, from an app over MQTT or
WebSocket. Settings are kept in a key-value area of the flash, logs in LittleFS.

| Component | State it keeps | Operations | Talks to |
|---|---|---|---|
| Relay driver (`src/RelayController`) | `_on`, `_step` 0-4, `_lastAction`, two pins | `turnOn`, `turnOff`, `toggle`, `handle` | pins; called by the pump controller only |
| Pump protection (`src/PumpController`) | `_state`, `_faultLatched`, three start stamps, thresholds | `update`, `turnOn/Off`, `toggle`, `clearPumpFault`, setters | relay driver (calls), `onPumpState` (callback) |
| Current sensor (`src/CurrentSensor`) | window, current, power, energy of the hour and the day | `loop`, calibration, counter resets | read by the protection, the status, the energy task |
| Energy account (`taskEnergyLog` of `src/main.cpp`, `src/DataManager`, `src/log/PowerLog`) | the hour it is in, totals in RAM and in `data.bin`, hourly entries | close an hour: log, add, save, reset | sensor (higher task), clock (higher task), LittleFS |
| File browser (`src/FileBrowser`) | none | `listDir`, `readFile`, `deleteItem` | LittleFS; asked by the app through the command handler |
| LED (`src/LedController.h`) | pattern | `on`, `off`, `blink` | set by `onPumpState` and by the button's long press |
| Tasks (`src/main.cpp`) | priorities, start-up order, WiFi mode | `setup`, sensor, ws, mqtt, stream, energy, button, watchdog tasks | everything; no lock anywhere |
| Boot guard (`src/OtaBootGuard`) | one flash key, reboot cause | guard, hold and release pattern, one download | runs before the scheduler |
| Command handler (`src/CommandHandler`) | stream deadlines, scan and restart flags | one handler per command | pump, configuration, update, logs, files |
| Configuration (`src/ConfigManager`) | `DeviceConfig` in RAM and flash | load, save, reset | flash; read by everything |
| Firmware update (`src/OTAManager`) | `_running`, written bytes | URL download, stream start/chunk/end/abort | flash |
| Logs (`src/log/*`) | boot buffer, queue, day files | capture, flush, write, rotate, migrate | LittleFS, time manager |
| MQTT, WebSocket (`src/MqttClient`, `src/WebSocketServer`) | connection, client count | loop, publish, broadcast | command handler |
| App channels (`app-android/.../data/remote`) | client or socket, jobs, connection state per channel | start, stop, restart, send | MQTT broker or device |
| App repositories (`app-android/.../data/repository`) | request ids, pages, buffers, copies of the logs | log sync, pump commands | channels |

What makes this code hard:

* **Interleaving.** The sensor task (priority 4, every 20 ms) calls
  `PumpController::update()`; the WebSocket and MQTT tasks (3) and the button
  task (1) call `turnOn`, `turnOff`, `toggle` and `clearPumpFault` on the same
  object. Nothing is locked: the sensor task may run between any two statements
  of such a call.
* **Timing.** The switching sequence waits twice, for different times, with one
  time stamp, and may be redirected by a new command in the middle.
* **Stale data.** Voltage and current share one measuring circuit, so the
  protection acts on a current up to about two seconds old.
* **Latches and timers** that survive commands, mode changes and settings.
* **Power cuts** between any two steps of the emergency update and of a save.
* **A clock that is set from outside**, read in two halves by a lower task.
* **Asynchronous networks** in the app: callbacks after a stop, answers before
  their request is registered or after its timeout, files that change meanwhile.

`PROJECT.json` lists the hazards one by one, at the line where each bites. Two
have no property, and a note that says why: the download of the emergency update
that a silent server can hold for ever (`OtaBootGuard.cpp:212`) and the pump time
counted in the wrong unit (`main.cpp:541`). Smaller ones met on the way are not in that list: a stream's
deadline at the wrap of `millis()` (`CommandHandler.cpp:167`), the scan flag that
only an event clears (`CommandHandler.cpp:911`), one `PubSubClient` buffer filled by
several tasks (`MqttClient.cpp:67`), two calibrations in one window
(`CurrentSensor.cpp:106`), the LED after an event that a trip overtakes
(`PumpController.cpp:150`) and the page's waits without limit
(`tools/web_debug/js/uploader.js:73`).

## 2. The modules

```
HybridSwitch  <--refined by--  RelayTiming --extends--> RelayController
                                                             ^
MCPumpController --> PumpController  --------- extends ------+
MCPumpTasks --> PumpTasks --extends--> PumpController   (and refines it when serial)
SystemLog --extends--> LogCapture
HybridChannel --extends--> MqttChannel, WebSocketChannel
MCLogSync --> LogSync
EnergyAccount   DeviceSettings   FirmwareUpload   OtaBootGuard
*_proofs: Relay (RelayController, RelayTiming), Pump (PumpController, PumpTasks),
          DeviceSettings, SystemLog, EnergyAccount, Firmware (FirmwareUpload, OtaBootGuard),
          HybridChannel, LogSync
```

**RelayController** is the driver as operators on one record: `on`, `step`,
`contact` and `gate` are `_on`, `_step` and the two pins, `age` is
`millis() - _lastAction`, which the code only compares with the settle times.
`TurnOn`, `TurnOff` and `Handle` are the three functions with their `switch` and
early returns; they are operators and not actions because the callers run them
inside their own steps. `_onTime` and the on-duration callback, which nothing
registers, are left out.

**RelayTiming** drives it: any command at any moment, `handle()`, time. Two
observer clocks measure the pins themselves, not the code's time stamp.

**HybridSwitch** is what the driver promises without step numbers: the contact
moves only after the TRIAC has conducted for the first settle time, the TRIAC is
released only when the contact has rested for the second, and both happen.

**PumpController** composes the driver with the protection, the sensor, the LED
and the plant. `Update` is the whole `update()`: `handle()` first, the early
return of a latched fault, the threshold band, the three timers, the change of
state, the trip, the event and its LED. `PumpOn`, `PumpOff`, `PumpToggle`,
`ClearPumpFault` and `SetConfig` are the commands, `LongPress` is what the button's
long press does to the LED. Correspondence:

| Code | Model |
|---|---|
| `_dryStart`, `_criticalStart`, `_overloadStart` (0: not started) | `timer[f]`, time since the start, `Stopped` |
| the chain of `if` over mA | `Band`, `Suspects` |
| the resets in every branch | `NextTimers` |
| `newState` | `NextState` |
| `onPumpState` | `Show` |
| the LED's writes in `onButtonLongPressStart` | `LongPress`, which leaves `Pressed` |
| `CurrentSensor::_current` | `sample`, renewed by `Measure` |
| a window during which the pump was switched | `mixed`: the next sample is any current |

`streak` is an observer: for each fault, the time in which every update found
evidence for it. Any other update ends it, also one in switch mode, which sees no dry
run, and one under a latched fault, which judges nothing. `stale` names the stamps
that switch mode left running without judging them (`PumpController.cpp:51-65`).

**PumpTasks** takes the commands apart into the statements between which FreeRTOS
may switch: one action per statement of `toggle`, `turnOn`, `turnOff` (pump and
relay) and `clearPumpFault`, a program counter per caller. `update()` stays one
step because its task outranks the others. `preempt` is chosen once: without it the
calls of `SerialCallers` run as under a mutex, with it the sensor task comes between any two
statements of the `PreemptedCallers`. A statement of the button's task runs
only while the network task is not in a call. WebSocket and MQTT have the same
priority and are one caller `net`; their time slices against each other are not
modelled. Three history variables: `before`, what a serial call found, for the
refinement; `overtaken`, a trip came between the unlatching and the switching on of
the last `turnOn()`; `outrun`, `update()` or another call moved the driver after a call had looked at
it and before the call had written it all.

**OtaBootGuard** is the emergency update by button: the guard's decision by
reboot cause, flash key and button, the hold and the release loop poll by poll,
the one attempt and its reboot; power cuts, button moves and the firmware's own
reboots between any two steps. The key may fail to be read, which counts as `IDLE`,
and to be written, which nobody notices (`otaStateRead`, `otaStateWrite`). `reason` and
`held` are history variables that see what really happened, apart from what the
flash says: why it may hold `PREPARING`, and how long the button was held.

**DeviceSettings** keeps the three copies of the settings: `DeviceConfig` in RAM,
the bytes in flash, and what the protection, the sensor and the log were last
told. `Boot` is `setup()` with its load, its completion of an unset calibration
and the save after it; `setConfig` runs setting by setting, with the save (and
its ignored result) at the end, for any number a client sends (`Stored` puts 0 for one that
does not fit its field); the long press copies, saves and resets in
three steps of a lower task. Every access of the flash may fail; power fails
between any two steps.

**LogCapture** is the way of a line from `printf` to the boot buffer, the
callback and the queue; **SystemLog** composes it with the files: the writer task
in its three steps (receive and name, rotate, append), the time and the move of
`nosync.log`, clearing, midnight and power.

| Code | Model |
|---|---|
| `s_buffer`, `s_bufferCount`, the loop variable of the flush | `buffer`, `flushing` |
| the flush behind its loop: test failed, count reset, flag set | `leaving` |
| `s_fileFlushed`, `s_callbackFlushed`, `_fileEnabled`, `_queue` | the variables of those names |
| the `path` and `line` of `_writeLine` | `writer` |
| the names in `/logs/sys/` (`dd-mm-yyyy.log`, `nosync.log`) | `DOMAIN files`: a day, or `Nosync` |

`seen`, `missed`, `stranded` and `gone` are history variables: what the callback was given,
what came to a full boot buffer, what came to it when the flush had left its loop,
what no file has.

**FirmwareUpload** follows a firmware image over MQTT: the page
(`tools/web_debug/js/uploader.js`), the thread of `tools/bridge_server.py` that
cuts it into chunks and waits for the device at every milestone, the broker as a
queue per direction that may lose messages, and the device with `OTAManager` and
the `Update` library (external: it opens or not, writes or fails for good, and
`end(true)` accepts what is there). `page` includes the two seconds in which the page
pauses before the end, and `strays` the flows stopped in that pause, which send their
end all the same. `thread` is the program counter of the latest
bridge thread; `orphans` counts older threads that still wait, at a milestone or at the end;
any thread that ends clears the flag of all (`ThreadEnds`). `source`, `image`,
`late` and `trouble` are history variables: `late`, a message of an earlier upload crossed
a newer one; `trouble`, everything that may keep an upload from its end.

**EnergyAccount** is the hour's energy between three tasks: the sensor task
(`Tick`, one second) adds to it, the energy task closes it in seven statements (the
two halves of `getEpoch()`, the whole watt hours, the entry, the total, `data.bin`,
the reset), and the NTP task above it may set the clock between any two. A clock
read in two halves may be up to `NtpPeriod` ahead; an NTP answer loses
its fraction, so the clock also steps back. Without a clock an hour is 3600 s of
`millis()`, and its energy goes to the total without an entry. A power cut
forgets the open hour, and the boot after it loads the total or goes on with 0
(`DataManager.cpp:7-13`). Of the entries the power log has of an hour the model keeps the sum
and the largest: how far one entry tells the hour. Which one a reader takes is his affair; the
app takes the last (`LogRepository.kt:617-618`).

**MqttChannel** and **WebSocketChannel** are the app's two channels, and
**HybridChannel** composes them with the collectors, the broker, the device and a
user who restarts everything.

| Code | Model |
|---|---|
| `client`, `connectJob`, `stopped`, `handshakeComplete`, `handshakeJob`, `watchdogJob` | `client`, `job`, `mStopped`, `mShake`, `mProbe`, `mWatch` |
| a `connectWithRetry` coroutine and its next suspension | `loop[k]` |
| a dial cannot be cancelled; `stop()` cancels its coroutine | `cancelled` |
| `connectComplete` launched, `disconnectInternal` launched, half done | `completes`, `closing`, `closed` |
| `webSocket`, and sockets the channel has forgotten but whose callbacks come | `sock`, `socket` |
| `activeEntry`, `_state`, the value a `StateFlow` collector saw last | `active`, `hState`, `seen` |

`Calm` lets the waits of ten seconds and longer end only when nothing that runs
without waiting is under way. An attempt over MQTT ends in three steps (`Subscribed`,
`TransportReady`, `Finally`), between which its client may be lost. Three history variables
name what the properties exclude and the code does: `raced`, what was left of one
MQTT client has dropped another one, or a start found the client that the stop
before it was still to disconnect; `unheard`, a client was lost while the loop that had made it
still counted as running; `stray`, the last status came by a socket the channel had closed.

**LogSync** is the app's copy of a log directory: the listing page by page, the
comparison of sizes, the reading in chunks, the deletion, the timeout; the device
that answers and meanwhile appends to files, removes and recreates them; and a
FIFO link each way that may lose messages. A request is sent in one step and
remembered in a later one (`Register`), as in the code. The list of entries is a list: a file
may be in it twice and each entry starts its download (`Wanted`, `Reads`). The device counts
bytes, the app characters. For a file of ASCII text (`Ascii`) they are the same, and a byte is the
pair of the file's generation and its place, so that text of an older file of the same name is told
apart; of other text a chunk becomes any number of characters up to its bytes (`Characters`),
of which only the generation is kept. `mishaps` bounds what goes wrong: losses, answers before their request is
remembered, timeouts that hit a later sync, syncs begun over a download. `doubtful` is a history
variable: files of which a download was begun over one that had not ended, whose
`pendingFileBuffers` is then stale (`LogRepository.kt:549`), or together with another one
(`NoteOverlaps`), or that the device recreated while the app held something of the old one.

## 3. The runs

| Run | Question | Bounds |
|---|---|---|
| `relay_control` | Does the driver implement the arc-free switch, and come to rest? | settle times 5 and 7 |
| `pump_control` | Are trips earned, carried out, and do they come? | all bands of both modes; settle 1, timeouts 2 and 1 |
| `pump_retrip` | Does a dry pump always end off? (violated) | one mode, two loads |
| `tasks` | Are the statements the same code as the atomic calls, and what survives preemption? | serial: network and button; preempted: network; settle and timeouts 1 |
| `settings` | Is what was answered what the next boot loads, and does it run? | a timeout of one bit, values up to 2, three modes |
| `system_log` | Is every line kept once, in order, in few files? | 2 slots, 3 lines a boot, 2 files of 2 lines, 5 days |
| `firmware_upload` | Is only a whole image activated, and does an upload end? | 16 chunks, 3 milestones and the end, 2 uploads |
| `boot_guard` | Is the emergency update entered on purpose only, once, and does the boot go on? | 3 hold polls, 2 release polls |
| `energy` | Is what was drawn booked once, and how much is lost? | hour 8, NTP period 6, task 2, draw 1, lag 1; 16 ticks, 1 power cut |
| `app` | Can one send to what is shown connected, and is a device in reach heard again? | 2 MQTT clients, 1 socket, 2 events: moves of broker or device, restarts |
| `app_restart` | Does a restart always reconnect? (violated) | as above, 1 event |
| `log_sync` | Are the app's copies true prefixes of the files, and do they catch up? | 2 files, pages of one, 3 bytes in chunks of 2, 2 generations, 2 mishaps, 2 timers |

What they show, property by property:

* `TimingInv`: the inductive invariant of the driver; it holds the pins to the
  header's table. `ContactMovesUnderTriac`: the contact never makes or breaks the current.
  `ImplementsSwitch`: both waits are respected, measured at the pins, under
  every interleaving of commands, and the sequence ends. `ComesToRest`: when
  commands stop, the pins stand as commanded and the TRIAC is off.
* `LatchedMeansOff`: with whole calls, a latched fault has the relay off and the
  state names a fault. `TimersBacked`, `TripsAreEarned`: no trip without
  evidence that every update of the whole timeout confirmed, whatever commands,
  settings and stale samples came before, but for the stamps switch mode leaves running
  (section 4). `LedTellsPump`: what the LED shows is the present state, or was written by
  the button; no event is missing. `TripCutsPower`: a trip is carried out.
  `FreshFaultIsStopped`: a pump running against a fault is stopped, if its state
  does not name a fault already.
* `CallsAreAtomic`: without preemption, the statements refine `PumpController`.
  `LatchYieldsOnlyToARace`, `OffIsOpenButForARace`: under preemption, a latched fault
  has the relay off and an idle driver that is off its contact open, unless the one
  race of section 4 that breaks each has happened; `TripsAreEarned` holds there too.
  `TriacIsReleased`: under preemption and without a trip, the TRIAC is released.
* `TakeoverIsMeant`: the emergency update is entered after an arming boot and a full hold, and
  the one way round the first is a flash error in the boot that was to disarm.
  `OneAttemptPerPowerOn`, `BootGoesOn`: once per power-on, and the guard never hangs.
* `AnsweredIsKept`: what the commands answered is what the next boot loads, over
  any number of boots, with 0 for a number that did not fit; it excludes failed saves and long
  presses that meet a command, which do lose settings. `RunsAsConfigured`: what runs is what the
  configuration tells, in spite of them. `RestartIsNeutral`: a restart changes
  neither protection nor calibration. `SettingsInv` is the inductive invariant.
* `CallbackKeepsOrder`: a client sees the log from the first line of the boot, in
  order and once, although the buffer is given out while lines keep coming; but for those that
  came to a full buffer, or to the buffer between the end of the flush's loop and its flag.
  `LinesAreKeptOnce`: a line of this boot is in one file, the writer's hands or
  the queue, or is known to be gone; also after the move of `nosync.log`.
  `FilesBounded`: at most `MAX_FILES` + 2 dated files. The bound is tight: one
  comes from counting before writing, one from a `nosync.log` that the writer
  recreates after the first time answer and the next boot moves.
* `ActivatedIsWhole`: the device checks neither the number nor the place of chunks,
  and the library takes a short image; yet only whole files are activated,
  because the page ends an upload at 100 percent only and the count starts anew
  with each. `AheadIsBounded`: two milestones at most are under way.
  `UploadEnds`: the percents of the bridge and of the device fit each other.
* `NeverOverbilled`: at every statement, also of a task cut off by power, what the
  total and the open hour hold together was drawn, so was what flash holds, and flash is ahead
  of memory only in a boot that could not load it. `AccountIsClose`: a closed hour
  loses its fraction of a watt hour and what is drawn while it is closed.
  `OtherEntriesAreSmall`: an hour closed twice, by a clock that stepped back or a torn
  read, is told in the power log by its largest entry but for what was drawn while the clock was
  wrong.
* `ConnectedCanSend`: what the app shows as connected has a client or socket, unless `raced` or
  `stray`.
  `StoppedIsOffline`: a stop leaves no client at the broker, wherever the connection
  was. `ComesBack`: with broker and device in reach, the app hears
  the device again and again, through losses that are heard, refusals, silences and restarts.
* `CopyIsTheFile`: the copy of an ASCII file is its text up to the size saved with it, although
  sizes are listed before the chunks are read, files grow meanwhile and requests
  overlap. `CopiesCatchUp`: no lost, early or late answer blocks the syncs for ever, nor, for
  other text, an offset that falls behind.

**The bounds.** Everything is compared, nothing counted: the driver only compares
an age with the settle times, the protection an age with its timeouts, so clocks
saturate there (`MaxAge`, `Horizon`, the observers' limits) without losing a
distinction. One or two ticks give every order of a timer against a settle time;
`relay_control` uses unequal, longer times so that a wait on the wrong constant
shows. The loads hit the dry, high, critical and overload bands, `off` by the
stopped pump and `ok` by switch mode or the smaller run. Three polls of the hold
loop have a first, a middle and a last. One bit of a timeout tells an old value
from a new one, and the value 2 does not fit it. Two slots, a queue
of two and files of two lines are full and not full in the same boot with three
lines. Five days are `MaxFiles` + 3, the least in which `FilesBounded` can be
broken. Sixteen chunks at two a percent give batches that end inside and at the
end of a percent. Two uploads are the least in which the first disturbs the next: by a late
answer, by the end of a stopped flow, by a thread that still waits. Sixteen ticks of the
energy account close two hours of eight, with three settings of the clock and a power cut in any
of them; two passes of the task and the lag of the clock are together shorter than the NTP
period, as in the code. Two MQTT clients are the least in which one is dropped for
another. `app` ends a behaviour at a race (the constraint `NotRaced`), as its properties claim
nothing behind one. With one socket a new dial waits for the end of a socket that is closing; with
two sockets the safety properties of `app` hold as well (9.6 million states), and with three
events (5.2 million). A page of one entry makes two files two pages; three
bytes in chunks of two are read in one chunk or two, from each of their starts; two mishaps are the
least in which a file of two is listed twice. In the run the file of other text has one byte. With
the long file being the other text, so that its offsets fall behind, `CopiesCatchUp` holds as well
(2.2 million states), and so do both properties with three files on three pages and one mishap (1.6
million). The proofs remove the bounds for every safety property.

**Fairness.** `Update`/`Service` and `Measure`: the sensor task has the highest
application priority, and its loop contains no blocking call but a 20 ms delay.
`Tick`, `Elapse`: `millis()` advances. `Statement`, `Clearing`: a started call goes on when
nothing more urgent runs. The guard runs before the scheduler, alone.
`WifiFails \/ WifiConnects`: `WiFi.begin` has a timeout. The download has no
fairness: it lasts as long as its server keeps the connection open. The bridge's thread,
the delivery of messages that are not lost, and the page's handlers go on; cancels,
losses and power cuts never have to happen. In the app, coroutines, callbacks and
collectors run, a dial is answered or fails, and a device that is there answers the
probe. The watchdog has fairness only while the app does not show the device as
connected: a device that streams may keep it from biting. In
`LogSync` the device answers, the link delivers what it does not lose, and
`SyncSysLogs` is an assumption on the user, who opens the log screen again and
again: the code syncs on nothing else. Commands,
load changes, button moves, moves of the device, restarts and power are never fair.

**Deadlock** is checked in every run but `energy`, where the model's clock ends, and
`app` and `app_restart`, where a connected app with no fault left to happen is at rest.

## 4. Where the code does not do what is said of it

Two runs are violated; `PROJECT.json` quotes both sides.

* `pump_retrip`: a trip needs a *change* of state (`PumpController.cpp:110`). A
  pump switched on again after a dry-run trip before the stopped pump has been
  measured finds `_state` at `DRY_RUN`, and is never stopped.
* `app_restart`: `restart()` is `stop()` and then `start()` (`DeviceChannel.kt:27`), and
  every saved MQTT setting calls it. `stop()` only launches the disconnect; `start()`
  finds the old client connected and returns with `stopped` still set; then the client is
  dropped. Or it finds none and dials one, which the late disconnect drops (the trace TLC
  prints). No loop, callback or watchdog connects again.

Two races are named by history variables; the model has both happen, and without
the exclusion the run is violated:

* `overtaken`: `turnOn()` clears the latch first and commands the relay after
  it (`PumpController.cpp:147`). A trip between the two is undone by the rest of the
  call while the latch stays: the pump runs and `update()` judges nothing.
* `outrun`: `turnOff()` cancels a start in two statements after a test of
  `_step` (`RelayController.cpp:78`); `handle()` in between closes the contact of a
  driver that the call then declares idle and off.

More follow from the same models without a run of their own; a history variable or a
constant names each, and the property holds away from it only. In the pump: the stamp of a dry
run or a critical current that runs when switch mode is set is neither judged nor reset there
(`PumpController.cpp:51-65`), so that after an hour of normal current the first dry sample in pump
mode trips (`stale`); a long press held to its fourth step leaves the LED dark until
the next event (`main.cpp:705`, `729`); a trip between
the time stamp and `_triacFire` of `turnOn()` leaves the TRIAC of an idle driver
conducting (why `TriacIsReleased` excludes trips), and an event whose arguments
were read before a trip leaves the LED showing the state before it (why
`LedTellsPump` is a property of whole calls); and `TriacIsReleased` fails when button and
network preempt each other. The boot
guard: a read or write of its key that fails in the boot that was to disarm leaves `PREPARING`, and
the next boot with the button asks for the pattern at once (`OtaBootGuard.cpp:71-78`). The log: a
line that is buffered between the flush's last test and its flag is not given out, or only by the next
flush, out of order (`LogCaptureLT.cpp:75-85`). The
upload has four: the bridge clears its event after the batch, so that a device
that answers quickly is reported as silent (`bridge_server.py:328`); a thread of a
cancelled upload ends a later one, whatever it waited for (`bridge_server.py:266`); a late answer to a
start given up makes the page end an upload in its middle, which activates a
broken image (`uploader.js:299`); and so does the end of an upload that was stopped in the
page's pause, when another one was begun meanwhile (`uploader.js:108-110`, `app.js:421-425`). The properties exclude exactly these by
`trouble` and `late`; without the exclusion the same run is violated. The
settings have four: `setConfig` checks a number as `unsigned int` and stores it in 16
bits, so that 70000 becomes 0 under the answer "Config saved." (`CommandHandler.cpp:404`); the answer does not look at the result of the save
(`CommandHandler.cpp:490`), the long press writes back a copy of the settings
from before a command that came in between (`main.cpp:709`), and a boot whose read
of the flash fails saves the defaults over intact settings (`main.cpp:203`). The account:
a boot that cannot load `data.bin` goes on with 0 and writes over the total (`DataManager.cpp:7-13`);
and the app keeps the last entry of an hour (`LogRepository.kt:617-618`), which after a step back of
the clock is a small one, though a comment calls the file's number final (775-776).
The channels: `attemptConnect` ends by setting `Ready` over a `Connected` that a status
has set meanwhile, which only the watchdog heals (`MqttDeviceChannel.kt:188`); a client lost
between the return of `subscribe` and `connectJob = null` finds the job active, and nobody reconnects
(186-206, `unheard`); a status that comes by a WebSocket the channel has closed shows a
connection that cannot send (`WebSocketDeviceChannel.kt:86-89`, 147, `stray`); a WebSocket
dial survives `stop()`, where `HybridDeviceChannel.kt:21-23` says that the loser is
stopped; and when the winner is lost, the stopped loser is not started again, so that
`ComesBack` asks for the channel that holds the app. The log sync: a download begun over
one that never ended appends to the old buffer, and the copy has text twice for ever
(`LogRepository.kt:549`), and so do two downloads of one file that the list names twice (345,
465-497); sizes and offsets are counted in characters, where the device counts bytes and the log
has lines that are not ASCII (`ConfigManager.cpp:67`, `OtaBootGuard.cpp:315`), so that text is
read again from too small an offset (553, 570), although the comments there mean to avoid an
error of the byte count; a failure of `listDir` or `readFile` is taken without looking at
its request id (`LogRepository.kt:309`, `514`); and a user who is more impatient than a slow download
keeps restarting it, which the model counts as mishaps. A
comment at
`RelayController.cpp:36-37` speaks of a wait of 20 ms where the constants of
`RelayController.h` differ; the models take the constants as parameters.

## 5. The proofs

`tlapm` checks every obligation, for all values of the constants under the
`ASSUME`s of the modules (settle times positive, configurations within
`Settings`, poll counts positive, hour and watt hour positive, two passes of the energy task and
the lag of the clock shorter than the NTP period, clients and sockets numbered from 1,
finitely many files, a page of at least one entry and chunks of at least one byte).

* **Relay_proofs.** `TimingInv` is inductive. The step table alone is not
  enough for the refinement: one has to know that the single `_lastAction` is
  never *ahead* of the clock of the pin whose wait it times. `Consistent` says
  so for each step (`g >= r.age` in steps 1 and 3, `c >= r.age` in 2 and 4, or
  the pin's clock has already reached its limit), and that a contact not being
  switched has rested long enough, so that a start may be cancelled at once.
  From it: `TypeCorrect`, `StepTableHolds`, `ArcFree`, and
  `DriverImplementsSwitch`, where every operation maps to one abstract step.
* **Pump_proofs.** `PumpInv` is inductive for whole calls: types, `LatchedMeansOff`,
  `LedTellsPump` and `TimersBacked`. The last is what makes `TripsAreEarned`
  provable: a trip reads a timer, and the timer is backed by the observer's
  streak or stale. The lemmas about the driver's operators (types, what the commanded state is after
  each) are those of `Relay_proofs`.
  For the statements of `PumpTasks`, `StatementIs` turns the actions into one relation
  of the label a call stands at, what it finds and what it leaves; the invariants are then
  one line per label. `TasksBacked` (types and `TimersBacked`) survives any preemption, and with it
  `TripsAreEarned`. `LatchYieldsOnlyToARace` needs to know at which labels a call has
  not yet taken the latch away, `OffIsOpenButForARace` what each label says of driver and step
  while nothing has come between. `CallsAtomic` is the refinement: `before` keeps what a
  serial call found, `SerialInv` says that what has been written so far, completed by the rest
  of the call, is the atomic call on `before`; each statement but the last is a stutter.
* **Firmware_proofs**, the boot guard. `GuardInv` is inductive: the flash says `PREPARING`
  only if a boot armed since the last power-on without the button or the key failed in that
  one, the pattern runs only after a power-on with that key, and its clock counts what was held.
* **DeviceSettings_proofs.** `SettingsInv` is inductive for any number clients send and any width of
  the fields. It says that RAM holds the settings of the answered commands and of
  the one under way, with 0 for what does not fit, unless something that loses settings happened
  since.
* **SystemLog_proofs.** `LogInv` is inductive. The number of files is not: that a
  move of `nosync.log` finds at most `MaxFiles` + 1 files needs `RotatedFirst`, that
  `nosync.log` is written only behind a rotation, that between a rotation and
  its write at most the one move of the boot adds a file, and that the writer
  holds a line named for a day only once the time is known. `OrderInv` adds what a client
  sees: what it was given is what it has seen and what still waits in the boot buffer, a
  flush goes through that buffer from its first line, and behind its loop only stranded lines
  come to the buffer, so that nothing else waits when it is over; so no line overtakes another
  (`ClientSeesOrder`). `KeptInv` is for the disk: what the
  property says (`Kept`), before the flush that buffer and files share nothing, and until
  the time is known that no file of a day has a line of this boot. The last is why `nosync.log`
  may be copied in front of the file of its day (`LinesKept`).
* **EnergyAccount_proofs.** Neither property is inductive alone: one has to know what the
  hour holds while it is being closed. `Closing` says that from the taking of the watt hours to
  the reset the hour holds them, less than one more, and at most what was drawn since the
  task woke. With it `Book` moves what the hour will give up, and `Reset` loses no more than the
  bound of one closing: `NothingIsOverbilled`, `LossIsBounded`. `OthersAreSmall` is about
  the clock: a reading is between `MaxLag` + `MaxLate` behind and `NtpPeriod` ahead of the time
  (`ClockInv`), so that an hour is closed either around its start, with what was drawn
  since `NtpPeriod` before it (`AtStart`), or around its end (`AtEnd`). The first entry there
  may be all of the hour; those after it hold what was drawn since. An
  hour left for good is told by `Firm`: no later reading can be before it. The proof showed that
  the bound of an earlier version of the property, which two such passes exceed, had held
  only for the constants of the run; the bound is now twice lag and NTP period and three passes.
* **Firmware_proofs**, the upload. Nothing in the device keeps a hole out of the image: chunks have
  no number, and the library takes a short one. `UploadInv` says why the whole does: both
  queues keep their order. While the page waits for the answer to its start, nothing is
  behind that start, nor behind the answer; so when it watches, only chunks of this upload
  are on their way, each beyond what is written, and with a gap if one was lost. Then 100
  percent can be reported only for a whole file, and the end, sent after that, finds a
  whole image or an update that has failed (`EndIsSafe`). The argument holds until the page takes
  a late answer, which breaks its first step. `OnlyWholeFiles` follows, for every size of
  file and milestones. `AheadBounded` adds the counts (`AheadInv`): the thread stays in its
  batch and has heard the milestone before the last (`Paced`), which takes that progress
  arrives in order and never exceeds what the device counted (`Reported`), that a thread the page
  has left hears nothing but the end (`Over`), and that the answer to a start finds a
  device that counts anew (`Fresh`). The threads and stopped flows of earlier uploads do not touch the
  order of the messages; the end such a flow sends into a newer upload is `late`.
* **HybridChannel_proofs.** `HybridInv` is inductive, for any number of clients and sockets. Over
  the broker it is about whose client is connected: until two clients have met (`raced`),
  every client the broker knows and every dial is the channel's own (`OneClient`), so that
  whoever closes that one closes all; a stop leaves its disconnect behind until nothing is
  connected or dialing (`StopCloses`); and a channel that says it is connected is, but between
  the two steps of a disconnect (`MqttTold`). A WebSocket that says so has a socket or is
  `stray`. The app's part says that the screen shows what the
  collector of the winner saw last. `ScreenIsTrue` and `StopDisconnects` follow when no
  coroutine is under way.
* **LogSync_proofs.** `SyncInv` is inductive, and it is a matter of each file by itself: `FileInv`
  of a file of ASCII text that exists and is not `doubtful`. One request or chunk of it is under way at
  most, and while the request is not remembered its id is not the one awaited
  (`OneDownload`); it goes on where the buffer ends, or begins at 0 or at the saved size
  (`Continued`); a chunk is the text at its place in the file as it was, which has only grown
  since (`TrueChunk`). And answers that take a file from the app, `missing` or a deletion, can be
  under way only before anything of the present file, and find nothing to take (`EndsFirst`). Most
  steps leave a file alone: of what is about it the queues only lose their head (`Thins`), and
  `Quiet` covers them together. What is left are the steps that move its one message: the
  listing that begins a download, the device's answer, and the two kinds of chunk, where
  `BufferedIs` adds the chunk to the text before it. `CopiesAreTrue` follows.

Every safety and action property of the runs that hold is stated by a theorem. Only
model-checked is everything about liveness (`ComesToRest`,
`TripCutsPower`, `FreshFaultIsStopped`, `TriacIsReleased`, `BootGoesOn`, `UploadEnds`, `ComesBack`,
`CopiesCatchUp` and the liveness half of `ImplementsSwitch`), which is beyond the prover.

## 6. Abstractions

* `millis()` is a set of saturating ages; its wrap after 49.7 days is not modelled.
* The current is one of a few values between the thresholds. `mixed`
  over-approximates what an averaged window may return.
* `SetConfig` stores a whole configuration. The code stores field by field, and
  also keeps values not in the message.
* In PumpTasks no call lasts as long as a tick; load and sample change only
  between calls, and the three stamps are cleared in one statement.
* A chunk is one unit of at most one percent of the file. The page is stopped while it watches the
  progress, in its pause or while it waits for the result; not while it waits for the answer to its start,
  and a stopped flow does not reset the page under a third upload. A bridge thread that slept
  100 ms when it was cancelled has ended before the next upload's handshake.
  The local WebSocket between page and bridge loses nothing.
* One download step stands for the loop over the connection.
* Each kind of setting is one setting; strings are not modelled. The copy of the
  long press and `setup()` are one step each.
* Lines are captured one at a time. Two tasks that print at the same moment mix
  their characters in one line buffer and may take one slot; this is not
  modelled. A line dropped for want of memory is a line dropped by a full queue
  or buffer; the level filter is part of `fileOn`.
* A file's size is its number of lines. Files removed by the file browser, and a
  midnight between the naming of a file and its time stamp, have no property.
* Of the energy counters only the hour and the total are modelled; the day's counter, the
  pump time and the counters of `ToggleLog` are left out.
* In the channels a start of the WebSocket dials at once. The device is on the broker or serves its own access
  point, never both. Payloads are a status or nothing.
* In LogSync the hourly check of the power log, `mergeWithRealtimeData` and answers to other
  phones are left out; the link keeps the order of messages. Text that is not ASCII is a number of
  characters.
* A date set back by a later time answer is not modelled: days only pass.

## 7. Not modelled, and why

* **Status streams and the WiFi scan** of the command handler: a deadline, a client count
  and a flag. Their hazards are at the wrap of `millis()` and a lost event, each visible in the
  one line that has it; a model would restate that line.
* **Firmware from a URL, WebSocket chunks, abort**: one loop without another actor, and the
  chunk path of `FirmwareUpload` without the bridge.
* **MQTT client and WebSocket server** of the device: one attempt per interval around
  vendored libraries; what the rest sees of them, lost messages and reconnections,
  is part of `FirmwareUpload` and `LogSync`.
* **ToggleLog** and the daily counters: appends and additions without further state.
* **PumpRepository and the screens** of the app, temperature, build information, the LED's patterns, JSON: presentation
  and conversions.
* **Vendored libraries** (LittleFS, PubSubClient, WebSockets, ArduinoJson, NTPClient),
  by far the largest part of the repository: third-party code, modelled only as
  its callers see it.

What a next step could take up: the button's debouncing and long press composed with
the boot guard; and the refinement of the channels against an abstract connection.
