---------------------------- MODULE DeviceSettings ---------------------------
(***************************************************************************)
(* The three copies of the device's settings: ConfigManager::_config in    *)
(* RAM, the key "app_cfg" in flash, and what the pump controller, current  *)
(* sensor and log run on.  Two tasks change them:                          *)
(*   net     (ws or mqtt, priority 3)  setConfig, calibrate,               *)
(*           resetCalibration, factoryReset, reboot                        *)
(*   button  (priority 1)  a long press: another mode, or factory reset    *)
(* A command of net runs to its end before button goes on, except that it  *)
(* sleeps for a second before a restart; button is preempted between any   *)
(* two of its statements.  Power may fail at any step.                     *)
(*                                                                         *)
(* One setting stands for its kind: conn for those that need a reboot,     *)
(* timeout for the 16-bit numbers of the protection, cal for the           *)
(* calibration coefficients, log for the switches of the log.              *)
(***************************************************************************)
EXTENDS Naturals

CONSTANTS MaxField,        \* the largest value of a uint16_t field
          TopValue,        \* bound: the largest value a client sends for one
          DefaultTimeout   \* DEFAULT_NO_WATER_TIMEOUT

ASSUME SettingsAssumption ==
  MaxField \in Nat /\ TopValue \in Nat /\ DefaultTimeout \in 1..MaxField

VARIABLES up,        \* setup() is done
          ram,       \* ConfigManager::_config
          flash,     \* what the key "app_cfg" loads as
          run,       \* what the components run on
          net,       \* where the network task is in its command
          button,    \* where the button task is in its long press
          copy,      \* the long press's local cfg
          wanted,    \* history: asked, with the command under way
          asked,     \* history: what the commands answered so far add up to, as sent
          contested  \* history: an access to flash failed, or tasks met

settingsVars == <<up, ram, flash, run, net, button, copy, wanted, asked, contested>>
history == <<wanted, asked>>

Modes == {"AP_WS", "STA_MQTT", "DEBUG_WS"}
Configs == [conn: Modes, timeout: 0..MaxField, cal: {"NAN", "HW", "SET"}, log: BOOLEAN]

\* What clients send: any unsigned int for a number.
Requests == [conn: Modes, timeout: Nat, cal: {"NAN", "HW", "SET"}, log: BOOLEAN]

\* DeviceConfig(); a deleted or missing key loads as this.
Default == [conn |-> "AP_WS", timeout |-> DefaultTimeout, cal |-> "NAN", log |-> TRUE]

\* A number that does not fit its field converts to 0.
Fit(v) == IF v <= MaxField THEN v ELSE 0
Stored(c) == [c EXCEPT !.timeout = Fit(c.timeout)]

-----------------------------------------------------------------------------
(* setup() *)

\* Coefficients that were never set are taken from the hardware.
Calibrated(c) == IF c.cal = "NAN" THEN [c EXCEPT !.cal = "HW"] ELSE c

\* A boot that leaves the sensor on its own coefficients.
EffectiveUncalibrated(c) ==
  [c EXCEPT !.log = c.conn # "DEBUG_WS" /\ c.log, !.cal = "HW"]

\* In debug mode the log goes to the WebSocket instead of the file.
Effective(c) == [c EXCEPT !.log = c.conn # "DEBUG_WS" /\ c.log]

\* ConfigManager::save and the deletion of the key: the result is ignored.
Write(c, ok) == flash' = IF ok THEN c ELSE flash

\* ConfigManager::load: a failed read leaves the defaults.
Load(ok) == IF ok THEN flash ELSE Default

\* After a failed read the defaults, completed with the hardware's coefficients,
\* are saved over the settings that could not be read.
Boot ==
  \E read, written \in BOOLEAN :
    LET found == Load(read)
    IN /\ ~up /\ up' = TRUE
       /\ ram' = Calibrated(found)
       /\ run' = Effective(Calibrated(found))
       /\ IF found.cal = "NAN" THEN Write(Calibrated(found), written) ELSE UNCHANGED flash
       /\ asked' = IF read /\ ~contested THEN asked ELSE Calibrated(found)
       /\ wanted' = asked'
       /\ contested' = (Calibrated(flash') # Stored(asked'))
       /\ UNCHANGED <<net, button, copy>>

\* RAM is lost.
Off ==
  /\ up /\ up' = FALSE
  /\ net' = "idle" /\ button' = "idle"
  /\ ram' = Default /\ run' = Default /\ copy' = Default
  /\ wanted' = asked
  /\ UNCHANGED <<flash, asked, contested>>

PowerCut == Off
Restart  == (net = "restart" \/ button = "restart") /\ Off

-----------------------------------------------------------------------------
(* The commands *)

\* A command changes _config and what runs, and goes on to save.
Apply(c, r, w) ==
  /\ up /\ net = "idle"
  /\ ram' = c /\ run' = r /\ wanted' = w
  /\ net' = "save"
  /\ UNCHANGED <<up, flash, button, copy, asked, contested>>

\* setConfig that leaves the pump controller as it is.
SetTimeoutLater(v) ==
  Apply([ram EXCEPT !.timeout = Fit(v)], run, [asked EXCEPT !.timeout = v])

\* setConfig
SetTimeout(v) ==
  Apply([ram EXCEPT !.timeout = Fit(v)], [run EXCEPT !.timeout = Fit(v)],
        [asked EXCEPT !.timeout = v])
SetMode(m) == Apply([ram EXCEPT !.conn = m], run, [asked EXCEPT !.conn = m])
SetLog(b)  == Apply([ram EXCEPT !.log = b], [run EXCEPT !.log = b], [asked EXCEPT !.log = b])

\* setConfig with coefficients, calibrate and resetCalibration; a calibration
\* without a reading changes nothing and saves.
SetCal(k) ==
  Apply([ram EXCEPT !.cal = k], [run EXCEPT !.cal = k], [asked EXCEPT !.cal = k])
Calibrate == SetCal("SET") \/ SetCal(run.cal)
ResetCalibration == SetCal("HW")

\* A save that a message with needReboot leaves to the restart.
SaveUnlessReboot ==
  \E ok \in BOOLEAN :
    /\ net = "save" /\ net' = "idle"
    /\ Write(ram, ok /\ ram.conn = run.conn)
    /\ asked' = wanted
    /\ contested' = (contested \/ ~ok \/ button # "idle")
    /\ UNCHANGED <<up, ram, run, button, copy, wanted>>

\* The last part of these commands: save, and answer ok.
Save ==
  \E ok \in BOOLEAN :
    /\ net = "save" /\ net' = "idle"
    /\ Write(ram, ok)
    /\ asked' = wanted
    /\ contested' = (contested \/ ~ok \/ button # "idle")
    /\ UNCHANGED <<up, ram, run, button, copy, wanted>>

\* factoryReset that only forgets the copy in RAM.
ClearRamOnly(ok) ==
  /\ ram' = Default
  /\ UNCHANGED flash
  /\ asked' = Calibrated(Default) /\ wanted' = asked'

\* ConfigManager::reset
Clear(ok) ==
  /\ ram' = Default
  /\ Write(Default, ok)
  /\ asked' = Calibrated(Default) /\ wanted' = asked'

FactoryReset ==
  \E ok \in BOOLEAN :
    /\ up /\ net = "idle" /\ net' = "restart"
    /\ Clear(ok)
    /\ contested' = (contested \/ ~ok \/ button # "idle")
    /\ UNCHANGED <<up, run, button, copy>>

Reboot ==
  /\ up /\ net = "idle" /\ net' = "restart"
  /\ UNCHANGED <<up, ram, flash, run, button, copy, history, contested>>

-----------------------------------------------------------------------------
(* The long press, below the network task *)

Yields == up /\ net # "save"

\* DeviceConfig cfg = configManager.get();  cfg.connMode = ...
PressCopies(m) ==
  /\ Yields /\ button = "idle" /\ button' = "copied"
  /\ copy' = [ram EXCEPT !.conn = m]
  /\ contested' = (contested \/ net # "idle")
  /\ UNCHANGED <<up, ram, flash, run, net, history>>

\* configManager.save(cfg), then a second's sleep before the restart
PressSaves ==
  \E ok \in BOOLEAN :
    /\ Yields /\ button = "copied" /\ button' = "restart"
    /\ Write(copy, ok)
    /\ asked' = [asked EXCEPT !.conn = copy.conn] /\ wanted' = asked'
    /\ contested' = (contested \/ ~ok \/ net # "idle")
    /\ copy' = Default
    /\ UNCHANGED <<up, ram, run, net>>

PressResets ==
  \E ok \in BOOLEAN :
    /\ Yields /\ button = "idle" /\ button' = "restart"
    /\ Clear(ok)
    /\ contested' = (contested \/ ~ok \/ net # "idle")
    /\ UNCHANGED <<up, run, net, copy>>

-----------------------------------------------------------------------------

\* A new device, or one with any settings saved by an earlier run.
SettingsInit ==
  /\ flash \in Configs
  /\ up = FALSE /\ net = "idle" /\ button = "idle"
  /\ ram = Default /\ run = Default /\ copy = Default
  /\ asked = Calibrated(flash) /\ wanted = asked
  /\ contested = FALSE

Command ==
  \/ \E v \in 0..TopValue : SetTimeout(v)
  \/ \E m \in Modes : SetMode(m)
  \/ \E b \in BOOLEAN : SetLog(b)
  \/ Calibrate \/ ResetCalibration
  \/ Save \/ FactoryReset \/ Reboot

LongPress ==
  (\E m \in {"AP_WS", "DEBUG_WS"} : PressCopies(m)) \/ PressSaves \/ PressResets

SettingsNext == Boot \/ PowerCut \/ Restart \/ Command \/ LongPress

SettingsSafety == SettingsInit /\ [][SettingsNext]_settingsVars

-----------------------------------------------------------------------------
(* Properties *)

SettingsTypeOK ==
  /\ up \in BOOLEAN /\ contested \in BOOLEAN
  /\ {ram, flash, run, copy} \subseteq Configs /\ {asked, wanted} \subseteq Requests
  /\ net \in {"idle", "save", "restart"} /\ button \in {"idle", "copied", "restart"}

\* Whatever the commands answered is what the next boot loads, through any
\* number of boots and power cuts at any step, as long as flash works and no
\* command meets a long press.  (setConfig, calibrate and the resets all answer
\* before anyone has read back what they saved.)  A number that does not fit its
\* field is answered all the same and kept as 0 (CommandHandler.cpp:403-430).
AnsweredIsKept == ~contested => Calibrated(flash) = Stored(asked)

\* No path of setConfig, calibrate, resetCalibration, the resets and setup()
\* leaves the protection or the sensor on other values than _config tells the
\* app, also when saves fail and long presses interfere; only a reset waiting
\* for its restart does.  The log file is never written against the setting.
RunsAsConfigured ==
  up /\ net # "restart" /\ button # "restart" =>
    run.timeout = ram.timeout /\ run.cal = ram.cal /\ (run.log => ram.log)

\* A restart between commands, asked for or not, changes neither protection nor
\* calibration under the user's hands.
RestartIsNeutral ==
  up /\ net = "idle" /\ button = "idle" /\ ~contested =>
    LET next == Effective(Calibrated(flash))
    IN next.timeout = run.timeout /\ next.cal = run.cal

\* SettingsInv is inductive: in RAM are the settings of the commands answered
\* and of the one under way, as far as they fit, and the long press's copy is only out in the mode.
Tracked ==
  /\ ~up => net = "idle" /\ button = "idle"
  /\ net # "save" => wanted = asked
  /\ up => run.cal # "NAN"
  /\ up /\ net # "restart" /\ button # "restart" => ram.cal # "NAN"
  /\ ~contested /\ up /\ net # "restart" /\ button = "idle" => Calibrated(ram) = Stored(wanted)
  /\ ~contested /\ button = "copied" => Calibrated(copy) = [Stored(asked) EXCEPT !.conn = copy.conn]

SettingsInv == SettingsTypeOK /\ AnsweredIsKept /\ RunsAsConfigured /\ Tracked
=============================================================================
