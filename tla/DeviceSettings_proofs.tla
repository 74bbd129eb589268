------------------------- MODULE DeviceSettings_proofs -----------------------
(***************************************************************************)
(* SettingsInv is inductive, for every width of the fields and every value *)
(* clients send.                                                           *)
(***************************************************************************)
EXTENDS DeviceSettings, TLAPS

\* What setup() makes of a configuration is one, calibrated, and calibrating
\* does not touch the other settings.
LEMMA CalibratedTyped ==
  ASSUME NEW c \in Configs
  PROVE  /\ Calibrated(c) \in Configs /\ Calibrated(c).cal # "NAN"
         /\ Calibrated(c).timeout = c.timeout
         /\ Calibrated(c).conn = c.conn /\ Calibrated(c).log = c.log
         /\ c.cal # "NAN" => Calibrated(c) = c
         /\ Calibrated(Calibrated(c)) = Calibrated(c)
BY DEF Configs, Calibrated

LEMMA EffectiveTyped ==
  ASSUME NEW c \in Configs
  PROVE  /\ Effective(c) \in Configs
         /\ Effective(c).timeout = c.timeout /\ Effective(c).cal = c.cal
         /\ Effective(c).log => c.log
BY DEF Configs, Effective

LEMMA DefaultTyped == Default \in Configs
BY SettingsAssumption DEF Default, Configs, Modes

\* Changing one setting commutes with the calibration.
LEMMA FieldsTyped ==
  ASSUME NEW c \in Configs
  PROVE  /\ \A v \in 0..MaxField :
              /\ [c EXCEPT !.timeout = v] \in Configs
              /\ Calibrated([c EXCEPT !.timeout = v]) = [Calibrated(c) EXCEPT !.timeout = v]
         /\ \A m \in Modes :
              /\ [c EXCEPT !.conn = m] \in Configs
              /\ Calibrated([c EXCEPT !.conn = m]) = [Calibrated(c) EXCEPT !.conn = m]
         /\ \A b \in BOOLEAN :
              /\ [c EXCEPT !.log = b] \in Configs
              /\ Calibrated([c EXCEPT !.log = b]) = [Calibrated(c) EXCEPT !.log = b]
         /\ \A k \in {"HW", "SET"} :
              /\ [c EXCEPT !.cal = k] \in Configs
              /\ Calibrated([c EXCEPT !.cal = k]) = [Calibrated(c) EXCEPT !.cal = k]
BY DEF Configs, Calibrated

\* What is stored of a request is a configuration; storing and changing one
\* setting commute.
LEMMA StoredTyped ==
  ASSUME NEW a \in Requests
  PROVE  /\ Stored(a) \in Configs /\ Stored(a).cal = a.cal
         /\ \A v \in Nat :
              /\ [a EXCEPT !.timeout = v] \in Requests
              /\ Stored([a EXCEPT !.timeout = v]) = [Stored(a) EXCEPT !.timeout = Fit(v)]
         /\ \A m \in Modes :
              /\ [a EXCEPT !.conn = m] \in Requests
              /\ Stored([a EXCEPT !.conn = m]) = [Stored(a) EXCEPT !.conn = m]
         /\ \A b \in BOOLEAN :
              /\ [a EXCEPT !.log = b] \in Requests
              /\ Stored([a EXCEPT !.log = b]) = [Stored(a) EXCEPT !.log = b]
         /\ \A k \in {"HW", "SET"} :
              /\ [a EXCEPT !.cal = k] \in Requests
              /\ Stored([a EXCEPT !.cal = k]) = [Stored(a) EXCEPT !.cal = k]
<1>1. \A v \in Nat : Fit(v) \in 0..MaxField /\ Fit(v) \in Nat
  BY SettingsAssumption DEF Fit
<1>2. a.timeout \in Nat
  BY DEF Requests
<1>3. Stored(a) \in Configs /\ Stored(a).cal = a.cal
  BY <1>1, <1>2 DEF Requests, Configs, Stored
<1>4. ASSUME NEW v \in Nat
      PROVE  /\ [a EXCEPT !.timeout = v] \in Requests
             /\ Stored([a EXCEPT !.timeout = v]) = [Stored(a) EXCEPT !.timeout = Fit(v)]
  BY DEF Requests, Stored
<1>5. ASSUME NEW m \in Modes
      PROVE  /\ [a EXCEPT !.conn = m] \in Requests
             /\ Stored([a EXCEPT !.conn = m]) = [Stored(a) EXCEPT !.conn = m]
  BY DEF Requests, Stored
<1>6. ASSUME NEW b \in BOOLEAN
      PROVE  /\ [a EXCEPT !.log = b] \in Requests
             /\ Stored([a EXCEPT !.log = b]) = [Stored(a) EXCEPT !.log = b]
  BY DEF Requests, Stored
<1>7. ASSUME NEW k \in {"HW", "SET"}
      PROVE  /\ [a EXCEPT !.cal = k] \in Requests
             /\ Stored([a EXCEPT !.cal = k]) = [Stored(a) EXCEPT !.cal = k]
  BY DEF Requests, Stored
<1> QED  BY <1>3, <1>4, <1>5, <1>6, <1>7

\* A configuration is a request that fits.
LEMMA ConfigsFit ==
  ASSUME NEW c \in Configs
  PROVE  c \in Requests /\ Stored(c) = c
BY SettingsAssumption DEF Requests, Configs, Stored, Fit

LEMMA InitSettings == SettingsInit => SettingsInv
BY DefaultTyped, CalibratedTyped, ConfigsFit
   DEF SettingsInit, SettingsInv, SettingsTypeOK, AnsweredIsKept, RunsAsConfigured, Tracked

\* What a command leaves for its save: Apply keeps the invariant when the new
\* settings are typed, agree on what runs, and are the ones asked for.
LEMMA ApplyKeeps ==
  ASSUME NEW c \in Configs, NEW r \in Configs, NEW w \in Requests,
         SettingsInv, Apply(c, r, w),
         r.cal # "NAN",
         button # "restart" =>
           c.cal # "NAN" /\ r.timeout = c.timeout /\ r.cal = c.cal /\ (r.log => c.log),
         button = "idle" /\ Calibrated(ram) = Stored(asked) => c = Stored(w)
  PROVE  SettingsInv'
<1> USE DEF SettingsInv, Apply
<1>1. SettingsTypeOK'
  BY DEF SettingsTypeOK
<1>2. AnsweredIsKept'
  BY DEF AnsweredIsKept
<1>3. RunsAsConfigured'
  BY DEF RunsAsConfigured
<1>4. Tracked'
  <2>1. ~contested /\ button = "idle" => Calibrated(ram) = Stored(asked)
    BY DEF Tracked
  <2>2. c.cal # "NAN" => Calibrated(c) = c
    BY CalibratedTyped
  <2> QED BY <2>1, <2>2 DEF Tracked
<1> QED BY <1>1, <1>2, <1>3, <1>4

LEMMA BootKeeps == ASSUME SettingsInv, Boot PROVE SettingsInv'
<1>1. PICK read \in BOOLEAN, written \in BOOLEAN :
        LET found == Load(read)
        IN /\ ~up /\ up' = TRUE
           /\ ram' = Calibrated(found)
           /\ run' = Effective(Calibrated(found))
           /\ IF found.cal = "NAN" THEN Write(Calibrated(found), written) ELSE UNCHANGED flash
           /\ asked' = IF read /\ ~contested THEN asked ELSE Calibrated(found)
           /\ wanted' = asked'
           /\ contested' = (Calibrated(flash') # Stored(asked'))
           /\ UNCHANGED <<net, button, copy>>
  BY DEF Boot
<1> DEFINE found == Load(read)
           loaded == Calibrated(found)
<1>2. found \in Configs /\ loaded \in Configs /\ loaded.cal # "NAN" /\ Calibrated(loaded) = loaded
  BY DefaultTyped, CalibratedTyped DEF SettingsInv, SettingsTypeOK, Load
<1>3. Effective(loaded) \in Configs /\ Effective(loaded).timeout = loaded.timeout
      /\ Effective(loaded).cal = loaded.cal /\ (Effective(loaded).log => loaded.log)
  BY <1>2, EffectiveTyped
<1>4. flash' \in Configs
  BY <1>1, <1>2 DEF SettingsInv, SettingsTypeOK, Write
<1>5. Stored(asked') = loaded /\ asked' \in Requests
  <2>1. CASE read /\ ~contested
    BY <1>1, <2>1 DEF SettingsInv, SettingsTypeOK, AnsweredIsKept, Load
  <2>2. CASE ~(read /\ ~contested)
    BY <1>1, <1>2, <2>2, ConfigsFit
  <2> QED  BY <2>1, <2>2
<1>6. up' = TRUE /\ ram' = loaded /\ run' = Effective(loaded) /\ wanted' = asked'
      /\ contested' = (Calibrated(flash') # loaded) /\ UNCHANGED <<net, button, copy>> /\ ~up
  BY <1>1, <1>5
<1> HIDE DEF found, loaded
<1>7. SettingsTypeOK'
  BY <1>2, <1>3, <1>4, <1>5, <1>6 DEF SettingsInv, SettingsTypeOK
<1>8. AnsweredIsKept'
  BY <1>5, <1>6 DEF AnsweredIsKept
<1>9. RunsAsConfigured'
  BY <1>3, <1>6 DEF RunsAsConfigured
<1>10. Tracked'
  BY <1>2, <1>3, <1>5, <1>6 DEF Tracked, SettingsInv
<1> QED BY <1>7, <1>8, <1>9, <1>10 DEF SettingsInv

LEMMA OffKeeps == ASSUME SettingsInv, Off PROVE SettingsInv'
<1> USE DEF SettingsInv, Off
<1>1. SettingsTypeOK'
  BY DefaultTyped DEF SettingsTypeOK
<1>2. AnsweredIsKept' /\ RunsAsConfigured' /\ Tracked'
  BY DEF AnsweredIsKept, RunsAsConfigured, Tracked
<1> QED BY <1>1, <1>2

LEMMA SaveKeeps == ASSUME SettingsInv, Save PROVE SettingsInv'
<1>1. PICK ok \in BOOLEAN :
        /\ net = "save" /\ net' = "idle"
        /\ Write(ram, ok)
        /\ asked' = wanted
        /\ contested' = (contested \/ ~ok \/ button # "idle")
        /\ UNCHANGED <<up, ram, run, button, copy, wanted>>
  BY DEF Save
<1> USE DEF SettingsInv, Write
<1>2. up
  BY <1>1 DEF Tracked
<1>3. SettingsTypeOK'
  BY <1>1 DEF SettingsTypeOK
<1>4. AnsweredIsKept'
  BY <1>1, <1>2 DEF AnsweredIsKept, Tracked
<1>5. RunsAsConfigured'
  BY <1>1 DEF RunsAsConfigured
<1>6. Tracked'
  BY <1>1, <1>2 DEF Tracked, SettingsTypeOK
<1> QED BY <1>3, <1>4, <1>5, <1>6

\* Both resets forget everything; the restart that follows is still to come.
LEMMA ResetKeeps ==
  ASSUME SettingsInv, NEW ok \in BOOLEAN, Clear(ok), up' = up, up,
         UNCHANGED <<run, copy>>,
         net' \in {"idle", "restart"}, button' \in {"idle", "copied", "restart"},
         net' = "restart" \/ button' = "restart",
         contested' \in BOOLEAN, ~contested' => ~contested /\ ok /\ button' # "copied"
  PROVE  SettingsInv'
<1> USE DEF SettingsInv, Clear, Write
<1>0. Calibrated(Default) \in Requests /\ Stored(Calibrated(Default)) = Calibrated(Default)
  BY DefaultTyped, CalibratedTyped, ConfigsFit
<1>1. SettingsTypeOK'
  BY <1>0, DefaultTyped DEF SettingsTypeOK
<1>2. AnsweredIsKept'
  BY <1>0 DEF AnsweredIsKept
<1>3. RunsAsConfigured'
  BY DEF RunsAsConfigured
<1>4. Tracked'
  BY <1>0 DEF Tracked
<1> QED BY <1>1, <1>2, <1>3, <1>4

LEMMA FactoryResetKeeps == ASSUME SettingsInv, FactoryReset PROVE SettingsInv'
<1>1. PICK ok \in BOOLEAN :
        /\ up /\ net = "idle" /\ net' = "restart"
        /\ Clear(ok)
        /\ contested' = (contested \/ ~ok \/ button # "idle")
        /\ UNCHANGED <<up, run, button, copy>>
  BY DEF FactoryReset
<1>2. button' \in {"idle", "copied", "restart"} /\ contested' \in BOOLEAN
  BY <1>1 DEF SettingsInv, SettingsTypeOK
<1> QED BY <1>1, <1>2, ResetKeeps

LEMMA RebootKeeps == ASSUME SettingsInv, Reboot PROVE SettingsInv'
<1> USE DEF SettingsInv, Reboot, history
<1>1. SettingsTypeOK'
  BY DEF SettingsTypeOK
<1>2. AnsweredIsKept' /\ RunsAsConfigured' /\ Tracked'
  BY DEF AnsweredIsKept, RunsAsConfigured, Tracked
<1> QED BY <1>1, <1>2

LEMMA PressCopiesKeeps ==
  ASSUME SettingsInv, NEW m \in Modes, PressCopies(m) PROVE SettingsInv'
<1> USE DEF SettingsInv, PressCopies, Yields, history
<1>1. ram \in Configs /\ copy' = [ram EXCEPT !.conn = m]
  BY DEF SettingsTypeOK
<1>2. /\ [ram EXCEPT !.conn = m] \in Configs
      /\ Calibrated([ram EXCEPT !.conn = m]) = [Calibrated(ram) EXCEPT !.conn = m]
  BY <1>1, FieldsTyped
<1>3. [ram EXCEPT !.conn = m].conn = m
  BY <1>1 DEF Configs
<1>4. /\ copy' \in Configs /\ copy'.conn = m
      /\ Calibrated(copy') = [Calibrated(ram) EXCEPT !.conn = m]
  BY <1>1, <1>2, <1>3
<1>5. SettingsTypeOK'
  BY <1>4 DEF SettingsTypeOK
<1>6. AnsweredIsKept' /\ RunsAsConfigured'
  BY DEF AnsweredIsKept, RunsAsConfigured
<1>7. Tracked'
  BY <1>4 DEF Tracked, SettingsTypeOK
<1> QED BY <1>5, <1>6, <1>7

LEMMA PressSavesKeeps == ASSUME SettingsInv, PressSaves PROVE SettingsInv'
<1>1. PICK ok \in BOOLEAN :
        /\ Yields /\ button = "copied" /\ button' = "restart"
        /\ Write(copy, ok)
        /\ asked' = [asked EXCEPT !.conn = copy.conn] /\ wanted' = asked'
        /\ contested' = (contested \/ ~ok \/ net # "idle")
        /\ copy' = Default
        /\ UNCHANGED <<up, ram, run, net>>
  BY DEF PressSaves
<1> USE DEF SettingsInv, Write, Yields
<1>0. /\ asked' \in Requests
      /\ Stored(asked') = [Stored(asked) EXCEPT !.conn = copy.conn]
  <2>1. copy.conn \in Modes
    BY DEF SettingsTypeOK, Configs
  <2> QED  BY <1>1, <2>1, StoredTyped DEF SettingsTypeOK
<1>2. SettingsTypeOK'
  BY <1>0, <1>1, DefaultTyped DEF SettingsTypeOK
<1>3. AnsweredIsKept'
  BY <1>0, <1>1 DEF AnsweredIsKept, Tracked
<1>4. RunsAsConfigured'
  BY <1>1 DEF RunsAsConfigured
<1>5. Tracked'
  BY <1>1 DEF Tracked
<1> QED BY <1>2, <1>3, <1>4, <1>5

LEMMA PressResetsKeeps == ASSUME SettingsInv, PressResets PROVE SettingsInv'
<1>1. PICK ok \in BOOLEAN :
        /\ Yields /\ button = "idle" /\ button' = "restart"
        /\ Clear(ok)
        /\ contested' = (contested \/ ~ok \/ net # "idle")
        /\ UNCHANGED <<up, run, net, copy>>
  BY DEF PressResets
<1>2. up /\ net' \in {"idle", "restart"} /\ contested' \in BOOLEAN
  BY <1>1 DEF SettingsInv, SettingsTypeOK, Yields
<1> QED BY <1>1, <1>2, ResetKeeps

\* Every command that goes through Apply meets its assumptions.
LEMMA SettersKeep ==
  ASSUME SettingsInv,
         (\E v \in 0..TopValue : SetTimeout(v)) \/ (\E m \in Modes : SetMode(m))
         \/ (\E b \in BOOLEAN : SetLog(b)) \/ Calibrate \/ ResetCalibration
  PROVE  SettingsInv'
<1>1. ram \in Configs /\ run \in Configs /\ asked \in Requests
  BY DEF SettingsInv, SettingsTypeOK
<1>2. SUFFICES ASSUME up, net = "idle" PROVE SettingsInv'
  BY DEF SetTimeout, SetMode, SetLog, SetCal, Calibrate, ResetCalibration, Apply
<1>3. /\ run.cal # "NAN"
      /\ button # "restart" =>
           /\ ram.cal # "NAN" /\ Calibrated(ram) = ram
           /\ run.timeout = ram.timeout /\ run.cal = ram.cal /\ (run.log => ram.log)
  BY <1>1, <1>2, CalibratedTyped DEF SettingsInv, RunsAsConfigured, Tracked
<1>4. CASE \E v \in 0..TopValue : SetTimeout(v)
  <2>1. PICK v \in 0..TopValue : SetTimeout(v)
    BY <1>4
  <2>2. v \in Nat /\ Fit(v) \in 0..MaxField
    BY <2>1, SettingsAssumption DEF Fit
  <2> DEFINE c == [ram EXCEPT !.timeout = Fit(v)]
             r == [run EXCEPT !.timeout = Fit(v)]
             w == [asked EXCEPT !.timeout = v]
  <2>3. c \in Configs /\ r \in Configs /\ w \in Requests /\ Apply(c, r, w)
    BY <1>1, <2>1, <2>2, FieldsTyped, StoredTyped DEF SetTimeout
  <2>4. /\ r.cal # "NAN"
        /\ button # "restart" =>
             c.cal # "NAN" /\ r.timeout = c.timeout /\ r.cal = c.cal /\ (r.log => c.log)
    BY <1>1, <1>2, <1>3 DEF Configs
  <2>5. button = "idle" /\ Calibrated(ram) = Stored(asked) => c = Stored(w)
    <3>1. Stored(w) = [Stored(asked) EXCEPT !.timeout = Fit(v)]
      BY <1>1, <2>1, <2>2, StoredTyped
    <3> QED  BY <1>3, <3>1
  <2> HIDE DEF c, r, w
  <2> QED BY <2>3, <2>4, <2>5, ApplyKeeps
<1>5. CASE \E m \in Modes : SetMode(m)
  <2>1. PICK m \in Modes : SetMode(m)
    BY <1>5
  <2> DEFINE c == [ram EXCEPT !.conn = m]
             w == [asked EXCEPT !.conn = m]
  <2>2. c \in Configs /\ w \in Requests /\ Apply(c, run, w)
    BY <1>1, <2>1, FieldsTyped, StoredTyped DEF SetMode
  <2>3. /\ run.cal # "NAN"
        /\ button # "restart" =>
             c.cal # "NAN" /\ run.timeout = c.timeout /\ run.cal = c.cal /\ (run.log => c.log)
    BY <1>1, <1>3 DEF Configs
  <2>4. button = "idle" /\ Calibrated(ram) = Stored(asked) => c = Stored(w)
    <3>1. Stored(w) = [Stored(asked) EXCEPT !.conn = m]
      BY <1>1, <2>1, <2>2, StoredTyped
    <3> QED  BY <1>3, <3>1
  <2> HIDE DEF c, w
  <2> QED BY <1>1, <2>2, <2>3, <2>4, ApplyKeeps
<1>6. CASE \E b \in BOOLEAN : SetLog(b)
  <2>1. PICK b \in BOOLEAN : SetLog(b)
    BY <1>6
  <2> DEFINE c == [ram EXCEPT !.log = b]
             r == [run EXCEPT !.log = b]
             w == [asked EXCEPT !.log = b]
  <2>2. c \in Configs /\ r \in Configs /\ w \in Requests /\ Apply(c, r, w)
    BY <1>1, <2>1, FieldsTyped, StoredTyped DEF SetLog
  <2>3. /\ r.cal # "NAN"
        /\ button # "restart" =>
             c.cal # "NAN" /\ r.timeout = c.timeout /\ r.cal = c.cal /\ (r.log => c.log)
    BY <1>1, <1>3 DEF Configs
  <2>4. button = "idle" /\ Calibrated(ram) = Stored(asked) => c = Stored(w)
    <3>1. Stored(w) = [Stored(asked) EXCEPT !.log = b]
      BY <1>1, <2>1, <2>2, StoredTyped
    <3> QED  BY <1>3, <3>1
  <2> HIDE DEF c, r, w
  <2> QED BY <2>2, <2>3, <2>4, ApplyKeeps
<1>7. CASE Calibrate \/ ResetCalibration
  <2>1. run.cal \in {"HW", "SET"}
    BY <1>1, <1>3 DEF Configs
  <2>2. PICK k \in {"HW", "SET"} : SetCal(k)
    BY <1>7, <2>1 DEF Calibrate, ResetCalibration
  <2> DEFINE c == [ram EXCEPT !.cal = k]
             r == [run EXCEPT !.cal = k]
             w == [asked EXCEPT !.cal = k]
  <2>3. c \in Configs /\ r \in Configs /\ w \in Requests /\ Apply(c, r, w)
    BY <1>1, <2>2, FieldsTyped, StoredTyped DEF SetCal
  <2>4. /\ r.cal # "NAN"
        /\ button # "restart" =>
             c.cal # "NAN" /\ r.timeout = c.timeout /\ r.cal = c.cal /\ (r.log => c.log)
    BY <1>1, <1>3, <2>2 DEF Configs
  <2>5. button = "idle" /\ Calibrated(ram) = Stored(asked) => c = Stored(w)
    <3>1. Stored(w) = [Stored(asked) EXCEPT !.cal = k]
      BY <1>1, <2>1, <2>2, StoredTyped
    <3> QED  BY <1>3, <3>1
  <2> HIDE DEF c, r, w
  <2> QED BY <2>3, <2>4, <2>5, ApplyKeeps
<1> QED BY <1>4, <1>5, <1>6, <1>7

LEMMA StepSettings ==
  ASSUME SettingsInv, [SettingsNext]_settingsVars
  PROVE  SettingsInv'
<1>1. CASE Boot
  BY <1>1, BootKeeps
<1>2. CASE PowerCut \/ Restart
  BY <1>2, OffKeeps DEF PowerCut, Restart
<1>3. CASE Command
  BY <1>3, SettersKeep, SaveKeeps, FactoryResetKeeps, RebootKeeps DEF Command
<1>4. CASE LongPress
  BY <1>4, PressCopiesKeeps, PressSavesKeeps, PressResetsKeeps DEF LongPress, Modes
<1>5. CASE UNCHANGED settingsVars
  BY <1>5 DEF settingsVars, SettingsInv, SettingsTypeOK, AnsweredIsKept, RunsAsConfigured, Tracked
<1> QED BY <1>1, <1>2, <1>3, <1>4, <1>5 DEF SettingsNext

-----------------------------------------------------------------------------

\* The inductive invariant of the settings: what the commands answered is in
\* flash as far as it fits, what _config says is what runs, whatever boots, power
\* cuts, failing saves and long presses come in between.
THEOREM SettingsInvariant ==
  SettingsSafety => []SettingsInv
<1>1. SettingsInv /\ [SettingsNext]_settingsVars => SettingsInv'
  BY StepSettings
<1> QED BY <1>1, InitSettings, PTL DEF SettingsSafety

\* Answered settings survive every boot and power cut (setConfig, calibrate and
\* the resets, CommandHandler.cpp:320-630), for every width of the fields,
\* as the fields take them.
THEOREM AnsweredSurvives ==
  SettingsSafety => []AnsweredIsKept
<1>1. SettingsInv => AnsweredIsKept
  BY DEF SettingsInv
<1> QED BY <1>1, SettingsInvariant, PTL

\* The components run on what _config tells the app (setters and setup()).
THEOREM RunningIsConfigured ==
  SettingsSafety => []RunsAsConfigured
<1>1. SettingsInv => RunsAsConfigured
  BY DEF SettingsInv
<1> QED BY <1>1, SettingsInvariant, PTL

\* A restart changes neither protection nor calibration: flash, answers, RAM
\* and what runs agree between commands.
THEOREM RestartsAreNeutral ==
  SettingsSafety => []RestartIsNeutral
<1>1. SettingsInv => RestartIsNeutral
  <2> SUFFICES ASSUME SettingsInv, up, net = "idle", button = "idle", ~contested
               PROVE  /\ Effective(Calibrated(flash)).timeout = run.timeout
                      /\ Effective(Calibrated(flash)).cal = run.cal
    BY DEF RestartIsNeutral
  <2>1. ram \in Configs /\ flash \in Configs
    BY DEF SettingsInv, SettingsTypeOK
  <2>2. Calibrated(flash) = Calibrated(ram) /\ Calibrated(ram) = ram
    BY <2>1, CalibratedTyped DEF SettingsInv, AnsweredIsKept, Tracked
  <2>3. run.timeout = ram.timeout /\ run.cal = ram.cal
    BY DEF SettingsInv, RunsAsConfigured
  <2> QED BY <2>1, <2>2, <2>3, EffectiveTyped
<1> QED BY <1>1, SettingsInvariant, PTL
=============================================================================
