---------------------------- MODULE PumpController --------------------------
(***************************************************************************)
(* src/src/PumpController.cpp above the relay driver, with the current     *)
(* sensor that feeds it and the LED its events drive.  Every call runs to  *)
(* its end here; PumpTasks takes the same calls apart.                     *)
(*                                                                         *)
(* update() runs every 20 ms in the sensor task, on the last measured      *)
(* current, which the same task refreshes only about every 2 s (each       *)
(* CurrentSensor::loop alternates between voltage and current): update     *)
(* may see a sample older than the command it follows.                     *)
(***************************************************************************)
EXTENDS RelayController, Integers

CONSTANTS Configs,   \* the settings setConfig may store (the pump part of DeviceConfig)
          Loads,     \* the currents, in mA, the pump draws when it is powered
          Horizon    \* where the protection timers saturate, in ticks

Settings == [pumpMode: BOOLEAN, off: Nat, noWater: Nat, running: Nat, overload: Nat,
             dryTimeout: 0..Horizon, overloadTimeout: 0..Horizon]

ASSUME PumpAssumption == Horizon \in Nat /\ Configs \subseteq Settings /\ Loads \subseteq Nat

VARIABLES cfg,       \* thresholds, timeouts and _pumpMode
          state,     \* _state
          latched,   \* _faultLatched
          timer,     \* _dryStart, _criticalStart, _overloadStart, as time since then
          led,       \* what the LED was last set to, by onPumpState or the button
          load,      \* environment: what the pump draws when powered
          mixed,     \* environment: the running measuring window saw a change
          sample,    \* CurrentSensor::_current, in mA
          streak,    \* observer: time since an update last judged otherwise, or nothing
          stale      \* history: stamps an update left running without judging their fault

pumpVars == <<rly, cfg, state, latched, timer, led, load, mixed, sample, streak, stale>>
watched  == <<streak, stale>>
plantVars == <<load, sample>>

Faults == {"DRY_RUN", "CRITICAL_CURRENT", "OVERLOAD"}
States == Faults \cup {"OFF", "RUNNING_OK", "HIGH_CURRENT"}

\* A start stamp of 0 means "not started".
Stopped == -1
NoTimers == [f \in Faults |-> Stopped]

Powered(r) == r.contact \/ r.gate
Currents == Loads \cup {0}

\* What the button's long press writes to the LED, blinking or dark, is no state
\* of the pump.
Pressed == "PRESSED"
Lights == Faults \cup {"HIGH_CURRENT", "ON", "OFF", Pressed}

\* onPumpState: faults and high current blink, otherwise the LED shows the relay.
Show(st, on) ==
  IF st \in Faults \cup {"HIGH_CURRENT"} THEN st ELSE IF on THEN "ON" ELSE "OFF"

-----------------------------------------------------------------------------
(* The verdict of one update *)

\* The threshold bands in the order the code tests them; switch mode knows
\* only the first two and the last.
Band(mA, c) ==
  IF mA < c.off THEN "off"
  ELSE IF mA >= c.overload THEN "overload"
  ELSE IF ~c.pumpMode THEN "ok"
  ELSE IF mA >= (c.running * 125) \div 100 THEN "critical"
  ELSE IF mA >= c.running THEN "high"
  ELSE IF mA < c.noWater THEN "dry"
  ELSE "ok"

\* The fault a band is evidence for, if any.
Suspects(band) ==
  CASE band = "dry"      -> {"DRY_RUN"}
    [] band = "critical" -> {"CRITICAL_CURRENT"}
    [] band = "overload" -> {"OVERLOAD"}
    [] OTHER             -> {}

Timeout(f) == IF f = "OVERLOAD" THEN cfg.overloadTimeout ELSE cfg.dryTimeout

\* Switch mode looks at the overload timer only.
Judged(f) == cfg.pumpMode \/ f = "OVERLOAD"

\* An overload in pump mode that leaves the dry and critical timers running.
TimersKeptByOverload(band) ==
  [f \in Faults |->
     CASE f \in Suspects(band) -> IF timer[f] = Stopped THEN 0 ELSE timer[f]
       [] f \notin Suspects(band) /\ Judged(f) /\ band # "overload" -> Stopped
       [] OTHER -> timer[f]]

\* A timer that starts again at every update.
TimersRestarting(band) ==
  [f \in Faults |->
     CASE f \in Suspects(band) -> 0
       [] f \notin Suspects(band) /\ Judged(f) -> Stopped
       [] OTHER -> timer[f]]

NextTimers(band) ==
  [f \in Faults |->
     CASE f \in Suspects(band) -> IF timer[f] = Stopped THEN 0 ELSE timer[f]
       [] f \notin Suspects(band) /\ Judged(f) -> Stopped
       [] OTHER -> timer[f]]

\* A suspected fault is found when its timer, started earlier, has run out;
\* until then the state stays what it was.
NextState(band) ==
  CASE band = "off"  -> "OFF"
    [] band = "ok"   -> "RUNNING_OK"
    [] band = "high" -> "HIGH_CURRENT"
    [] OTHER ->
         IF \E f \in Suspects(band) : timer[f] # Stopped /\ timer[f] >= Timeout(f)
         THEN CHOOSE f \in Suspects(band) : TRUE
         ELSE state

-----------------------------------------------------------------------------
(* The calls *)

\* The window of the sensor, when the pump is switched.
Watch == mixed' = (mixed \/ Powered(rly') # Powered(rly))

\* What an update that ends with these timers makes of the observers: only an
\* update that finds the fault suspected lets its time run on, while the latch
\* sleeps nothing does, and a stamp switch mode does not look at goes stale.
Observed(band, timers) ==
  /\ streak' = [f \in Faults |-> IF ~latched /\ f \in Suspects(band) THEN streak[f] ELSE 0]
  /\ stale' = {f \in Faults : timers[f] # Stopped /\ (f \in stale \/ (~latched /\ ~Judged(f)))}

\* update() with the relay handled after the early return of a latched fault.
ServicedLate(trip) ==
  IF latched THEN rly ELSE IF trip THEN TurnOff(Handle(rly)) ELSE Handle(rly)

\* The relay sequence always moves on; a trip turns the relay off.
Serviced(trip) == IF trip THEN TurnOff(Handle(rly)) ELSE Handle(rly)

\* update() that raises its event for the faults only.
ShownForFaults(next) == IF ~latched /\ next \in Faults THEN Show(next, rly'.on) ELSE led

\* Every change of state raises an event.
Shown(next) == IF ~latched /\ next # state THEN Show(next, rly'.on) ELSE led

\* update(): a latched fault judges nothing.
Update ==
  LET band == Band(sample, cfg)
      next == NextState(band)
      trip == ~latched /\ next # state /\ next \in Faults
  IN /\ rly' = Serviced(trip)
     /\ state' = IF latched THEN state ELSE next
     /\ latched' = (latched \/ trip)
     /\ timer' = IF latched THEN timer ELSE NextTimers(band)
     /\ led' = Shown(next)
     /\ Watch
     /\ Observed(band, timer')
     /\ UNCHANGED <<cfg, plantVars>>

\* turnOn() and turnOff() that leave the latch to clearPumpFault.
SwitchRelayKeepingLatch(r) ==
  /\ rly' = r
  /\ led' = Show(state, r.on)
  /\ Watch
  /\ UNCHANGED <<cfg, state, latched, timer, plantVars, watched>>

\* turnOn() and turnOff(): the latch goes, the state and the timers stay.
SwitchRelay(r) ==
  /\ rly' = r
  /\ latched' = FALSE
  /\ led' = Show(state, r.on)
  /\ Watch
  /\ UNCHANGED <<cfg, state, timer, plantVars, watched>>

\* setRelay on from the network (turnOn).
PumpOn  == SwitchRelay(TurnOn(rly))

\* setRelay off from the network (turnOff).
PumpOff == SwitchRelay(TurnOff(rly))

\* A click of the button.
PumpToggle == SwitchRelay(IF rly.on THEN TurnOff(rly) ELSE TurnOn(rly))

\* clearPumpFault from the network.
ClearPumpFault ==
  /\ latched' = FALSE
  /\ timer' = NoTimers
  /\ state' = IF state \in Faults THEN "OFF" ELSE state
  /\ led' = IF state \in Faults THEN Show("OFF", rly.on) ELSE led
  /\ streak' = [f \in Faults |-> 0] /\ stale' = {}
  /\ UNCHANGED <<rly, cfg, plantVars, mixed>>

\* setConfig: thresholds, timeouts and mode change under a running pump.
SetConfig ==
  /\ cfg' \in Configs
  /\ UNCHANGED <<rly, state, latched, timer, led, plantVars, mixed, watched>>

\* onButtonLongPressStart sets the LED itself, again and again while the button is
\* held and once more when it is released; from the fourth step on nothing
\* restarts and nothing restores what the LED showed.
LongPress ==
  /\ led' = Pressed
  /\ UNCHANGED <<rly, cfg, state, latched, timer, plantVars, mixed, watched>>

-----------------------------------------------------------------------------
(* The sensor, the pump and time *)

\* CurrentSensor::loop on a current window: an average over the window, so
\* anything in between when the pump was switched or its load changed.
Measure ==
  /\ IF mixed THEN sample' \in Currents
              ELSE sample' = IF Powered(rly) THEN load ELSE 0
  /\ mixed' = FALSE
  /\ UNCHANGED <<rly, cfg, state, latched, timer, led, load, watched>>

\* The well runs dry, the pump jams, the water comes back.
ChangeLoad ==
  /\ load' \in Loads \ {load}
  /\ mixed' = (mixed \/ Powered(rly))
  /\ UNCHANGED <<rly, cfg, state, latched, timer, led, sample, watched>>

Tick ==
  /\ rly' = Older(rly)
  /\ timer' = [f \in Faults |->
                 IF timer[f] \in 0..(Horizon - 1) THEN timer[f] + 1 ELSE timer[f]]
  /\ streak' = [f \in Faults |-> IF streak[f] < Horizon THEN streak[f] + 1 ELSE streak[f]]
  /\ UNCHANGED <<cfg, state, latched, led, plantVars, mixed, stale>>

\* After setup(): relayStartMode has commanded the pump on or left it off.
PumpInit ==
  /\ rly \in {AtRest, TurnOn(AtRest)}
  /\ cfg \in Configs
  /\ state = "OFF" /\ latched = FALSE
  /\ timer = NoTimers
  /\ led = Show("OFF", rly.on)
  /\ load \in Loads /\ mixed = FALSE /\ sample = 0
  /\ streak = [f \in Faults |-> 0] /\ stale = {}

Command == PumpOn \/ PumpOff \/ PumpToggle \/ ClearPumpFault \/ SetConfig \/ LongPress

PumpNext == Update \/ Command \/ Measure \/ ChangeLoad \/ Tick

PumpSafety == PumpInit /\ [][PumpNext]_pumpVars

\* The sensor task has the highest priority and never blocks; time passes.
PumpSpec ==
  PumpSafety /\ WF_pumpVars(Update) /\ WF_pumpVars(Measure) /\ WF_pumpVars(Tick)

-----------------------------------------------------------------------------
(* Properties *)

PumpTypeOK ==
  /\ rly \in Drivers
  /\ cfg \in Configs
  /\ state \in States
  /\ latched \in BOOLEAN
  /\ timer \in [Faults -> {Stopped} \cup 0..Horizon]
  /\ led \in Lights
  /\ load \in Loads /\ sample \in Currents /\ mixed \in BOOLEAN
  /\ streak \in [Faults -> 0..Horizon] /\ stale \subseteq Faults

\* While a fault is latched the relay is commanded off and the state names the
\* fault: no order of commands, updates and settings leaves the protection
\* asleep (update() returns early) with the pump commanded on.
LatchedMeansOff == latched => ~rly.on /\ state \in Faults

\* The protection trips only on evidence that every update of the whole timeout
\* confirmed, whatever bands, commands and settings came before, but for one case:
\* the stamp of a dry run or a critical current that was running when switch mode
\* was set is neither judged nor stopped there (PumpController.cpp:51-65), and the
\* first sample of that band after the return to pump mode trips.
TripsAreEarned ==
  [][~latched /\ latched' => streak[state'] >= Timeout(state') \/ state' \in stale]_pumpVars

\* A running stamp never claims more time than its fault was suspected without a
\* break, nor waits under the latch, except the stamps that switch mode left running,
\* and the one of the fault the pump is in, which can trip no second time.
TimersBacked ==
  \A f \in Faults \ stale :
    timer[f] # Stopped /\ f # state => ~latched /\ streak[f] >= timer[f]

\* The LED never shows another state of the pump than the present one, although
\* events at five places of PumpController set it: what it shows is current or was
\* written by the button's long press.
LedTellsPump == led \in {Pressed, Show(state, rly.on)}

\* A trip is carried out: the relay sequence runs on while the fault is latched
\* and judges nothing else, until contact and TRIAC are off.
TripCutsPower == latched ~> ~latched \/ ~Powered(rly)

\* PumpInv is the inductive invariant of the safety properties.
PumpInv == PumpTypeOK /\ LatchedMeansOff /\ LedTellsPump /\ TimersBacked

\* The pump is commanded on while its load is evidence for fault f.
RunsAgainst(f) == rly.on /\ f \in Suspects(Band(load, cfg))

\* From any state but a fault state, a pump that stays commanded on against a
\* fault is stopped in the end (unless clearPumpFault keeps resetting the timers).
FreshFaultIsStopped ==
  \A f \in Faults :
    \/ []<>~(RunsAgainst(f) /\ state \notin Faults)
    \/ []<><<ClearPumpFault>>_pumpVars

\* What Config.h:53 says of the dry-run timeout ("7s dry run => auto off"):
\* a pump in pump mode does not stay commanded on, and dry, for ever.
DryRunTurnsOff ==
  \/ []<>~RunsAgainst("DRY_RUN")
  \/ []<><<ClearPumpFault>>_pumpVars
=============================================================================
