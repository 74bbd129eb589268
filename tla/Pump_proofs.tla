----------------------------- MODULE Pump_proofs ----------------------------
(***************************************************************************)
(* The pump protection for every set of settings and loads and all settle  *)
(* times.  First PumpController, whose calls run to their end: the latch,  *)
(* the LED and the timers stay consistent, and no trip is unearned.  Then  *)
(* PumpTasks, whose calls are taken apart: without preemption they are     *)
(* those of PumpController, and with it only the races named remain.       *)
(***************************************************************************)
EXTENDS PumpTasks, Relay_proofs

USE PumpAssumption

Bands == {"off", "overload", "ok", "critical", "high", "dry"}

(***************************************************************************)
(* Lemmas on one verdict.                                                  *)
(***************************************************************************)

\* Every current falls into one of the six bands of the code.
LEMMA BandTyped == ASSUME NEW mA, NEW c PROVE Band(mA, c) \in Bands
BY DEF Band, Bands

\* A band is evidence for at most one fault.
LEMMA SuspectsTyped ==
  ASSUME NEW band \in Bands
  PROVE  /\ Suspects(band) \subseteq Faults
         /\ Suspects(band) = {} <=> band \in {"off", "ok", "high"}
         /\ \A f, g \in Suspects(band) : f = g
<1>1. CASE band = "dry"
  BY <1>1 DEF Suspects, Faults, Bands
<1>2. CASE band = "critical"
  BY <1>2 DEF Suspects, Faults, Bands
<1>3. CASE band = "overload"
  BY <1>3 DEF Suspects, Faults, Bands
<1>4. CASE band \in {"off", "ok", "high"}
  BY <1>4 DEF Suspects, Faults, Bands
<1>5. QED
  BY <1>1, <1>2, <1>3, <1>4 DEF Bands

\* The verdict is a state, and a new fault is one whose timer ran out.
LEMMA VerdictJustified ==
  ASSUME PumpTypeOK, NEW band \in Bands
  PROVE  /\ NextState(band) \in States
         /\ NextState(band) # state /\ NextState(band) \in Faults =>
              /\ NextState(band) \in Suspects(band)
              /\ timer[NextState(band)] # Stopped
              /\ timer[NextState(band)] >= Timeout(NextState(band))
<1>1. state \in States
  BY DEF PumpTypeOK
<1>2. CASE band \in {"off", "ok", "high"}
  BY <1>2 DEF NextState, States, Faults
<1>3. CASE band \in {"dry", "critical", "overload"}
  <2>1. CASE \E f \in Suspects(band) : timer[f] # Stopped /\ timer[f] >= Timeout(f)
    <3>1. PICK f \in Suspects(band) : timer[f] # Stopped /\ timer[f] >= Timeout(f)
      BY <2>1
    <3>2. NextState(band) = CHOOSE g \in Suspects(band) : TRUE
      BY <1>3, <2>1 DEF NextState
    <3>3. NextState(band) = f
      BY <3>1, <3>2, SuspectsTyped
    <3>4. f \in States
      BY <3>1, SuspectsTyped DEF States
    <3>5. QED
      BY <3>1, <3>3, <3>4
  <2>2. CASE ~ \E f \in Suspects(band) : timer[f] # Stopped /\ timer[f] >= Timeout(f)
    <3>1. NextState(band) = state
      BY <1>3, <2>2 DEF NextState
    <3>2. QED
      BY <1>1, <3>1
  <2>3. QED
    BY <2>1, <2>2
<1>4. QED
  BY <1>2, <1>3 DEF Bands

\* The LED shows one of six things.
LEMMA ShowTyped ==
  ASSUME NEW s \in States, NEW on \in BOOLEAN
  PROVE  Show(s, on) \in Faults \cup {"HIGH_CURRENT", "ON", "OFF"} /\ Show(s, on) \in Lights
BY DEF Show, States, Faults, Lights

\* The commanded state is a Boolean.
LEMMA OnIsBoolean == ASSUME NEW r \in Drivers PROVE r.on \in BOOLEAN
BY DEF Drivers

\* A timeout is one of the configured ones.
LEMMA TimeoutTyped == ASSUME PumpTypeOK, NEW f \in Faults PROVE Timeout(f) \in 0..Horizon
BY DEF PumpTypeOK, Timeout, Settings

-----------------------------------------------------------------------------
(***************************************************************************)
(* The invariant is inductive: one lemma per action.                       *)
(***************************************************************************)

\* It holds after setup().
LEMMA InitInv == PumpInit => PumpInv
<1>1. SUFFICES ASSUME PumpInit PROVE PumpInv
  OBVIOUS
<1>2. AtRest \in Drivers
  <2>1. MaxAge \in 0..MaxAge
    BY SettleAssumption DEF MaxAge
  <2>2. QED
    BY <2>1 DEF AtRest, Driver, Drivers
<1>3. rly \in Drivers
  BY <1>1, <1>2, OperationsTyped DEF PumpInit
<1>4. PumpTypeOK
  <2>1. state \in States /\ led = Show("OFF", rly.on) /\ "OFF" \in States
    BY <1>1 DEF PumpInit, States
  <2>2. led \in Lights
    BY <1>3, <2>1, ShowTyped, OnIsBoolean
  <2>3. timer \in [Faults -> {Stopped} \cup 0..Horizon]
    BY <1>1 DEF PumpInit, NoTimers
  <2>4. streak \in [Faults -> 0..Horizon]
    BY <1>1 DEF PumpInit
  <2>5. QED
    BY <1>1, <1>3, <2>1, <2>2, <2>3, <2>4 DEF PumpInit, PumpTypeOK, Currents
<1>5. LatchedMeansOff /\ LedTellsPump /\ TimersBacked
  BY <1>1 DEF PumpInit, LatchedMeansOff, LedTellsPump, TimersBacked, NoTimers
<1>6. QED
  BY <1>4, <1>5 DEF PumpInv

\* Fault f has the evidence its running stamp claims, or is excused by z.
Backed(f, z) ==
  f \notin stale /\ timer[f] # Stopped /\ f # state /\ ~z => ~latched /\ streak[f] >= timer[f]

\* What holds of the types and the timers wherever update() comes between the
\* statements of a call: there a fault that trips at once may keep its stamp under
\* the latch when clearPumpFault() takes the state from it.
BackedInv == PumpTypeOK /\ \A f \in Faults : Backed(f, Timeout(f) = 0)

LEMMA TimersBackedIs == TimersBacked <=> \A f \in Faults : Backed(f, FALSE)
BY DEF TimersBacked, Backed

\* Every stamp an update lets run has its evidence.
LEMMA UpdateTimers ==
  ASSUME PumpTypeOK, Update, NEW f \in Faults, NEW z \in BOOLEAN, Backed(f, z)
  PROVE  Backed(f, z)'
<1> DEFINE band == Band(sample, cfg)
           next == NextState(band)
           trip == ~latched /\ next # state /\ next \in Faults
<1>1. band \in Bands
  BY BandTyped
<1>2. /\ state' = IF latched THEN state ELSE next
      /\ latched' = (latched \/ trip)
      /\ timer' = IF latched THEN timer ELSE NextTimers(band)
      /\ streak' = [g \in Faults |-> IF ~latched /\ g \in Suspects(band) THEN streak[g] ELSE 0]
      /\ stale' = {g \in Faults : timer'[g] # Stopped /\ (g \in stale \/ (~latched /\ ~Judged(g)))}
  BY DEF Update, Observed
<1>3. timer[f] \in {Stopped} \cup 0..Horizon /\ streak[f] \in 0..Horizon /\ latched \in BOOLEAN
  BY DEF PumpTypeOK
<1>4. next # state /\ next \in Faults => next \in Suspects(band)
  BY <1>1, VerdictJustified
<1>5. \A g, h \in Suspects(band) : g = h
  BY <1>1, SuspectsTyped
<1>6. f \in Suspects(band) => next \in {f, state}
  <2>1. SUFFICES ASSUME f \in Suspects(band) PROVE next \in {f, state}
    OBVIOUS
  <2>2. band \notin {"off", "ok", "high"}
    BY <1>1, <2>1, SuspectsTyped
  <2>3. CASE \E g \in Suspects(band) : timer[g] # Stopped /\ timer[g] >= Timeout(g)
    <3>1. next = CHOOSE g \in Suspects(band) : TRUE
      BY <2>2, <2>3 DEF NextState
    <3>2. next \in Suspects(band)
      BY <2>1, <3>1
    <3>3. QED
      BY <1>5, <2>1, <3>2
  <2>4. CASE ~ \E g \in Suspects(band) : timer[g] # Stopped /\ timer[g] >= Timeout(g)
    BY <2>2, <2>4 DEF NextState
  <2>5. QED
    BY <2>3, <2>4
<1> HIDE DEF band, next
<1>7. SUFFICES ASSUME f \notin stale', timer'[f] # Stopped, f # state', ~z
               PROVE  ~latched' /\ streak'[f] >= timer'[f]
  BY DEF Backed
<1>8. f \notin stale /\ (latched \/ Judged(f))
  BY <1>2, <1>7
<1>9. CASE latched
  BY <1>2, <1>7, <1>8, <1>9 DEF Backed
<1>10. CASE ~latched
  <2>1. timer' = NextTimers(band) /\ state' = next
    BY <1>2, <1>10
  <2>2. f \in Suspects(band)
    BY <1>7, <1>8, <1>10, <2>1 DEF NextTimers
  <2>3. next = state
    BY <1>6, <1>7, <2>1, <2>2
  <2>4. ~latched'
    BY <1>2, <1>10, <2>3
  <2>5. streak'[f] = streak[f] /\ timer'[f] = IF timer[f] = Stopped THEN 0 ELSE timer[f]
    BY <1>2, <1>10, <2>1, <2>2 DEF NextTimers
  <2>6. timer[f] # Stopped => streak[f] >= timer[f]
    BY <1>7, <1>8, <2>1, <2>3 DEF Backed
  <2>7. QED
    BY <1>3, <2>4, <2>5, <2>6
<1>11. QED
  BY <1>9, <1>10

\* update() keeps it, as every timer it lets run has its evidence; and it turns the
\* relay off when it trips, and only then.
LEMMA UpdateBacked ==
  ASSUME BackedInv, Update
  PROVE  /\ BackedInv'
         /\ rly' \in {Handle(rly), TurnOff(Handle(rly))}
         /\ rly'.on = (rly.on /\ ~(~latched /\ latched'))
         /\ latched => latched' /\ state' = state /\ led' = led
         /\ ~latched => /\ latched' => state' \in Faults
                       /\ led' = IF state' # state THEN Show(state', rly'.on) ELSE led
<1> DEFINE band == Band(sample, cfg)
           next == NextState(band)
           trip == ~latched /\ next # state /\ next \in Faults
<1>2. PumpTypeOK
  BY DEF BackedInv
<1>3. band \in Bands
  BY BandTyped
<1>4. /\ rly' = Serviced(trip)
      /\ state' = IF latched THEN state ELSE next
      /\ latched' = (latched \/ trip)
      /\ timer' = IF latched THEN timer ELSE NextTimers(band)
      /\ led' = Shown(next)
      /\ mixed' = (mixed \/ Powered(rly') # Powered(rly))
      /\ streak' = [f \in Faults |-> IF ~latched /\ f \in Suspects(band) THEN streak[f] ELSE 0]
      /\ stale' \subseteq Faults
      /\ UNCHANGED <<cfg, load, sample>>
  BY DEF Update, Watch, Observed, plantVars
<1>5. next \in States
  BY <1>2, <1>3, VerdictJustified
<1> HIDE DEF band, next
<1>6. /\ rly' \in Drivers /\ rly' \in {Handle(rly), TurnOff(Handle(rly))}
      /\ rly'.on = (rly.on /\ ~trip)
  <2>1. rly \in Drivers
    BY <1>2 DEF PumpTypeOK
  <2>2. Handle(rly) \in Drivers /\ Handle(rly).on = rly.on
    BY <2>1, OperationsTyped, OperationsCommand
  <2>3. TurnOff(Handle(rly)) \in Drivers /\ ~TurnOff(Handle(rly)).on
    BY <2>2, OperationsTyped, OperationsCommand
  <2>4. rly.on \in BOOLEAN /\ TurnOff(Handle(rly)).on \in BOOLEAN
    BY <2>1, <2>3, OnIsBoolean
  <2>5. QED
    BY <1>4, <2>2, <2>3, <2>4 DEF Serviced
<1>7. state' \in States /\ latched' \in BOOLEAN /\ mixed' \in BOOLEAN
  BY <1>2, <1>4, <1>5 DEF PumpTypeOK
<1>8. timer' \in [Faults -> {Stopped} \cup 0..Horizon]
  <2>1. NextTimers(band) \in [Faults -> {Stopped} \cup 0..Horizon]
    BY <1>2 DEF NextTimers, PumpTypeOK, Stopped
  <2>2. QED
    BY <1>2, <1>4, <2>1 DEF PumpTypeOK
<1>9. streak' \in [Faults -> 0..Horizon]
  BY <1>2, <1>4 DEF PumpTypeOK
<1>10. led' = IF ~latched /\ state' # state THEN Show(state', rly'.on) ELSE led
  BY <1>4 DEF Shown
<1>11. led' \in Lights
  <2>1. rly'.on \in BOOLEAN
    BY <1>6, OnIsBoolean
  <2>2. Show(state', rly'.on) \in Lights
    BY <1>7, <2>1, ShowTyped
  <2>3. QED
    BY <1>2, <1>10, <2>2 DEF PumpTypeOK
<1>12. PumpTypeOK'
  BY <1>2, <1>4, <1>6, <1>7, <1>8, <1>9, <1>11 DEF PumpTypeOK, Currents
<1>14. \A f \in Faults : Backed(f, Timeout(f) = 0)'
  <2>1. SUFFICES ASSUME NEW f \in Faults PROVE Backed(f, Timeout(f) = 0)'
    OBVIOUS
  <2>2. PICK z \in BOOLEAN : z = (Timeout(f) = 0)
    OBVIOUS
  <2>3. Timeout(f)' = Timeout(f)
    BY <1>4 DEF Timeout
  <2>4. Backed(f, z)
    BY <2>2 DEF BackedInv
  <2>5. Backed(f, z)'
    BY <1>2, <2>4, UpdateTimers
  <2>6. QED
    BY <2>2, <2>3, <2>5 DEF Backed
<1>15. BackedInv'
  BY <1>12, <1>14 DEF BackedInv
<1>16. (~latched /\ latched') <=> trip
  BY <1>2, <1>4 DEF PumpTypeOK
<1>17. QED
  BY <1>2, <1>4, <1>6, <1>10, <1>15, <1>16 DEF PumpTypeOK

\* update() keeps it: a trip turns the relay off in the same call.
LEMMA UpdateInv == PumpInv /\ Update => PumpInv'
<1>1. SUFFICES ASSUME PumpInv, Update PROVE PumpInv'
  OBVIOUS
<1>2. BackedInv /\ LatchedMeansOff /\ LedTellsPump /\ latched \in BOOLEAN
  BY <1>1 DEF PumpInv, BackedInv, PumpTypeOK, TimersBacked, Backed
<1>3. /\ BackedInv'
      /\ rly'.on = (rly.on /\ ~(~latched /\ latched'))
      /\ latched => latched' /\ state' = state /\ led' = led
      /\ ~latched => /\ latched' => state' \in Faults
                    /\ led' = IF state' # state THEN Show(state', rly'.on) ELSE led
  BY <1>1, <1>2, UpdateBacked
<1>4. rly.on \in BOOLEAN /\ latched' \in BOOLEAN
  BY <1>2, <1>3, OnIsBoolean DEF BackedInv, PumpTypeOK
<1>5. LatchedMeansOff'
  BY <1>2, <1>3, <1>4 DEF LatchedMeansOff
<1>6. LedTellsPump'
  <2>1. CASE latched \/ (~latched' /\ state' = state)
    <3>1. rly'.on = rly.on /\ led' = led /\ state' = state
      BY <1>3, <1>4, <2>1
    <3>2. QED
      BY <1>2, <3>1 DEF LedTellsPump
  <2>2. CASE ~latched /\ state' # state
    BY <1>3, <2>2 DEF LedTellsPump
  <2>3. CASE ~latched /\ latched' /\ state' = state
    BY <1>1, <2>3 DEF Update
  <2>4. QED
    BY <1>4, <2>1, <2>2, <2>3
<1>7. TimersBacked'
  <2>1. \A f \in Faults : Backed(f, FALSE)
    BY <1>1, TimersBackedIs DEF PumpInv
  <2>2. ASSUME NEW f \in Faults PROVE Backed(f, FALSE)'
    BY <1>1, <2>1, UpdateTimers DEF PumpInv
  <2>3. QED
    BY <2>2 DEF TimersBacked, Backed
<1>8. QED
  BY <1>3, <1>5, <1>6, <1>7 DEF PumpInv, BackedInv

\* turnOn(), turnOff() and toggle() keep it: they take the latch away first.
LEMMA SwitchInv ==
  ASSUME NEW r \in Drivers, PumpInv, SwitchRelay(r)
  PROVE  PumpInv'
<1>1. /\ rly' = r /\ latched' = FALSE /\ led' = Show(state, r.on)
      /\ mixed' = (mixed \/ Powered(rly') # Powered(rly))
      /\ UNCHANGED <<cfg, state, timer, load, sample, streak, stale>>
  BY DEF SwitchRelay, Watch, plantVars, watched
<1>2. PumpTypeOK
  BY DEF PumpInv
<1>3. led' \in Lights
  <2>1. state \in States /\ r.on \in BOOLEAN
    BY <1>2, OnIsBoolean DEF PumpTypeOK
  <2>2. QED
    BY <1>1, <2>1, ShowTyped
<1>4. mixed' \in BOOLEAN
  BY <1>1, <1>2 DEF PumpTypeOK
<1>5. PumpTypeOK'
  BY <1>1, <1>2, <1>3, <1>4 DEF PumpTypeOK, Currents
<1>6. LatchedMeansOff' /\ LedTellsPump'
  BY <1>1 DEF LatchedMeansOff, LedTellsPump
<1>7. TimersBacked'
  BY <1>1 DEF PumpInv, TimersBacked
<1>8. QED
  BY <1>5, <1>6, <1>7 DEF PumpInv

\* Every command from the network and the button keeps it.
LEMMA CommandInv == PumpInv /\ Command => PumpInv'
<1>1. SUFFICES ASSUME PumpInv, Command PROVE PumpInv'
  OBVIOUS
<1>2. PumpTypeOK
  BY <1>1 DEF PumpInv
<1>3. TurnOn(rly) \in Drivers /\ TurnOff(rly) \in Drivers
  BY <1>2, OperationsTyped DEF PumpTypeOK
<1>4. CASE PumpOn
  BY <1>1, <1>3, <1>4, SwitchInv DEF PumpOn
<1>5. CASE PumpOff
  BY <1>1, <1>3, <1>5, SwitchInv DEF PumpOff
<1>6. CASE PumpToggle
  BY <1>1, <1>3, <1>6, SwitchInv DEF PumpToggle
<1>7. CASE ClearPumpFault
  <2>1. /\ latched' = FALSE /\ timer' = NoTimers
        /\ state' = IF state \in Faults THEN "OFF" ELSE state
        /\ led' = IF state \in Faults THEN Show("OFF", rly.on) ELSE led
        /\ streak' = [f \in Faults |-> 0] /\ stale' = {}
        /\ UNCHANGED <<rly, cfg, load, sample, mixed>>
    BY <1>7 DEF ClearPumpFault, plantVars, watched
  <2>2. LedTellsPump'
    BY <1>1, <2>1 DEF PumpInv, LedTellsPump
  <2>3. state' \in States /\ rly' \in Drivers
    BY <1>2, <2>1 DEF PumpTypeOK, States
  <2>4. led' \in Lights
    BY <2>2, <2>3, ShowTyped, OnIsBoolean DEF LedTellsPump, Lights
  <2>5. PumpTypeOK'
    <3>1. timer' \in [Faults -> {Stopped} \cup 0..Horizon]
      BY <2>1 DEF NoTimers
    <3>2. streak' \in [Faults -> 0..Horizon]
      BY <2>1
    <3>3. QED
      BY <1>2, <2>1, <2>3, <2>4, <3>1, <3>2 DEF PumpTypeOK, Currents
  <2>6. LatchedMeansOff' /\ TimersBacked'
    BY <2>1 DEF LatchedMeansOff, TimersBacked, NoTimers
  <2>7. QED
    BY <2>2, <2>5, <2>6 DEF PumpInv
<1>8. CASE SetConfig
  <2>1. cfg' \in Configs /\ UNCHANGED <<rly, state, latched, timer, led, load, sample, mixed, streak, stale>>
    BY <1>8 DEF SetConfig, plantVars, watched
  <2>2. QED
    BY <1>1, <2>1 DEF PumpInv, PumpTypeOK, LatchedMeansOff, LedTellsPump, TimersBacked, Currents
<1>9. CASE LongPress
  <2>1. led' = Pressed /\ UNCHANGED <<rly, cfg, state, latched, timer, load, sample, mixed, streak, stale>>
    BY <1>9 DEF LongPress, plantVars, watched
  <2>2. Pressed \in Lights
    BY DEF Lights
  <2>3. QED
    BY <1>1, <2>1, <2>2
       DEF PumpInv, PumpTypeOK, LatchedMeansOff, LedTellsPump, TimersBacked, Currents
<1>10. QED
  BY <1>1, <1>4, <1>5, <1>6, <1>7, <1>8, <1>9 DEF Command

\* The sensor and the plant keep the types and the timers, and change little else.
LEMMA PlantBacked ==
  ASSUME BackedInv, Measure \/ ChangeLoad
  PROVE  BackedInv' /\ UNCHANGED <<rly, cfg, state, latched, timer, led, streak, stale>>
<1>2. PumpTypeOK
  BY DEF BackedInv
<1>3. UNCHANGED <<rly, cfg, state, latched, timer, led, streak, stale>>
  BY DEF Measure, ChangeLoad, watched
<1>4. load' \in Loads /\ sample' \in Currents /\ mixed' \in BOOLEAN
  <2>1. CASE Measure
    BY <1>2, <2>1 DEF PumpTypeOK, Measure, Currents
  <2>2. CASE ChangeLoad
    BY <1>2, <2>2 DEF PumpTypeOK, ChangeLoad
  <2>3. QED
    BY <2>1, <2>2
<1>5. PumpTypeOK'
  BY <1>2, <1>3, <1>4 DEF PumpTypeOK, Currents
<1>6. QED
  BY <1>3, <1>5 DEF BackedInv, Backed, Timeout

LEMMA InvIsBacked == PumpInv => BackedInv
BY DEF PumpInv, BackedInv, TimersBacked, Backed

LEMMA PlantInv == PumpInv /\ (Measure \/ ChangeLoad) => PumpInv'
BY PlantBacked, InvIsBacked DEF PumpInv, BackedInv, LatchedMeansOff, LedTellsPump, TimersBacked

\* Time keeps them: the observer ages with the timers.
LEMMA TickBacked ==
  ASSUME BackedInv, Tick
  PROVE  /\ BackedInv'
         /\ rly' = Older(rly) /\ rly'.on = rly.on
         /\ UNCHANGED <<cfg, state, latched, led, load, sample, mixed>>
         /\ TimersBacked => TimersBacked'
<1>2. PumpTypeOK
  BY DEF BackedInv
<1>3. /\ rly' = Older(rly)
      /\ timer' = [f \in Faults |->
                     IF timer[f] \in 0..(Horizon - 1) THEN timer[f] + 1 ELSE timer[f]]
      /\ streak' = [f \in Faults |->
                      IF streak[f] < Horizon THEN streak[f] + 1 ELSE streak[f]]
      /\ UNCHANGED <<cfg, state, latched, led, load, sample, mixed, stale>>
  BY DEF Tick, plantVars
<1>4. rly' \in Drivers /\ rly'.on = rly.on
  BY <1>2, <1>3, OperationsTyped, OperationsCommand DEF PumpTypeOK
<1>5. timer' \in [Faults -> {Stopped} \cup 0..Horizon]
  BY <1>2, <1>3 DEF PumpTypeOK, Stopped
<1>6. streak' \in [Faults -> 0..Horizon]
  BY <1>2, <1>3 DEF PumpTypeOK
<1>7. PumpTypeOK'
  BY <1>2, <1>3, <1>4, <1>5, <1>6 DEF PumpTypeOK, Currents
<1>8. ASSUME NEW f \in Faults, NEW z, Backed(f, z) PROVE Backed(f, z)'
  <2>1. timer[f] \in {Stopped} \cup 0..Horizon /\ streak[f] \in 0..Horizon
    BY <1>2 DEF PumpTypeOK
  <2>2. /\ timer'[f] = IF timer[f] \in 0..(Horizon - 1) THEN timer[f] + 1 ELSE timer[f]
        /\ streak'[f] = IF streak[f] < Horizon THEN streak[f] + 1 ELSE streak[f]
    BY <1>3
  <2>3. (f \notin stale /\ f # state /\ ~z) /\ timer[f] # Stopped => ~latched /\ streak[f] >= timer[f]
    BY <1>8 DEF Backed
  <2>4. (f \notin stale /\ f # state /\ ~z) /\ timer'[f] # Stopped => ~latched /\ streak'[f] >= timer'[f]
    BY <2>1, <2>2, <2>3 DEF Stopped
  <2>5. QED
    BY <1>3, <2>4 DEF Backed
<1>9. \A f \in Faults : Backed(f, Timeout(f) = 0)'
  <2>1. SUFFICES ASSUME NEW f \in Faults PROVE Backed(f, Timeout(f) = 0)'
    OBVIOUS
  <2>2. PICK z : z = (Timeout(f) = 0)
    OBVIOUS
  <2>3. Timeout(f)' = Timeout(f)
    BY <1>3 DEF Timeout
  <2>4. Backed(f, z)'
    BY <1>8, <2>2 DEF BackedInv
  <2>5. QED
    BY <2>2, <2>3, <2>4 DEF Backed
<1>10. TimersBacked => TimersBacked'
  <2>1. (\A f \in Faults : Backed(f, FALSE)) => \A f \in Faults : Backed(f, FALSE)'
    BY <1>8
  <2>2. QED
    BY <2>1 DEF TimersBacked, Backed
<1>11. QED
  BY <1>3, <1>4, <1>7, <1>9, <1>10 DEF BackedInv

LEMMA TickInv == PumpInv /\ Tick => PumpInv'
BY TickBacked, InvIsBacked DEF PumpInv, BackedInv, LatchedMeansOff, LedTellsPump

\* Every step keeps it.
LEMMA StepInv == PumpInv /\ [PumpNext]_pumpVars => PumpInv'
<1>1. SUFFICES ASSUME PumpInv, [PumpNext]_pumpVars PROVE PumpInv'
  OBVIOUS
<1>2. CASE Update
  BY <1>1, <1>2, UpdateInv
<1>3. CASE Command
  BY <1>1, <1>3, CommandInv
<1>4. CASE Measure \/ ChangeLoad
  BY <1>1, <1>4, PlantInv
<1>5. CASE Tick
  BY <1>1, <1>5, TickInv
<1>6. CASE UNCHANGED pumpVars
  BY <1>1, <1>6
     DEF pumpVars, PumpInv, PumpTypeOK, LatchedMeansOff, LedTellsPump, TimersBacked, Currents
<1>7. QED
  BY <1>1, <1>2, <1>3, <1>4, <1>5, <1>6 DEF PumpNext

-----------------------------------------------------------------------------
(***************************************************************************)
(* The theorems.                                                           *)
(***************************************************************************)

\* The invariant holds in every reachable state.
THEOREM ProtectionInvariant == PumpSafety => []PumpInv
<1>1. PumpInit => PumpInv
  BY InitInv
<1>2. PumpInv /\ [PumpNext]_pumpVars => PumpInv'
  BY StepInv
<1>3. QED
  BY <1>1, <1>2, PTL DEF PumpSafety

\* Type correctness of the pump controller, its sensor and its LED.
THEOREM PumpTypeCorrect == PumpSafety => []PumpTypeOK
<1>1. PumpInv => PumpTypeOK
  BY DEF PumpInv
<1>2. QED
  BY <1>1, ProtectionInvariant, PTL

\* A latched fault always has the relay commanded off (PumpController.cpp:47
\* and 110-117), for every order of updates and commands.
THEOREM LatchIsSafe == PumpSafety => []LatchedMeansOff
<1>1. PumpInv => LatchedMeansOff
  BY DEF PumpInv
<1>2. QED
  BY <1>1, ProtectionInvariant, PTL

\* The LED, set by events at five places, tells the present state, or what the
\* button's long press left on it.
THEOREM LedIsCurrent == PumpSafety => []LedTellsPump
<1>1. PumpInv => LedTellsPump
  BY DEF PumpInv
<1>2. QED
  BY <1>1, ProtectionInvariant, PTL

\* No protection timer is ahead of the evidence for its fault, but those switch mode
\* left running and the one of the fault the pump is in.
THEOREM TimersAreBacked == PumpSafety => []TimersBacked
<1>1. PumpInv => TimersBacked
  BY DEF PumpInv
<1>2. QED
  BY <1>1, ProtectionInvariant, PTL

\* An update that latches a fault has its evidence.
LEMMA TripEarned ==
  ASSUME BackedInv, Update, ~latched, latched'
  PROVE  streak[state'] >= Timeout(state') \/ state' \in stale
<1> DEFINE band == Band(sample, cfg)
           next == NextState(band)
<1>2. PumpTypeOK
  BY DEF BackedInv
<1>3. state' = next /\ next # state /\ next \in Faults
  BY DEF Update
<1>4. band \in Bands
  BY BandTyped
<1> HIDE DEF band
<1>5. timer[next] # Stopped /\ timer[next] >= Timeout(next)
  BY <1>2, <1>3, <1>4, VerdictJustified
<1> HIDE DEF next
<1>6. timer[next] \in 0..Horizon /\ streak[next] \in 0..Horizon /\ Timeout(next) \in 0..Horizon
  BY <1>2, <1>3, <1>5, TimeoutTyped DEF PumpTypeOK
<1>7. Backed(next, Timeout(next) = 0)
  BY <1>3 DEF BackedInv
<1>8. next \in stale \/ Timeout(next) = 0 \/ streak[next] >= timer[next]
  BY <1>3, <1>5, <1>7 DEF Backed
<1>9. QED
  BY <1>3, <1>5, <1>6, <1>8

\* A step that latches a fault is an update whose fault has been suspected without a
\* break for the whole configured timeout, or whose stamp switch mode left running.
THEOREM TripsEarned == PumpSafety => TripsAreEarned
<1>1. ASSUME PumpInv, [PumpNext]_pumpVars, ~latched /\ latched'
      PROVE  streak[state'] >= Timeout(state') \/ state' \in stale
  <2>1. Update
    BY <1>1 DEF PumpNext, Command, PumpOn, PumpOff, PumpToggle, SwitchRelay, ClearPumpFault,
                SetConfig, LongPress, Measure, ChangeLoad, Tick, pumpVars, plantVars
  <2>2. QED
    BY <1>1, <2>1, TripEarned, InvIsBacked
<1>2. QED
  BY <1>1, ProtectionInvariant, PTL DEF PumpSafety, TripsAreEarned

-----------------------------------------------------------------------------
(***************************************************************************)
(* PumpTasks: the types, and what a statement may change.                  *)
(***************************************************************************)

\* The statements a call may stand before.
Labels ==
  {"idle", "toggle", "on", "off", "on?", "off?", "off again?", "stamp", "event",
   "clear", "timers", "fault?", "state"}
  \cup RelayStatements \cup Faults \cup {"HIGH_CURRENT", "ON", "OFF"}

TasksTypeOK ==
  /\ pc \in [SerialCallers \cup PreemptedCallers -> Labels]
  /\ preempt \in BOOLEAN /\ overtaken \in BOOLEAN /\ outrun \in BOOLEAN

\* Between the statements of clearPumpFault() that stop the stamps and take the state
\* away no time passes: a stamp is fresh, and only a fault that trips at once is latched.
Fresh(f) ==
  /\ timer[f] \in {Stopped, 0}
  /\ latched /\ timer[f] # Stopped /\ f \notin stale => Timeout(f) = 0
ClearingInv ==
  "net" \in Callers /\ pc["net"] \in {"fault?", "state"} => \A f \in Faults : Fresh(f)

TasksBacked == BackedInv /\ ClearingInv /\ TasksTypeOK

\* The tasks that call are known to pc, and there are two at most.
LEMMA CallersTyped ==
  Callers \subseteq SerialCallers \cup PreemptedCallers /\ Callers \subseteq {"net", "button"}
BY TasksAssumption DEF Callers

\* One statement of a call: where it stands, where it goes, and what is kept.
LEMMA GoTyped ==
  ASSUME TasksTypeOK, NEW t, NEW l, NEW m \in Labels, Go(t, l, m), outrun' \in BOOLEAN
  PROVE  /\ t \in Callers /\ CanRun(t)
         /\ pc[t] = l /\ pc'[t] = m /\ \A u \in Callers \ {t} : pc'[u] = pc[u]
         /\ Callers' = Callers
         /\ TasksTypeOK'
<1>1. /\ t \in Callers /\ CanRun(t) /\ pc[t] = l /\ pc' = [pc EXCEPT ![t] = m]
      /\ UNCHANGED <<preempt, overtaken>>
  BY DEF Go
<1>2. \A u \in Callers : u \in DOMAIN pc
  BY CallersTyped DEF TasksTypeOK
<1>3. Callers' = Callers
  BY <1>1 DEF Callers
<1>4. pc' \in [SerialCallers \cup PreemptedCallers -> Labels]
  BY <1>1 DEF TasksTypeOK
<1>5. QED
  BY <1>1, <1>2, <1>3, <1>4 DEF TasksTypeOK

\* The driver's fields are written one at a time.
LEMMA FieldsTyped ==
  ASSUME NEW r \in Drivers
  PROVE  /\ \A b \in BOOLEAN : /\ [r EXCEPT !.on = b] \in Drivers
                               /\ [r EXCEPT !.contact = b] \in Drivers
                               /\ [r EXCEPT !.gate = b] \in Drivers
         /\ \A n \in 0..4 : [r EXCEPT !.step = n] \in Drivers
         /\ [r EXCEPT !.age = 0] \in Drivers
BY DriverFields DEF Drivers

\* The LED shows one of these, and the last statement of a call is named for it.
ShownLabels == Faults \cup {"HIGH_CURRENT", "ON", "OFF"}

\* Where a call of turnOn(), turnOff() or toggle() may go from statement l.
Follows(l, m) ==
  /\ l = "toggle"    => m = IF rly.on THEN "off" ELSE "on"
  /\ l = "on"        => m = "on?"
  /\ l = "off"       => m = "off?"
  /\ l = "on?"       => m = IF rly.on THEN "event" ELSE "on!"
  /\ l = "on!"       => m = "on step?"
  /\ l = "on step?"  => m = IF rly.step = 3 THEN "step 2" ELSE IF rly.step = 4 THEN "close" ELSE "step 1"
  /\ l = "close"     => m = "step 2"
  /\ l = "step 2"    => m = "stamp"
  /\ l = "step 1"    => m = "stamp and fire"
  /\ l = "off?"      => m = IF rly.on THEN "off!" ELSE IF rly.step = 0 THEN "event" ELSE "off again?"
  /\ l = "off again?" => m = IF rly.step >= 3 THEN "event" ELSE "off!"
  /\ l = "off!"      => m = "off step?"
  /\ l = "off step?" => m = IF rly.step = 1 THEN "cancel" ELSE IF rly.step = 2 THEN "take off" ELSE "step 3"
  /\ l = "cancel"    => m = "step 0"
  /\ l = "step 0"    => m = "event"
  /\ l = "take off"  => m = "stamp"
  /\ l = "step 3"    => m = "stamp and fire"
  /\ l = "stamp"     => m = "event"
  /\ l = "stamp and fire" => m = "fire"
  /\ l = "fire"      => m = "event"
  /\ l = "event"     => m = Show(state, rly.on)
  /\ l \in ShownLabels => m = "idle"

WritingLabels ==
  {"on!", "off!", "close", "step 0", "step 1", "step 2", "step 3", "take off", "cancel",
   "fire", "stamp", "stamp and fire"}

\* What statement l makes of driver r.
Writes(l, r, w) ==
  /\ l = "on!"      => w = [r EXCEPT !.on = TRUE]
  /\ l = "off!"     => w = [r EXCEPT !.on = FALSE]
  /\ l = "close"    => w = [r EXCEPT !.contact = TRUE]
  /\ l = "step 0"   => w = [r EXCEPT !.step = 0]
  /\ l = "step 1"   => w = [r EXCEPT !.step = 1]
  /\ l = "step 2"   => w = [r EXCEPT !.step = 2]
  /\ l \in {"step 3", "take off"} => w = [r EXCEPT !.step = 3]
  /\ l = "cancel"   => w = [r EXCEPT !.gate = FALSE]
  /\ l = "fire"     => w = [r EXCEPT !.gate = TRUE]
  /\ l \in {"stamp", "stamp and fire"} => w = [r EXCEPT !.age = 0]
  /\ l \notin WritingLabels => w = r

\* The statements of turnOn(), turnOff() and toggle().
SwitchLabels ==
  {"toggle", "on", "off", "on?", "off?", "off again?", "stamp", "event"}
  \cup RelayStatements \cup ShownLabels

LEMMA WrittenTyped ==
  ASSUME NEW r \in Drivers, NEW l, NEW w, Writes(l, r, w)
  PROVE  w \in Drivers
<1>1. /\ [r EXCEPT !.on = TRUE] \in Drivers /\ [r EXCEPT !.on = FALSE] \in Drivers
      /\ [r EXCEPT !.contact = TRUE] \in Drivers
      /\ [r EXCEPT !.gate = TRUE] \in Drivers /\ [r EXCEPT !.gate = FALSE] \in Drivers
      /\ [r EXCEPT !.age = 0] \in Drivers
  BY FieldsTyped
<1>2. /\ [r EXCEPT !.step = 0] \in Drivers /\ [r EXCEPT !.step = 1] \in Drivers
      /\ [r EXCEPT !.step = 2] \in Drivers /\ [r EXCEPT !.step = 3] \in Drivers
  <2>1. 0 \in 0..4 /\ 1 \in 0..4 /\ 2 \in 0..4 /\ 3 \in 0..4
    OBVIOUS
  <2>2. QED
    BY <2>1, FieldsTyped
<1>3. CASE l \in {"on!", "off!", "close", "cancel", "fire", "stamp", "stamp and fire"}
  BY <1>1, <1>3 DEF Writes
<1>4. CASE l \in {"step 0", "step 1", "step 2", "step 3", "take off"}
  BY <1>2, <1>4 DEF Writes
<1>5. CASE l \notin WritingLabels
  BY <1>5 DEF Writes
<1>6. QED
  BY <1>3, <1>4, <1>5 DEF WritingLabels

\* A statement as one relation of where it stands and what it finds.
Effect(t, l, m) ==
  /\ Go(t, l, m) /\ l \in SwitchLabels /\ Follows(l, m)
  /\ Writes(l, rly, rly') /\ Watch
  /\ latched' = IF l \in {"on", "off"} THEN FALSE ELSE latched
  /\ led' = IF l \in ShownLabels THEN l ELSE led
  /\ UNCHANGED <<cfg, state, timer, plantVars, watched>>

\* A label stands for one of the statements above only.
LEMMA ReadEffect ==
  ASSUME TasksBacked, NEW t, NEW l, NEW m, Go(t, l, m), Reads, Follows(l, m),
         l \in {"toggle", "on?", "on step?", "off?", "off again?", "off step?", "event"}
  PROVE  Effect(t, l, m)
<1>1. mixed \in BOOLEAN
  BY DEF TasksBacked, BackedInv, PumpTypeOK
<1>2. Watch /\ UNCHANGED <<rly, latched, led, cfg, state, timer, plantVars, watched>>
  BY <1>1 DEF Watch, Reads, pumpVars, plantVars, watched
<1>3. l \in SwitchLabels /\ l \notin WritingLabels /\ l \notin {"on", "off"} \cup ShownLabels
  BY DEF SwitchLabels, WritingLabels, ShownLabels, RelayStatements, Faults
<1>4. Writes(l, rly, rly')
  BY <1>2, <1>3 DEF Writes, WritingLabels
<1>5. QED
  BY <1>2, <1>3, <1>4 DEF Effect

LEMMA WriteEffect ==
  ASSUME NEW t, NEW l, NEW m, Go(t, l, m), NEW w, Relay(w), Writes(l, rly, w), Follows(l, m),
         l \in WritingLabels
  PROVE  Effect(t, l, m)
<1>1. rly' = w /\ Watch /\ UNCHANGED <<cfg, state, latched, timer, led, plantVars, watched>>
  BY DEF Relay
<1>2. l \in SwitchLabels /\ l \notin {"on", "off"} \cup ShownLabels
  BY DEF SwitchLabels, WritingLabels, ShownLabels, RelayStatements, Faults
<1>3. QED
  BY <1>1, <1>2 DEF Effect

LEMMA StatementIs ==
  ASSUME TasksBacked, NEW t \in Callers, Statement(t)
  PROVE  (\E m \in Labels : Effect(t, pc[t], m)) /\ Outrun(Callers \ {t})
<1> DEFINE Goal == \E m \in Labels : Effect(t, pc[t], m)
<1>1. Outrun(Callers \ {t})
  BY DEF Statement
<1>2. ASSUME NEW l, NEW m, Effect(t, l, m), m \in Labels PROVE Goal
  BY <1>2 DEF Effect, Go, Goal
<1>3. /\ state \in States /\ rly.on \in BOOLEAN /\ mixed \in BOOLEAN
      /\ Show(state, rly.on) \in Labels /\ rly.step \in Nat
  <2>1. state \in States /\ rly.on \in BOOLEAN /\ mixed \in BOOLEAN
    BY OnIsBoolean DEF TasksBacked, BackedInv, PumpTypeOK
  <2>2. rly.step \in Nat
    BY DriverFields DEF TasksBacked, BackedInv, PumpTypeOK
  <2>3. QED
    BY <2>1, <2>2, ShowTyped DEF Labels
<1> SUFFICES Goal
  BY <1>1
<1> HIDE DEF Goal
<1>4. CASE Decide(t)
  <2> DEFINE m == IF rly.on THEN "off" ELSE "on"
  <2>1. Go(t, "toggle", m) /\ Reads
    BY <1>4 DEF Decide
  <2>2. Follows("toggle", m)
    BY DEF Follows, ShownLabels, Faults
  <2>3. m \in Labels
    BY <1>3 DEF Labels, RelayStatements
  <2> HIDE DEF m
  <2>4. QED
    BY <1>2, <2>1, <2>2, <2>3, ReadEffect
<1>5. CASE OnTest(t)
  <2> DEFINE m == IF rly.on THEN "event" ELSE "on!"
  <2>1. Go(t, "on?", m) /\ Reads
    BY <1>5 DEF OnTest
  <2>2. Follows("on?", m)
    BY DEF Follows, ShownLabels, Faults
  <2>3. m \in Labels
    BY <1>3 DEF Labels, RelayStatements
  <2> HIDE DEF m
  <2>4. QED
    BY <1>2, <2>1, <2>2, <2>3, ReadEffect
<1>6. CASE OnBranch(t)
  <2> DEFINE m == CASE rly.step = 3 -> "step 2" [] rly.step = 4 -> "close" [] OTHER -> "step 1"
  <2>1. Go(t, "on step?", m) /\ Reads
    BY <1>6 DEF OnBranch
  <2>2. Follows("on step?", m)
    <3>1. CASE rly.step = 3
      BY <3>1 DEF Follows, ShownLabels, Faults
    <3>2. CASE rly.step = 4
      BY <3>2 DEF Follows, ShownLabels, Faults
    <3>3. CASE rly.step # 3 /\ rly.step # 4
      BY <3>3 DEF Follows, ShownLabels, Faults
    <3>4. QED
      BY <3>1, <3>2, <3>3
  <2>3. m \in Labels
    BY <1>3 DEF Labels, RelayStatements
  <2> HIDE DEF m
  <2>4. QED
    BY <1>2, <2>1, <2>2, <2>3, ReadEffect
<1>7. CASE OffTest(t)
  <2> DEFINE m == CASE rly.on -> "off!" [] ~rly.on /\ rly.step = 0 -> "event" [] OTHER -> "off again?"
  <2>1. Go(t, "off?", m) /\ Reads
    BY <1>7 DEF OffTest
  <2>2. Follows("off?", m)
    BY DEF Follows, ShownLabels, Faults
  <2>3. m \in Labels
    BY <1>3 DEF Labels, RelayStatements
  <2> HIDE DEF m
  <2>4. QED
    BY <1>2, <2>1, <2>2, <2>3, ReadEffect
<1>8. CASE OffAgain(t)
  <2> DEFINE m == IF rly.step >= 3 THEN "event" ELSE "off!"
  <2>1. Go(t, "off again?", m) /\ Reads
    BY <1>8 DEF OffAgain
  <2>2. Follows("off again?", m)
    BY DEF Follows, ShownLabels, Faults
  <2>3. m \in Labels
    BY <1>3 DEF Labels, RelayStatements
  <2> HIDE DEF m
  <2>4. QED
    BY <1>2, <2>1, <2>2, <2>3, ReadEffect
<1>9. CASE OffBranch(t)
  <2> DEFINE m == CASE rly.step = 1 -> "cancel" [] rly.step = 2 -> "take off" [] OTHER -> "step 3"
  <2>1. Go(t, "off step?", m) /\ Reads
    BY <1>9 DEF OffBranch
  <2>2. Follows("off step?", m)
    <3>1. CASE rly.step = 1
      BY <3>1 DEF Follows, ShownLabels, Faults
    <3>2. CASE rly.step = 2
      BY <3>2 DEF Follows, ShownLabels, Faults
    <3>3. CASE rly.step # 1 /\ rly.step # 2
      BY <3>3 DEF Follows, ShownLabels, Faults
    <3>4. QED
      BY <3>1, <3>2, <3>3
  <2>3. m \in Labels
    BY <1>3 DEF Labels, RelayStatements
  <2> HIDE DEF m
  <2>4. QED
    BY <1>2, <2>1, <2>2, <2>3, ReadEffect
<1>10. CASE ReadEvent(t)
  <2> DEFINE m == Show(state, rly.on)
  <2>1. Go(t, "event", m) /\ Reads
    BY <1>10 DEF ReadEvent
  <2>2. Follows("event", m)
    BY DEF Follows, ShownLabels, Faults
  <2>3. m \in Labels
    BY <1>3 DEF Labels, RelayStatements
  <2> HIDE DEF m
  <2>4. QED
    BY <1>2, <2>1, <2>2, <2>3, ReadEffect
<1>11. CASE OnMark(t)
  <2>1. Go(t, "on!", "on step?") /\ Relay([rly EXCEPT !.on = TRUE])
    BY <1>11 DEF OnMark
  <2>2. Follows("on!", "on step?") /\ Writes("on!", rly, [rly EXCEPT !.on = TRUE])
    BY DEF Follows, Writes, WritingLabels, ShownLabels, Faults
  <2>3. QED
    BY <1>2, <2>1, <2>2, WriteEffect DEF Labels, WritingLabels, RelayStatements
<1>12. CASE Close(t)
  <2>1. Go(t, "close", "step 2") /\ Relay([rly EXCEPT !.contact = TRUE])
    BY <1>12 DEF Close
  <2>2. Follows("close", "step 2") /\ Writes("close", rly, [rly EXCEPT !.contact = TRUE])
    BY DEF Follows, Writes, WritingLabels, ShownLabels, Faults
  <2>3. QED
    BY <1>2, <2>1, <2>2, WriteEffect DEF Labels, WritingLabels, RelayStatements
<1>13. CASE TakeOn(t)
  <2>1. Go(t, "step 2", "stamp") /\ Relay([rly EXCEPT !.step = 2])
    BY <1>13 DEF TakeOn
  <2>2. Follows("step 2", "stamp") /\ Writes("step 2", rly, [rly EXCEPT !.step = 2])
    BY DEF Follows, Writes, WritingLabels, ShownLabels, Faults
  <2>3. QED
    BY <1>2, <2>1, <2>2, WriteEffect DEF Labels, WritingLabels, RelayStatements
<1>14. CASE FreshOn(t)
  <2>1. Go(t, "step 1", "stamp and fire") /\ Relay([rly EXCEPT !.step = 1])
    BY <1>14 DEF FreshOn
  <2>2. Follows("step 1", "stamp and fire") /\ Writes("step 1", rly, [rly EXCEPT !.step = 1])
    BY DEF Follows, Writes, WritingLabels, ShownLabels, Faults
  <2>3. QED
    BY <1>2, <2>1, <2>2, WriteEffect DEF Labels, WritingLabels, RelayStatements
<1>15. CASE OffMark(t)
  <2>1. Go(t, "off!", "off step?") /\ Relay([rly EXCEPT !.on = FALSE])
    BY <1>15 DEF OffMark
  <2>2. Follows("off!", "off step?") /\ Writes("off!", rly, [rly EXCEPT !.on = FALSE])
    BY DEF Follows, Writes, WritingLabels, ShownLabels, Faults
  <2>3. QED
    BY <1>2, <2>1, <2>2, WriteEffect DEF Labels, WritingLabels, RelayStatements
<1>16. CASE Cancel(t)
  <2>1. Go(t, "cancel", "step 0") /\ Relay([rly EXCEPT !.gate = FALSE])
    BY <1>16 DEF Cancel
  <2>2. Follows("cancel", "step 0") /\ Writes("cancel", rly, [rly EXCEPT !.gate = FALSE])
    BY DEF Follows, Writes, WritingLabels, ShownLabels, Faults
  <2>3. QED
    BY <1>2, <2>1, <2>2, WriteEffect DEF Labels, WritingLabels, RelayStatements
<1>17. CASE Rest(t)
  <2>1. Go(t, "step 0", "event") /\ Relay([rly EXCEPT !.step = 0])
    BY <1>17 DEF Rest
  <2>2. Follows("step 0", "event") /\ Writes("step 0", rly, [rly EXCEPT !.step = 0])
    BY DEF Follows, Writes, WritingLabels, ShownLabels, Faults
  <2>3. QED
    BY <1>2, <2>1, <2>2, WriteEffect DEF Labels, WritingLabels, RelayStatements
<1>18. CASE TakeOff(t)
  <2>1. Go(t, "take off", "stamp") /\ Relay([rly EXCEPT !.step = 3])
    BY <1>18 DEF TakeOff
  <2>2. Follows("take off", "stamp") /\ Writes("take off", rly, [rly EXCEPT !.step = 3])
    BY DEF Follows, Writes, WritingLabels, ShownLabels, Faults
  <2>3. QED
    BY <1>2, <2>1, <2>2, WriteEffect DEF Labels, WritingLabels, RelayStatements
<1>19. CASE FreshOff(t)
  <2>1. Go(t, "step 3", "stamp and fire") /\ Relay([rly EXCEPT !.step = 3])
    BY <1>19 DEF FreshOff
  <2>2. Follows("step 3", "stamp and fire") /\ Writes("step 3", rly, [rly EXCEPT !.step = 3])
    BY DEF Follows, Writes, WritingLabels, ShownLabels, Faults
  <2>3. QED
    BY <1>2, <2>1, <2>2, WriteEffect DEF Labels, WritingLabels, RelayStatements
<1>20. CASE FireTriac(t)
  <2>1. Go(t, "fire", "event") /\ Relay([rly EXCEPT !.gate = TRUE])
    BY <1>20 DEF FireTriac
  <2>2. Follows("fire", "event") /\ Writes("fire", rly, [rly EXCEPT !.gate = TRUE])
    BY DEF Follows, Writes, WritingLabels, ShownLabels, Faults
  <2>3. QED
    BY <1>2, <2>1, <2>2, WriteEffect DEF Labels, WritingLabels, RelayStatements
<1>21. CASE Stamp(t)
  <2>1. PICK l \in {"stamp", "stamp and fire"} :
          /\ Go(t, l, IF l = "stamp" THEN "event" ELSE "fire")
          /\ Relay([rly EXCEPT !.age = 0])
    BY <1>21 DEF Stamp
  <2> DEFINE m == IF l = "stamp" THEN "event" ELSE "fire"
  <2>2. Follows(l, m) /\ Writes(l, rly, [rly EXCEPT !.age = 0])
    BY DEF Follows, Writes, WritingLabels, ShownLabels, Faults
  <2>3. m \in Labels /\ l \in WritingLabels
    BY DEF Labels, RelayStatements, WritingLabels
  <2> HIDE DEF m
  <2>4. Go(t, l, m)
    BY <2>1 DEF m
  <2>5. QED
    BY <1>2, <2>1, <2>2, <2>3, <2>4, WriteEffect
<1>22. CASE Unlatch(t)
  <2>1. PICK l \in {"on", "off"} : Go(t, l, IF l = "on" THEN "on?" ELSE "off?")
    BY <1>22 DEF Unlatch
  <2> DEFINE m == IF l = "on" THEN "on?" ELSE "off?"
  <2>2. Follows(l, m) /\ l \in SwitchLabels /\ l \notin ShownLabels
    BY DEF Follows, SwitchLabels, ShownLabels, Faults
  <2>3. Writes(l, rly, rly) /\ m \in Labels
    BY DEF Writes, WritingLabels, Labels
  <2> HIDE DEF m
  <2>4. Go(t, l, m) /\ latched' = FALSE /\ Watch
        /\ UNCHANGED <<rly, cfg, state, timer, led, plantVars, watched>>
    BY <1>3, <1>22, <2>1 DEF m, Unlatch, Watch
  <2>5. QED
    BY <1>2, <2>2, <2>3, <2>4 DEF Effect
<1>23. CASE SetLed(t)
  <2>1. PICK l \in ShownLabels :
          /\ Go(t, l, "idle") /\ led' = l
          /\ UNCHANGED <<rly, cfg, state, latched, timer, plantVars, mixed, watched>>
    BY <1>23 DEF SetLed, ShownLabels
  <2>2. Follows(l, "idle") /\ l \in SwitchLabels /\ l \notin {"on", "off"}
    BY DEF Follows, SwitchLabels, ShownLabels, Faults
  <2>3. Writes(l, rly, rly)
    BY DEF Writes, WritingLabels, ShownLabels, Faults
  <2>4. Watch /\ "idle" \in Labels
    BY <1>3, <2>1 DEF Watch, Labels
  <2>5. QED
    BY <1>2, <2>1, <2>2, <2>3, <2>4 DEF Effect
<1>24. QED
  BY <1>4, <1>5, <1>6, <1>7, <1>8, <1>9, <1>10, <1>11, <1>12, <1>13, <1>14, <1>15, <1>16, <1>17, <1>18, <1>19, <1>20, <1>21, <1>22, <1>23 DEF Statement

\* A statement of turnOn(), turnOff() or toggle() keeps the types and the timers.
LEMMA EffectBacked ==
  ASSUME TasksBacked, NEW t, NEW l, NEW m \in Labels, Effect(t, l, m), outrun' \in BOOLEAN
  PROVE  TasksBacked'
<1>1. rly' \in Drivers
  BY WrittenTyped DEF Effect, TasksBacked, BackedInv, PumpTypeOK
<1>2. mixed' \in BOOLEAN /\ latched' \in BOOLEAN
  BY DEF Effect, Watch, TasksBacked, BackedInv, PumpTypeOK
<1>3. led' \in Lights
  BY DEF Effect, ShownLabels, Lights, TasksBacked, BackedInv, PumpTypeOK
<1>4. /\ UNCHANGED <<cfg, state, timer, load, sample, streak, stale>>
      /\ latched' \in {FALSE, latched}
  BY DEF Effect, plantVars, watched
<1>5. BackedInv'
  <2>1. PumpTypeOK'
    BY <1>1, <1>2, <1>3, <1>4 DEF TasksBacked, BackedInv, PumpTypeOK, Currents
  <2>2. \A f \in Faults : Backed(f, Timeout(f) = 0)'
    BY <1>4 DEF TasksBacked, BackedInv, Backed, Timeout
  <2>3. QED
    BY <2>1, <2>2 DEF BackedInv
<1>6. TasksTypeOK'
  BY GoTyped DEF Effect, TasksBacked
<1>7. ClearingInv'
  <2>1. /\ pc'[t] = m /\ \A u \in Callers \ {t} : pc'[u] = pc[u]
        /\ Callers' = Callers /\ Follows(l, m) /\ l \in SwitchLabels
    BY GoTyped DEF Effect, TasksBacked
  <2>2. m \notin {"fault?", "state"}
    <3>1. state \in States /\ rly.on \in BOOLEAN
      BY OnIsBoolean DEF TasksBacked, BackedInv, PumpTypeOK
    <3>2. Show(state, rly.on) \in Faults \cup {"HIGH_CURRENT", "ON", "OFF"}
      BY <3>1, ShowTyped
    <3>3. Show(state, rly.on) \notin {"fault?", "state"}
      BY <3>2 DEF Faults
    <3>4. QED
      BY <2>1, <3>3 DEF Follows, SwitchLabels, RelayStatements, ShownLabels
  <2>3. \A f \in Faults : Fresh(f) => Fresh(f)'
    BY <1>4 DEF Fresh, Timeout
  <2>4. QED
    BY <2>1, <2>2, <2>3 DEF ClearingInv, TasksBacked
<1>8. QED
  BY <1>5, <1>6, <1>7 DEF TasksBacked

\* A statement of clearPumpFault(), likewise.
ClearEffect(l, m) ==
  /\ Go("net", l, m) /\ UNCHANGED <<rly, cfg, led, load, sample, mixed, outrun>>
  /\ \/ l = "clear" /\ m = "timers" /\ latched' = FALSE /\ UNCHANGED <<state, timer, streak, stale>>
     \/ /\ l = "timers" /\ m = "fault?" /\ UNCHANGED <<state, latched>>
        /\ timer' = NoTimers /\ streak' = [f \in Faults |-> 0] /\ stale' = {}
     \/ /\ l = "fault?" /\ m = (IF state \in Faults THEN "state" ELSE "idle")
        /\ UNCHANGED <<state, latched, timer, streak, stale>>
     \/ l = "state" /\ m = "event" /\ state' = "OFF" /\ UNCHANGED <<latched, timer, streak, stale>>

LEMMA ClearingIs ==
  ASSUME Clearing
  PROVE  \E l, m \in Labels : ClearEffect(l, m)
<1>1. "clear" \in Labels /\ "timers" \in Labels /\ "fault?" \in Labels /\ "state" \in Labels
      /\ "event" \in Labels /\ "idle" \in Labels
  BY DEF Labels
<1>2. CASE ClearLatch
  BY <1>1, <1>2 DEF Clearing, ClearLatch, ClearEffect, plantVars, watched
<1>3. CASE ClearTimers
  BY <1>1, <1>3 DEF Clearing, ClearTimers, ClearEffect, plantVars, watched
<1>4. CASE ClearTest
  <2>1. Go("net", "fault?", IF state \in Faults THEN "state" ELSE "idle")
    BY <1>4 DEF ClearTest
  <2>2. UNCHANGED <<rly, cfg, led, load, sample, mixed, outrun, state, latched, timer, streak, stale>>
    BY <1>4 DEF Clearing, ClearTest, Reads, pumpVars
  <2>3. QED
    BY <1>1, <2>1, <2>2 DEF ClearEffect
<1>5. CASE ClearState
  BY <1>1, <1>5 DEF Clearing, ClearState, ClearEffect, plantVars, watched
<1>6. QED
  BY <1>2, <1>3, <1>4, <1>5 DEF Clearing

LEMMA ClearingBacked ==
  ASSUME TasksBacked, NEW l, NEW m \in Labels, ClearEffect(l, m)
  PROVE  TasksBacked'
<1>1. UNCHANGED <<rly, cfg, led, load, sample, mixed>>
  BY DEF ClearEffect
<1>2. state' \in States /\ latched' \in BOOLEAN
  BY DEF ClearEffect, TasksBacked, BackedInv, PumpTypeOK, States
<1>3. /\ timer' \in [Faults -> {Stopped} \cup 0..Horizon] /\ streak' \in [Faults -> 0..Horizon]
      /\ stale' \subseteq Faults
  <2>1. CASE UNCHANGED <<timer, streak, stale>>
    BY <2>1 DEF TasksBacked, BackedInv, PumpTypeOK
  <2>2. CASE timer' = NoTimers /\ streak' = [f \in Faults |-> 0] /\ stale' = {}
    BY <2>2 DEF NoTimers
  <2>3. QED
    BY <2>1, <2>2 DEF ClearEffect
<1>4. PumpTypeOK'
  BY <1>1, <1>2, <1>3 DEF TasksBacked, BackedInv, PumpTypeOK, Currents
<1>5. outrun' \in BOOLEAN
  BY DEF ClearEffect, TasksBacked, TasksTypeOK
<1>6. TasksTypeOK'
  BY <1>5, GoTyped DEF ClearEffect, TasksBacked
<1>7. /\ "net" \in Callers /\ pc["net"] = l /\ pc'["net"] = m /\ Callers' = Callers
      /\ \A f : Timeout(f)' = Timeout(f)
  BY <1>1, <1>5, GoTyped DEF ClearEffect, TasksBacked, Timeout
<1>8. ASSUME NEW f \in Faults
      PROVE  Backed(f, Timeout(f) = 0)' /\ (m \in {"fault?", "state"} => Fresh(f)')
  <2>1. Backed(f, Timeout(f) = 0) /\ (l \in {"fault?", "state"} => Fresh(f))
    BY <1>7 DEF TasksBacked, BackedInv, ClearingInv
  <2>2. streak[f] \in 0..Horizon
    BY DEF TasksBacked, BackedInv, PumpTypeOK
  <2>3. CASE l = "clear"
    BY <1>7, <2>1, <2>3 DEF ClearEffect, Backed
  <2>4. CASE l = "timers"
    <3>1. timer'[f] = Stopped
      BY <2>4 DEF ClearEffect, NoTimers
    <3>2. QED
      BY <3>1 DEF Backed, Fresh
  <2>5. CASE l = "fault?"
    BY <1>7, <2>1, <2>5 DEF ClearEffect, Backed, Fresh
  <2>6. CASE l = "state"
    <3>1. UNCHANGED <<timer, streak, stale, latched>> /\ m = "event"
      BY <2>6 DEF ClearEffect
    <3>2. QED
      BY <1>7, <2>1, <2>2, <2>6, <3>1 DEF Backed, Fresh
  <2>7. QED
    BY <2>3, <2>4, <2>5, <2>6 DEF ClearEffect
<1>9. QED
  BY <1>4, <1>6, <1>7, <1>8 DEF TasksBacked, BackedInv, ClearingInv

\* A call begins before its first statement.
FirstLabels == {"on", "off", "clear", "toggle"}

LEMMA BeginIs ==
  ASSUME TasksBacked, Receive \/ Click
  PROVE  \E t \in Callers, call \in FirstLabels :
           /\ Begin(t, call) /\ Callers' = Callers
           /\ pc[t] = "idle" /\ pc'[t] = call /\ \A u \in Callers \ {t} : pc'[u] = pc[u]
           /\ call = "clear" => t = "net"
           /\ TasksBacked'
<1>1. PICK t \in {"net", "button"}, call \in FirstLabels : Begin(t, call) /\ (call = "clear" => t = "net")
  BY DEF Receive, Click, FirstLabels
<1>2. /\ t \in Callers /\ pc[t] = "idle" /\ pc' = [pc EXCEPT ![t] = call]
      /\ overtaken' = FALSE /\ UNCHANGED <<pumpVars, preempt, outrun>>
  BY <1>1 DEF Begin
<1>3. \A u \in Callers : u \in DOMAIN pc
  BY CallersTyped DEF TasksBacked, TasksTypeOK
<1>4. pc' \in [SerialCallers \cup PreemptedCallers -> Labels]
  BY <1>2 DEF TasksBacked, TasksTypeOK, Labels, FirstLabels
<1>5. TasksTypeOK' /\ Callers' = Callers
  BY <1>2, <1>4 DEF TasksBacked, TasksTypeOK, Callers
<1>6. BackedInv'
  BY <1>2 DEF TasksBacked, BackedInv, PumpTypeOK, Backed, Timeout, Currents, pumpVars
<1>7. ClearingInv'
  <2>1. \A f \in Faults : Fresh(f) => Fresh(f)'
    BY <1>2 DEF Fresh, Timeout, pumpVars
  <2>2. "net" \in Callers /\ pc'["net"] \in {"fault?", "state"} => pc["net"] \in {"fault?", "state"}
    BY <1>2, <1>3 DEF FirstLabels
  <2>3. QED
    BY <1>5, <2>1, <2>2 DEF ClearingInv, TasksBacked
<1>8. QED
  BY <1>1, <1>2, <1>3, <1>5, <1>6, <1>7 DEF TasksBacked

\* Between the statements update() comes, and between calls time passes.
LEMMA UpdateFresh ==
  ASSUME PumpTypeOK, Update, \A f \in Faults : Fresh(f)
  PROVE  \A f \in Faults : Fresh(f)'
<1> DEFINE band == Band(sample, cfg)
           next == NextState(band)
           trip == ~latched /\ next # state /\ next \in Faults
<1>1. band \in Bands
  BY BandTyped
<1>2. /\ latched' = (latched \/ trip) /\ cfg' = cfg
      /\ timer' = IF latched THEN timer ELSE NextTimers(band)
      /\ stale' = {g \in Faults : timer'[g] # Stopped /\ (g \in stale \/ (~latched /\ ~Judged(g)))}
  BY DEF Update, Observed
<1>3. trip => next \in Suspects(band) /\ timer[next] # Stopped /\ timer[next] >= Timeout(next)
  BY <1>1, VerdictJustified
<1>4. \A g, h \in Suspects(band) : g = h
  BY <1>1, SuspectsTyped
<1>5. trip => next \in Faults
  OBVIOUS
<1> HIDE DEF band, next
<1>6. SUFFICES ASSUME NEW f \in Faults PROVE Fresh(f)'
  OBVIOUS
<1>7. Timeout(f)' = Timeout(f) /\ timer[f] \in {Stopped, 0}
  BY <1>2 DEF Timeout, Fresh
<1>8. timer'[f] \in {Stopped, 0}
  BY <1>2, <1>7 DEF NextTimers
<1>9. ASSUME latched', timer'[f] # Stopped, f \notin stale' PROVE Timeout(f) = 0
  <2>1. CASE latched
    BY <1>2, <1>9, <2>1 DEF Fresh
  <2>2. CASE ~latched
    <3>1. trip /\ Judged(f) /\ timer'[f] = NextTimers(band)[f]
      BY <1>2, <1>9, <2>2
    <3>2. f \in Suspects(band)
      BY <1>9, <3>1 DEF NextTimers
    <3>3. f = next
      BY <1>3, <1>4, <3>1, <3>2
    <3>4. Timeout(f) \in 0..Horizon
      BY TimeoutTyped
    <3>5. QED
      BY <1>3, <1>7, <3>1, <3>3, <3>4 DEF Stopped
  <2>3. QED
    BY <2>1, <2>2
<1>10. QED
  BY <1>7, <1>8, <1>9 DEF Fresh

LEMMA SenseBacked ==
  ASSUME TasksBacked, Sense
  PROVE  /\ TasksBacked' /\ Callers' = Callers /\ pc' = pc
         /\ rly' \in {Handle(rly), TurnOff(Handle(rly))}
         /\ rly'.on = (rly.on /\ ~(~latched /\ latched'))
<1>1. Update /\ UNCHANGED <<pc, preempt, before>>
  BY DEF Sense
<1>2. overtaken' \in BOOLEAN /\ outrun' \in BOOLEAN
  BY DEF Sense, Outrun, TasksBacked, TasksTypeOK
<1>3. ClearingInv'
  BY <1>1, UpdateFresh DEF ClearingInv, Callers, TasksBacked, BackedInv
<1>4. QED
  BY <1>1, <1>2, <1>3, UpdateBacked DEF TasksBacked, TasksTypeOK, Callers

LEMMA PassBacked ==
  ASSUME TasksBacked, Pass
  PROVE  /\ TasksBacked' /\ Callers' = Callers /\ pc' = pc /\ Idle
         /\ rly' \in {rly, Older(rly)} /\ rly'.on = rly.on
         /\ UNCHANGED <<latched, overtaken, outrun, preempt, before>>
<1>1. /\ Measure \/ ChangeLoad \/ Tick
      /\ Idle /\ UNCHANGED <<pc, preempt, before, overtaken, outrun>>
  BY DEF Pass
<1>2. BackedInv' /\ rly' \in {rly, Older(rly)} /\ rly'.on = rly.on /\ latched' = latched
  BY <1>1, PlantBacked, TickBacked DEF TasksBacked
<1>3. ClearingInv'
  BY <1>1 DEF ClearingInv, Idle, Callers
<1>4. QED
  BY <1>1, <1>2, <1>3 DEF TasksBacked, TasksTypeOK, Callers

\* The button's long press writes the LED only.
LEMMA PressBacked ==
  ASSUME TasksBacked, PressLong
  PROVE  /\ TasksBacked' /\ Callers' = Callers
         /\ UNCHANGED <<pc, rly, latched, overtaken, outrun, preempt, before>>
<1>1. /\ led' = Pressed
      /\ UNCHANGED <<rly, cfg, state, latched, timer, load, sample, mixed, streak, stale>>
      /\ UNCHANGED <<pc, preempt, before, overtaken, outrun>>
  BY DEF PressLong, LongPress, plantVars, watched
<1>2. Pressed \in Lights
  BY DEF Lights
<1>3. BackedInv'
  BY <1>1, <1>2 DEF TasksBacked, BackedInv, PumpTypeOK, Backed, Timeout, Currents
<1>4. ClearingInv'
  BY <1>1 DEF TasksBacked, ClearingInv, Fresh, Timeout, Callers
<1>5. QED
  BY <1>1, <1>3, <1>4 DEF TasksBacked, TasksTypeOK, Callers

LEMMA TasksInitBacked == TasksInit => TasksBacked
<1>1. SUFFICES ASSUME TasksInit PROVE TasksBacked
  OBVIOUS
<1>2. BackedInv /\ ClearingInv
  <2>1. PumpInv
    BY <1>1, InitInv DEF TasksInit
  <2>2. \A u \in Callers : pc[u] = "idle"
    BY <1>1, CallersTyped DEF TasksInit
  <2>3. QED
    BY <2>1, <2>2, InvIsBacked DEF ClearingInv
<1>3. pc \in [SerialCallers \cup PreemptedCallers -> Labels]
  BY <1>1 DEF TasksInit, Labels
<1>4. QED
  BY <1>1, <1>2, <1>3 DEF TasksInit, TasksBacked, TasksTypeOK

\* What a step does, for the invariants below: each has one case for each of these.
LEMMA TasksSteps ==
  ASSUME TasksBacked, [TasksNext]_taskVars
  PROVE  \/ Receive \/ Click
         \/ \E t \in Callers : \E m \in Labels :
              /\ Effect(t, pc[t], m) /\ Outrun(Callers \ {t}) /\ outrun' \in BOOLEAN
         \/ \E l, m \in Labels : ClearEffect(l, m)
         \/ Sense \/ Pass \/ PressLong \/ UNCHANGED taskVars
<1>1. CASE \E t \in Callers : Statement(t)
  <2>1. PICK t \in Callers : Statement(t)
    BY <1>1
  <2>2. PICK m \in Labels : Effect(t, pc[t], m) /\ Outrun(Callers \ {t})
    BY <2>1, StatementIs
  <2>3. outrun' \in BOOLEAN
    BY <2>2 DEF Outrun, TasksBacked, TasksTypeOK
  <2>4. QED
    BY <2>2, <2>3
<1>2. CASE Clearing
  BY <1>2, ClearingIs
<1>3. QED
  BY <1>1, <1>2 DEF TasksNext

LEMMA TasksStepBacked == TasksBacked /\ [TasksNext]_taskVars => TasksBacked'
<1>1. SUFFICES ASSUME TasksBacked, [TasksNext]_taskVars PROVE TasksBacked'
  OBVIOUS
<1>2. CASE UNCHANGED taskVars
  <2>1. UNCHANGED <<rly, cfg, state, latched, timer, led, load, mixed, sample, streak, stale,
                    pc, preempt, before, overtaken, outrun>>
    BY <1>2 DEF taskVars, pumpVars
  <2>2. BackedInv'
    BY <1>1, <2>1 DEF TasksBacked, BackedInv, PumpTypeOK, Backed, Timeout, Currents
  <2>3. ClearingInv' /\ TasksTypeOK'
    BY <1>1, <2>1 DEF TasksBacked, ClearingInv, Fresh, Timeout, Callers, TasksTypeOK
  <2>4. QED
    BY <2>2, <2>3 DEF TasksBacked
<1>3. QED
  BY <1>1, <1>2, TasksSteps, EffectBacked, ClearingBacked, BeginIs, SenseBacked, PassBacked,
     PressBacked

THEOREM TasksTypeCorrect == TasksSafety => []TasksBacked
<1>1. TasksInit => TasksBacked
  BY TasksInitBacked
<1>2. TasksBacked /\ [TasksNext]_taskVars => TasksBacked'
  BY TasksStepBacked
<1>3. QED
  BY <1>1, <1>2, PTL DEF TasksSafety

-----------------------------------------------------------------------------
(***************************************************************************)
(* PumpTasks: the latch yields only to a race.                             *)
(***************************************************************************)

\* Before its first statements a call is still to take the latch away.  Until it is
\* about to mark the relay on, a trip that came between is remembered.
Unlatching == \E t \in Callers : pc[t] \in FirstLabels
SwitchingOn == \E t \in Callers : pc[t] \in {"on?", "on!"}

LatchInv ==
  latched => /\ rly.on => overtaken \/ Unlatching
             /\ SwitchingOn => overtaken \/ Unlatching

LEMMA EffectLatch ==
  ASSUME TasksBacked, LatchInv, NEW t, NEW m \in Labels, Effect(t, pc[t], m), outrun' \in BOOLEAN
  PROVE  LatchInv'
<1> DEFINE l == pc[t]
<1>1. /\ t \in Callers /\ pc'[t] = m /\ \A u \in Callers \ {t} : pc'[u] = pc[u]
      /\ Callers' = Callers /\ overtaken' = overtaken
  BY GoTyped DEF Effect, TasksBacked, Go
<1>2. l \in SwitchLabels /\ Follows(l, m) /\ Writes(l, rly, rly')
      /\ latched' = IF l \in {"on", "off"} THEN FALSE ELSE latched
  BY DEF Effect
<1>3. CASE l \in {"on", "off"}
  BY <1>2, <1>3 DEF LatchInv
<1>4. CASE l = "toggle"
  <2>1. m \in FirstLabels
    BY <1>2, <1>4 DEF Follows, FirstLabels
  <2>2. Unlatching'
    BY <1>1, <2>1 DEF Unlatching
  <2>3. QED
    BY <2>2 DEF LatchInv
<1>5. CASE l \notin {"on", "off", "toggle"}
  <2>1. l \notin FirstLabels
    BY <1>2, <1>5 DEF SwitchLabels, FirstLabels, RelayStatements, ShownLabels, Faults
  <2>2. Unlatching => Unlatching'
    BY <1>1, <2>1 DEF Unlatching
  <2>3. m \in {"on?", "on!"} => l = "on?"
    <3>1. state \in States /\ rly.on \in BOOLEAN
      BY OnIsBoolean DEF TasksBacked, BackedInv, PumpTypeOK
    <3>2. Show(state, rly.on) \in ShownLabels
      BY <3>1, ShowTyped DEF ShownLabels
    <3>3. Show(state, rly.on) \notin {"on?", "on!"}
      BY <3>2 DEF ShownLabels, Faults
    <3>4. QED
      BY <1>2, <1>5, <3>3 DEF Follows, SwitchLabels, RelayStatements
  <2>4. SwitchingOn' => SwitchingOn
    BY <1>1, <2>3 DEF SwitchingOn
  <2>5. rly'.on => rly.on \/ l = "on!"
    <3>1. CASE l = "on!"
      BY <3>1
    <3>2. CASE l = "off!"
      <4>1. rly' = [rly EXCEPT !.on = FALSE] /\ rly \in Drivers
        BY <1>2, <3>2 DEF Writes, TasksBacked, BackedInv, PumpTypeOK
      <4>2. QED
        BY <4>1 DEF Drivers
    <3>3. CASE l \notin {"on!", "off!"}
      <4>1. rly \in Drivers
        BY DEF TasksBacked, BackedInv, PumpTypeOK
      <4>2. rly'.on = rly.on
        BY <1>2, <3>3, <4>1 DEF Writes, Drivers, WritingLabels
      <4>3. QED
        BY <4>2
    <3>4. QED
      BY <3>1, <3>2, <3>3
  <2>6. l = "on!" => SwitchingOn
    BY <1>1 DEF SwitchingOn
  <2>7. latched' = latched
    BY <1>2, <1>5
  <2>8. QED
    BY <1>1, <2>2, <2>4, <2>5, <2>6, <2>7 DEF LatchInv
<1>6. QED
  BY <1>3, <1>4, <1>5

LEMMA ClearLatchInv ==
  ASSUME TasksBacked, LatchInv, NEW l, NEW m \in Labels, ClearEffect(l, m)
  PROVE  LatchInv'
<1>1. Go("net", l, m) /\ rly' = rly /\ outrun' \in BOOLEAN
  BY DEF ClearEffect, TasksBacked, TasksTypeOK
<1>2. /\ pc["net"] = l /\ pc'["net"] = m /\ \A u \in Callers \ {"net"} : pc'[u] = pc[u]
      /\ Callers' = Callers /\ overtaken' = overtaken
  BY <1>1, GoTyped DEF TasksBacked, Go
<1>3. CASE l = "clear"
  BY <1>3 DEF ClearEffect, LatchInv
<1>4. CASE l # "clear"
  <2>1. l \notin FirstLabels /\ m \notin {"on?", "on!"} /\ latched' = latched
    BY <1>4 DEF ClearEffect, FirstLabels
  <2>2. (Unlatching => Unlatching') /\ (SwitchingOn' => SwitchingOn)
    BY <1>2, <2>1 DEF Unlatching, SwitchingOn
  <2>3. QED
    BY <1>1, <1>2, <2>1, <2>2 DEF LatchInv
<1>5. QED
  BY <1>3, <1>4

LEMMA SenseLatchInv ==
  ASSUME TasksBacked, LatchInv, Sense
  PROVE  LatchInv'
<1>1. /\ pc' = pc /\ Callers' = Callers
      /\ rly'.on = (rly.on /\ ~(~latched /\ latched'))
  BY SenseBacked
<1>2. Unlatching' = Unlatching /\ SwitchingOn' = SwitchingOn
  BY <1>1 DEF Unlatching, SwitchingOn
<1>3. overtaken' = (overtaken \/ (~latched /\ latched' /\ SwitchingOn))
  BY DEF Sense, SwitchingOn
<1>4. CASE latched
  BY <1>1, <1>2, <1>3, <1>4 DEF LatchInv
<1>5. CASE ~latched
  BY <1>1, <1>2, <1>3, <1>5 DEF LatchInv
<1>6. QED
  BY <1>4, <1>5

LEMMA LatchInvKept ==
  ASSUME TasksBacked, LatchInv, [TasksNext]_taskVars
  PROVE  LatchInv'
<1>1. CASE Receive \/ Click
  <2>1. PICK t \in Callers, call \in FirstLabels : pc'[t] = call /\ Callers' = Callers
    BY <1>1, BeginIs
  <2>2. Unlatching'
    BY <2>1 DEF Unlatching
  <2>3. QED
    BY <2>2 DEF LatchInv
<1>2. CASE Pass
  <2>1. pc' = pc /\ Callers' = Callers /\ rly'.on = rly.on /\ UNCHANGED <<latched, overtaken>>
    BY <1>2, PassBacked
  <2>2. Unlatching' = Unlatching /\ SwitchingOn' = SwitchingOn
    BY <2>1 DEF Unlatching, SwitchingOn
  <2>3. QED
    BY <2>1, <2>2 DEF LatchInv
<1>3. CASE UNCHANGED taskVars
  BY <1>3 DEF LatchInv, Unlatching, SwitchingOn, Callers, taskVars, pumpVars
<1>4. CASE PressLong
  <2>1. pc' = pc /\ Callers' = Callers /\ UNCHANGED <<rly, latched, overtaken>>
    BY <1>4, PressBacked
  <2>2. QED
    BY <2>1 DEF LatchInv, Unlatching, SwitchingOn
<1>5. QED
  BY <1>1, <1>2, <1>3, <1>4, TasksSteps, EffectLatch, ClearLatchInv, SenseLatchInv

\* Whatever task preempts which: between calls a latched fault has the relay off, unless
\* the trip came in the middle of a turnOn().
THEOREM LatchYields == TasksSafety => []LatchYieldsOnlyToARace
<1>1. TasksInit => LatchInv
  BY DEF TasksInit, PumpInit, LatchInv
<1>2. TasksBacked /\ LatchInv /\ [TasksNext]_taskVars => LatchInv'
  BY LatchInvKept
<1>3. LatchInv => LatchYieldsOnlyToARace
  BY DEF LatchInv, LatchYieldsOnlyToARace, Unlatching, Idle, FirstLabels
<1>4. QED
  BY TasksTypeCorrect, <1>1, <1>2, <1>3, PTL DEF TasksSafety

-----------------------------------------------------------------------------
(***************************************************************************)
(* PumpTasks: an idle driver that is off has its contact open.             *)
(***************************************************************************)

\* What each step number says of the commanded state and the contact.  The TRIAC
\* is left out: turnOff() may find step 0 where it has just looked at step 4.
ContactMatches(r) ==
  /\ r.step = 0 /\ ~r.on => ~r.contact
  /\ r.step \in {1, 2} => r.on
  /\ r.step \in {3, 4} => ~r.on
  /\ r.step \in {1, 4} => ~r.contact

\* What it says before statement l of a call that nothing has come between.
Holds(l, r) ==
  /\ l = "on!"       => ~r.on /\ ContactMatches(r)
  /\ l = "on step?"  => r.on /\ r.step \in {0, 3, 4} /\ (r.step \in {0, 4} => ~r.contact)
  /\ l = "close"     => r.on /\ r.step = 4
  /\ l = "step 2"    => r.on /\ r.step \in {3, 4}
  /\ l = "step 1"    => r.on /\ r.step = 0 /\ ~r.contact
  /\ l = "off!"      => (r.on \/ r.step = 0) /\ ContactMatches(r)
  /\ l = "off step?" => ~r.on /\ r.step \in {0, 1, 2} /\ (r.step = 1 => ~r.contact)
  /\ l \in {"cancel", "step 0"} => ~r.on /\ r.step = 1 /\ ~r.contact
  /\ l = "take off"  => ~r.on /\ r.step = 2
  /\ l = "step 3"    => ~r.on /\ r.step = 0
  /\ l \notin {"on!", "on step?", "close", "step 2", "step 1", "off!", "off step?", "cancel",
               "step 0", "take off", "step 3"} => ContactMatches(r)

\* A call of the button's task waits for the network's: the one that waits has looked
\* at the driver first.
Writing(t) == t \in Callers /\ pc[t] \in RelayStatements
RelayInv ==
  ~outrun =>
    /\ Writing("button") => Holds(pc["button"], rly)
    /\ ~Writing("button") /\ Writing("net") => Holds(pc["net"], rly)
    /\ ~Writing("button") /\ ~Writing("net") => ContactMatches(rly)

\* Each statement leads from what holds before it to what holds before the next.
LEMMA HoldsNext ==
  ASSUME rly \in Drivers, rly' \in Drivers, state \in States,
         NEW l \in SwitchLabels, NEW m, Follows(l, m), Writes(l, rly, rly'), Holds(l, rly)
  PROVE  Holds(m, rly')
<1>1. /\ rly.step \in {0, 1, 2, 3, 4} /\ rly'.step \in {0, 1, 2, 3, 4}
      /\ rly.on \in BOOLEAN /\ rly'.on \in BOOLEAN /\ rly.contact \in BOOLEAN /\ rly'.contact \in BOOLEAN
  BY DriverFields
<1>2. Show(state, rly.on) \in ShownLabels
  BY <1>1, ShowTyped DEF ShownLabels
<1>3. CASE l \in {"toggle", "on", "off", "on?", "off?", "off again?"}
  <2>1. rly' = rly
    BY <1>3 DEF Writes, WritingLabels
  <2>2. ContactMatches(rly)
    BY <1>3 DEF Holds
  <2>3. m \in {"on", "off", "on?", "off?", "off again?", "event"} => Holds(m, rly)
    BY <2>2 DEF Holds
  <2>4. m = "on!" /\ ~rly.on => Holds(m, rly)
    BY <2>2 DEF Holds
  <2>5. m = "off!" /\ (rly.on \/ rly.step < 3) => Holds(m, rly)
    <3>1. rly.on \/ rly.step < 3 => rly.on \/ rly.step = 0
      BY <1>1, <2>2 DEF ContactMatches
    <3>2. QED
      BY <2>2, <3>1 DEF Holds
  <2>6. \/ m \in {"on", "off", "on?", "off?", "off again?", "event"}
        \/ m = "on!" /\ ~rly.on
        \/ m = "off!" /\ (rly.on \/ rly.step < 3)
    <3>1. CASE l \in {"toggle", "on", "off", "on?", "off?"}
      BY <1>1, <3>1 DEF Follows
    <3>2. CASE l = "off again?"
      <4>1. m = IF rly.step >= 3 THEN "event" ELSE "off!"
        BY <3>2 DEF Follows
      <4>2. QED
        BY <1>1, <4>1
    <3>3. QED
      BY <1>3, <3>1, <3>2
  <2>7. QED
    BY <2>1, <2>3, <2>4, <2>5, <2>6
<1>4. CASE l = "on step?"
  <2>1. rly' = rly /\ m = IF rly.step = 3 THEN "step 2" ELSE IF rly.step = 4 THEN "close" ELSE "step 1"
    BY <1>4 DEF Writes, WritingLabels, Follows
  <2>2. rly.on /\ rly.step \in {0, 3, 4} /\ (rly.step \in {0, 4} => ~rly.contact)
    BY <1>4 DEF Holds
  <2>3. QED
    BY <2>1, <2>2 DEF Holds
<1>5. CASE l = "off step?"
  <2>1. rly' = rly /\ m = IF rly.step = 1 THEN "cancel" ELSE IF rly.step = 2 THEN "take off" ELSE "step 3"
    BY <1>5 DEF Writes, WritingLabels, Follows
  <2>2. ~rly.on /\ rly.step \in {0, 1, 2} /\ (rly.step = 1 => ~rly.contact)
    BY <1>5 DEF Holds
  <2>3. QED
    BY <2>1, <2>2 DEF Holds
<1>6. CASE l = "on!"
  <2>1. rly'.on /\ rly'.step = rly.step /\ rly'.contact = rly.contact /\ m = "on step?"
    BY <1>6 DEF Writes, Drivers, Follows
  <2>2. ~rly.on /\ ContactMatches(rly)
    BY <1>6 DEF Holds
  <2>3. rly.step \in {0, 3, 4} /\ (rly.step \in {0, 4} => ~rly.contact)
    BY <1>1, <2>2 DEF ContactMatches
  <2>4. QED
    BY <2>1, <2>3 DEF Holds
<1>7. CASE l = "off!"
  <2>1. ~rly'.on /\ rly'.step = rly.step /\ rly'.contact = rly.contact /\ m = "off step?"
    BY <1>7 DEF Writes, Drivers, Follows
  <2>2. (rly.on \/ rly.step = 0) /\ ContactMatches(rly)
    BY <1>7 DEF Holds
  <2>3. rly.step \in {0, 1, 2} /\ (rly.step = 1 => ~rly.contact)
    BY <1>1, <2>2 DEF ContactMatches
  <2>4. QED
    BY <2>1, <2>3 DEF Holds
<1>8. CASE l = "close"
  <2>1. rly'.on = rly.on /\ rly'.step = rly.step /\ m = "step 2"
    BY <1>8 DEF Writes, Drivers, Follows
  <2>2. rly.on /\ rly.step = 4
    BY <1>8 DEF Holds
  <2>3. QED
    BY <2>1, <2>2 DEF Holds
<1>9. CASE l \in {"step 0", "step 1", "step 2", "step 3", "take off"}
  <2>1. /\ rly'.on = rly.on /\ rly'.contact = rly.contact
        /\ l = "step 0" => rly'.step = 0
        /\ l = "step 1" => rly'.step = 1
        /\ l = "step 2" => rly'.step = 2
        /\ l \in {"step 3", "take off"} => rly'.step = 3
    BY <1>9 DEF Writes, Drivers
  <2>2. /\ l = "step 0" => ~rly.on /\ ~rly.contact
        /\ l = "step 1" => rly.on /\ ~rly.contact
        /\ l = "step 2" => rly.on
        /\ l \in {"step 3", "take off"} => ~rly.on
    BY DEF Holds
  <2>3. ContactMatches(rly')
    <3>1. \/ rly'.step = 0 /\ ~rly'.contact
          \/ rly'.step = 1 /\ rly'.on /\ ~rly'.contact
          \/ rly'.step = 2 /\ rly'.on
          \/ rly'.step = 3 /\ ~rly'.on
      BY <1>9, <2>1, <2>2
    <3>2. QED
      BY <3>1 DEF ContactMatches
  <2>4. m \in {"event", "stamp", "stamp and fire"}
    BY <1>9 DEF Follows
  <2>5. QED
    BY <2>3, <2>4 DEF Holds
<1>10. CASE l = "cancel"
  <2>1. rly'.on = rly.on /\ rly'.step = rly.step /\ rly'.contact = rly.contact /\ m = "step 0"
    BY <1>10 DEF Writes, Drivers, Follows
  <2>2. ~rly.on /\ rly.step = 1 /\ ~rly.contact
    BY <1>10 DEF Holds
  <2>3. QED
    BY <2>1, <2>2 DEF Holds
<1>11. CASE l \in {"fire", "stamp", "stamp and fire"}
  <2>1. rly'.on = rly.on /\ rly'.step = rly.step /\ rly'.contact = rly.contact
    BY <1>11 DEF Writes, Drivers
  <2>2. ContactMatches(rly) /\ m \in {"event", "fire"}
    BY <1>11 DEF Holds, Follows
  <2>3. ContactMatches(rly')
    BY <2>1, <2>2 DEF ContactMatches
  <2>4. QED
    BY <2>2, <2>3 DEF Holds
<1>12. CASE l = "event" \/ l \in ShownLabels
  <2>1. rly' = rly
    BY <1>12 DEF Writes, WritingLabels, ShownLabels, Faults
  <2>2. m \in ShownLabels \cup {"idle"}
    BY <1>2, <1>12 DEF Follows
  <2>3. ContactMatches(rly)
    BY <1>12 DEF Holds, ShownLabels, Faults
  <2>4. QED
    BY <2>1, <2>2, <2>3 DEF Holds, ShownLabels, Faults
<1>13. QED
  BY <1>3, <1>4, <1>5, <1>6, <1>7, <1>8, <1>9, <1>10, <1>11, <1>12 DEF SwitchLabels, RelayStatements

\* handle() and the trip that follows it keep what the step numbers say.
LEMMA HandleMatches ==
  ASSUME NEW r \in Drivers, ContactMatches(r)
  PROVE  ContactMatches(Handle(r)) /\ ContactMatches(TurnOff(r)) /\ ContactMatches(Older(r))
<1>1. r.on \in BOOLEAN /\ r.contact \in BOOLEAN /\ r.step \in {0, 1, 2, 3, 4}
  BY DriverFields
<1>2. ContactMatches(Handle(r))
  <2>1. CASE Handle(r) = r
    BY <2>1
  <2>2. CASE r.step = 1 /\ r.age >= TriacSettle
    BY <1>1, <2>2 DEF Handle, Driver, ContactMatches
  <2>3. CASE r.step = 3 /\ r.age >= TriacSettle
    BY <1>1, <2>3 DEF Handle, Driver, ContactMatches
  <2>4. CASE r.step \in {2, 4} /\ r.age >= RelaySettle
    BY <1>1, <2>4 DEF Handle, Driver, ContactMatches
  <2>5. QED
    BY <2>1, <2>2, <2>3, <2>4 DEF Handle
<1>3. ContactMatches(TurnOff(r))
  <2>1. CASE ~r.on /\ r.step \in {0, 3, 4}
    <3>1. TurnOff(r) = r
      BY <1>1, <2>1 DEF TurnOff, Driver, Drivers
    <3>2. QED
      BY <3>1
  <2>2. CASE r.on /\ r.step = 1
    BY <1>1, <2>2 DEF TurnOff, Driver, ContactMatches
  <2>3. CASE r.on /\ r.step = 2
    BY <1>1, <2>3 DEF TurnOff, Driver, ContactMatches
  <2>4. CASE r.on /\ r.step = 0
    BY <1>1, <2>4 DEF TurnOff, Driver, ContactMatches
  <2>5. QED
    BY <1>1, <2>1, <2>2, <2>3, <2>4 DEF ContactMatches
<1>4. ContactMatches(Older(r))
  <2>1. Older(r).on = r.on /\ Older(r).step = r.step /\ Older(r).contact = r.contact
    BY DEF Older, Drivers
  <2>2. QED
    BY <2>1 DEF ContactMatches
<1>5. QED
  BY <1>2, <1>3, <1>4

\* Where the network's task is in a call, the button's task does nothing.
LEMMA EffectRelayInv ==
  ASSUME TasksBacked, TasksBacked', RelayInv, NEW t \in Callers, NEW m \in Labels,
         Effect(t, pc[t], m), Outrun(Callers \ {t}), outrun' \in BOOLEAN
  PROVE  RelayInv'
<1> DEFINE l == pc[t]
<1>1. /\ pc'[t] = m /\ \A u \in Callers \ {t} : pc'[u] = pc[u]
      /\ Callers' = Callers /\ CanRun(t)
  BY GoTyped DEF Effect, TasksBacked, Go
<1>2. l \in SwitchLabels /\ Follows(l, m) /\ Writes(l, rly, rly')
  BY DEF Effect
<1>3. rly \in Drivers /\ rly' \in Drivers /\ state \in States
  BY DEF TasksBacked, BackedInv, PumpTypeOK
<1>4. SUFFICES ASSUME ~outrun' PROVE RelayInv'
  BY DEF RelayInv
<1>5. ~outrun /\ (rly' = rly \/ \A u \in Callers \ {t} : pc[u] \notin RelayStatements)
  BY <1>4 DEF Outrun
<1>6. Holds(l, rly) => Holds(m, rly')
  BY <1>2, <1>3, HoldsNext
<1>7. \A k, r : k \notin RelayStatements => (Holds(k, r) <=> ContactMatches(r))
  BY DEF Holds, RelayStatements
<1>8. \A u : Writing(u)' <=> u \in Callers /\ (IF u = t THEN m ELSE pc[u]) \in RelayStatements
  BY <1>1 DEF Writing
<1>9. CASE t = "button"
  <2>1. ~Writing("net") /\ ~Writing("net")'
    BY <1>1, <1>8, <1>9 DEF Writing, CanRun, RelayStatements
  <2>2. Holds(l, rly)
    <3>1. CASE Writing("button")
      BY <1>5, <1>9, <3>1 DEF RelayInv
    <3>2. CASE ~Writing("button")
      BY <1>5, <1>7, <1>9, <2>1, <3>2 DEF RelayInv, Writing
    <3>3. QED
      BY <3>1, <3>2
  <2>3. Holds(m, rly')
    BY <1>6, <2>2
  <2>4. QED
    BY <1>1, <1>7, <1>8, <1>9, <2>1, <2>3 DEF RelayInv
<1>10. CASE t = "net" /\ Writing("button")
  <2>1. rly' = rly /\ pc'["button"] = pc["button"] /\ Writing("button")'
    BY <1>1, <1>5, <1>8, <1>10 DEF Writing
  <2>2. QED
    BY <1>5, <1>10, <2>1 DEF RelayInv
<1>11. CASE t = "net" /\ ~Writing("button")
  <2>1. ~Writing("button")'
    BY <1>8, <1>11 DEF Writing
  <2>2. Holds(l, rly)
    <3>1. CASE Writing("net")
      BY <1>5, <1>11, <3>1 DEF RelayInv
    <3>2. CASE ~Writing("net")
      BY <1>5, <1>7, <1>11, <3>2 DEF RelayInv, Writing
    <3>3. QED
      BY <3>1, <3>2
  <2>3. Holds(m, rly')
    BY <1>6, <2>2
  <2>4. QED
    BY <1>1, <1>7, <1>8, <1>11, <2>1, <2>3 DEF RelayInv
<1>12. QED
  BY <1>9, <1>10, <1>11, CallersTyped

LEMMA RelayInvKept ==
  ASSUME TasksBacked, TasksBacked', RelayInv, [TasksNext]_taskVars
  PROVE  RelayInv'
<1>1. CASE Receive \/ Click
  <2>1. PICK t \in Callers, call \in FirstLabels :
          /\ Begin(t, call) /\ Callers' = Callers
          /\ pc[t] = "idle" /\ pc'[t] = call /\ \A u \in Callers \ {t} : pc'[u] = pc[u]
    BY <1>1, BeginIs
  <2>2. "idle" \notin RelayStatements /\ call \notin RelayStatements
    BY DEF RelayStatements, FirstLabels
  <2>3. \A u : (Writing(u)' <=> Writing(u)) /\ (Writing(u) => pc'[u] = pc[u])
    BY <2>1, <2>2 DEF Writing
  <2>4. UNCHANGED <<rly, outrun>>
    BY <2>1 DEF Begin, pumpVars
  <2>5. QED
    BY <2>3, <2>4 DEF RelayInv
<1>2. ASSUME NEW l, NEW m \in Labels, ClearEffect(l, m) PROVE RelayInv'
  <2>1. Go("net", l, m) /\ UNCHANGED <<rly, outrun>> /\ outrun' \in BOOLEAN
    BY <1>2 DEF ClearEffect, TasksBacked, TasksTypeOK
  <2>2. /\ pc["net"] = l /\ pc'["net"] = m /\ \A u \in Callers \ {"net"} : pc'[u] = pc[u]
        /\ Callers' = Callers
    BY <2>1, GoTyped DEF TasksBacked
  <2>3. l \notin RelayStatements /\ m \notin RelayStatements
    BY <1>2 DEF ClearEffect, RelayStatements
  <2>4. \A u : (Writing(u)' <=> Writing(u)) /\ (Writing(u) => pc'[u] = pc[u])
    BY <2>2, <2>3 DEF Writing
  <2>5. QED
    BY <2>1, <2>4 DEF RelayInv
<1>3. CASE Sense
  <2>1. pc' = pc /\ Callers' = Callers /\ rly' \in {Handle(rly), TurnOff(Handle(rly))}
    BY <1>3, SenseBacked
  <2>2. \A u : Writing(u)' <=> Writing(u)
    BY <2>1 DEF Writing
  <2>3. outrun' = (outrun \/ (rly' # rly /\ \E u \in Callers : Writing(u)))
    BY <1>3 DEF Sense, Outrun, Writing
  <2>4. CASE rly' = rly
    BY <2>1, <2>2, <2>3, <2>4 DEF RelayInv
  <2>5. CASE \A u \in Callers : ~Writing(u)
    <3>1. ~Writing("net") /\ ~Writing("button")
      BY <2>5 DEF Writing
    <3>2. ContactMatches(rly) => ContactMatches(rly')
      <4>1. rly \in Drivers
        BY DEF TasksBacked, BackedInv, PumpTypeOK
      <4>2. Handle(rly) \in Drivers
        BY <4>1, OperationsTyped
      <4>3. QED
        BY <2>1, <4>1, <4>2, HandleMatches
    <3>3. QED
      BY <2>2, <2>3, <2>5, <3>1, <3>2 DEF RelayInv
  <2>6. CASE rly' # rly /\ \E u \in Callers : Writing(u)
    BY <2>3, <2>6 DEF RelayInv
  <2>7. QED
    BY <2>4, <2>5, <2>6
<1>4. CASE Pass
  <2>1. pc' = pc /\ Callers' = Callers /\ rly' \in {rly, Older(rly)} /\ Idle /\ outrun' = outrun
    BY <1>4, PassBacked
  <2>2. \A u : ~Writing(u) /\ ~Writing(u)'
    BY <2>1 DEF Writing, Idle, RelayStatements
  <2>3. rly \in Drivers
    BY DEF TasksBacked, BackedInv, PumpTypeOK
  <2>4. ContactMatches(rly) => ContactMatches(rly')
    BY <2>1, <2>3, HandleMatches
  <2>5. QED
    BY <2>1, <2>2, <2>4 DEF RelayInv
<1>5. CASE UNCHANGED taskVars
  BY <1>5 DEF RelayInv, Writing, Callers, taskVars, pumpVars
<1>6. CASE PressLong
  <2>1. pc' = pc /\ Callers' = Callers /\ UNCHANGED <<rly, outrun>>
    BY <1>6, PressBacked
  <2>2. QED
    BY <2>1 DEF RelayInv, Writing
<1>7. QED
  BY <1>1, <1>2, <1>3, <1>4, <1>5, <1>6, TasksSteps, EffectRelayInv

\* Whatever task preempts which, and however long the driver waits: between calls a
\* driver that is off and idle has its contact open, unless it was moved under a call.
THEOREM OffIsOpen == TasksSafety => []OffIsOpenButForARace
<1>1. TasksInit => RelayInv
  <2>1. SUFFICES ASSUME TasksInit PROVE RelayInv
    OBVIOUS
  <2>2. \A u : ~Writing(u)
    BY <2>1, CallersTyped DEF TasksInit, Writing, RelayStatements
  <2>3. rly \in {AtRest, TurnOn(AtRest)}
    BY <2>1 DEF TasksInit, PumpInit
  <2>4. ContactMatches(rly)
    BY <2>3 DEF ContactMatches, AtRest, TurnOn, Driver
  <2>5. QED
    BY <2>2, <2>4 DEF RelayInv
<1>2. TasksBacked /\ TasksBacked' /\ RelayInv /\ [TasksNext]_taskVars => RelayInv'
  BY RelayInvKept
<1>3. RelayInv => OffIsOpenButForARace
  BY DEF RelayInv, OffIsOpenButForARace, Writing, Idle, ContactMatches, RelayStatements
<1>4. QED
  BY TasksTypeCorrect, <1>1, <1>2, <1>3, PTL DEF TasksSafety

\* No preemption makes a trip that its evidence does not cover, wherever update() comes
\* between the statements of a call.
THEOREM TasksTripsEarned == TasksSafety => TripsAreEarned
<1>1. ASSUME TasksBacked, [TasksNext]_taskVars, ~latched /\ latched'
      PROVE  streak[state'] >= Timeout(state') \/ state' \in stale
  <2>1. Sense
    <3>1. ASSUME NEW t, NEW m, Effect(t, pc[t], m) PROVE FALSE
      BY <1>1, <3>1 DEF Effect
    <3>2. ASSUME NEW l, NEW m, ClearEffect(l, m) PROVE FALSE
      BY <1>1, <3>2 DEF ClearEffect
    <3>3. CASE Receive \/ Click
      BY <1>1, <3>3 DEF Receive, Click, Begin, pumpVars
    <3>4. CASE Pass
      BY <1>1, <3>4, PassBacked
    <3>5. CASE UNCHANGED taskVars
      BY <1>1, <3>5 DEF taskVars, pumpVars
    <3>6. CASE PressLong
      BY <1>1, <3>6, PressBacked
    <3>7. QED
      BY <1>1, <3>1, <3>2, <3>3, <3>4, <3>5, <3>6, TasksSteps
  <2>2. QED
    BY <1>1, <2>1, TripEarned DEF Sense, TasksBacked
<1>2. QED
  BY <1>1, TasksTypeCorrect, PTL DEF TasksSafety, TripsAreEarned

-----------------------------------------------------------------------------
(***************************************************************************)
(* PumpTasks without preemption is PumpController.                         *)
(***************************************************************************)

LEMMA SeenFields ==
  /\ before = None =>
       /\ Seen("rly") = rly /\ Seen("latched") = latched /\ Seen("state") = state
       /\ Seen("timer") = timer /\ Seen("led") = led /\ Seen("mixed") = mixed
       /\ Seen("streak") = streak /\ Seen("stale") = stale
  /\ before # None => \A f : Seen(f) = before[f]
BY DEF Seen, Found

\* The operators of the instance that look at no state are those of PumpController.
LEMMA SameOperators ==
  /\ \A r : /\ Serial!TurnOn(r) = TurnOn(r) /\ Serial!TurnOff(r) = TurnOff(r)
            /\ Serial!Handle(r) = Handle(r) /\ Serial!Older(r) = Older(r)
            /\ Serial!Powered(r) = Powered(r)
  /\ \A s, on : Serial!Show(s, on) = Show(s, on)
  /\ \A mA, c : Serial!Band(mA, c) = Band(mA, c)
  /\ \A band : Serial!Suspects(band) = Suspects(band)
  /\ \A f : Serial!Timeout(f) = Timeout(f) /\ (Serial!Judged(f) <=> Judged(f))
  /\ Serial!Faults = Faults /\ Serial!NoTimers = NoTimers /\ Serial!Stopped = Stopped
  /\ Serial!Currents = Currents /\ Serial!AtRest = AtRest
BY DEF Serial!TurnOn, TurnOn, Serial!TurnOff, TurnOff, Serial!Handle, Handle, Serial!Older, Older,
       Serial!Powered, Powered, Serial!Show, Show, Serial!Band, Band, Serial!Suspects, Suspects,
       Serial!Timeout, Timeout, Serial!Judged, Judged, Serial!Faults, Faults, Serial!NoTimers,
       NoTimers, Serial!Stopped, Stopped, Serial!Currents, Currents, Serial!AtRest, AtRest,
       Serial!Driver, Driver, Serial!MaxAge, MaxAge

\* Before the first statement of a call the instance judges as PumpController does.
LEMMA SameVerdict ==
  ASSUME NEW band \in Bands, Seen("timer") = timer, Seen("state") = state
  PROVE  Serial!NextTimers(band) = NextTimers(band) /\ Serial!NextState(band) = NextState(band)
<1>1. Serial!NextTimers(band) = NextTimers(band)
  <2>1. ASSUME NEW f \in Faults
        PROVE  Serial!NextTimers(band)[f] = NextTimers(band)[f]
    <3>1. CASE f \in Suspects(band)
      BY <3>1, SameOperators DEF Serial!NextTimers, NextTimers
    <3>2. CASE f \notin Suspects(band) /\ Judged(f)
      BY <3>2, SameOperators DEF Serial!NextTimers, NextTimers
    <3>3. CASE f \notin Suspects(band) /\ ~Judged(f)
      BY <3>3, SameOperators DEF Serial!NextTimers, NextTimers
    <3>4. QED
      BY <3>1, <3>2, <3>3
  <2>2. Serial!NextTimers(band) = [f \in Faults |-> Serial!NextTimers(band)[f]]
    BY SameOperators DEF Serial!NextTimers
  <2>3. NextTimers(band) = [f \in Faults |-> NextTimers(band)[f]]
    BY DEF NextTimers
  <2>4. QED
    BY <2>1, <2>2, <2>3
<1>2. Serial!NextState(band) = NextState(band)
  <2>1. CASE band \in {"off", "ok", "high"}
    BY <2>1 DEF Serial!NextState, NextState
  <2>2. CASE /\ band \in {"dry", "critical", "overload"}
             /\ \E f \in Suspects(band) : timer[f] # Stopped /\ timer[f] >= Timeout(f)
    <3>1. PICK f \in Suspects(band) : timer[f] # Stopped /\ timer[f] >= Timeout(f)
      BY <2>2
    <3>2. NextState(band) = CHOOSE g \in Suspects(band) : TRUE
      BY <2>2 DEF NextState
    <3>3. Serial!NextState(band) = CHOOSE g \in Suspects(band) : TRUE
      BY <2>2, SameOperators DEF Serial!NextState
    <3>4. QED
      BY <3>2, <3>3
  <2>3. CASE /\ band \in {"dry", "critical", "overload"}
             /\ ~ \E f \in Suspects(band) : timer[f] # Stopped /\ timer[f] >= Timeout(f)
    <3>1. NextState(band) = state
      BY <2>3 DEF NextState
    <3>2. Serial!NextState(band) = state
      BY <2>3, SameOperators DEF Serial!NextState
    <3>3. QED
      BY <3>1, <3>2
  <2>4. QED
    BY <2>1, <2>2, <2>3 DEF Bands
<1>3. QED
  BY <1>1, <1>2

\* Between calls a step of the sensor task, the plant or time is that of PumpController.
LEMMA IdleSteps ==
  ASSUME TasksBacked, before = None, before' = None,
         Update \/ Measure \/ ChangeLoad \/ Tick \/ LongPress
  PROVE  Serial!PumpNext
<1>1. /\ Seen("rly") = rly /\ Seen("latched") = latched /\ Seen("state") = state
      /\ Seen("timer") = timer /\ Seen("led") = led /\ Seen("mixed") = mixed
      /\ Seen("streak") = streak /\ Seen("stale") = stale
  BY SeenFields
<1>2. /\ Seen("rly")' = rly' /\ Seen("latched")' = latched' /\ Seen("state")' = state'
      /\ Seen("timer")' = timer' /\ Seen("led")' = led' /\ Seen("mixed")' = mixed'
      /\ Seen("streak")' = streak' /\ Seen("stale")' = stale'
  BY DEF Seen, Found
<1>3. CASE Update
  <2> DEFINE band == Band(sample, cfg)
             next == NextState(band)
             trip == ~latched /\ next # state /\ next \in Faults
  <2>1. Serial!NextTimers(band) = NextTimers(band) /\ Serial!NextState(band) = next
    BY <1>1, BandTyped, SameVerdict
  <2>2. Serial!Serviced(trip) = Serviced(trip) /\ Serial!Shown(next) = Shown(next)
    BY <1>1, <1>2, SameOperators DEF Serial!Serviced, Serviced, Serial!Shown, Shown
  <2>3. Serial!Watch
    BY <1>1, <1>2, <1>3, SameOperators DEF Update, Watch, Serial!Watch
  <2>4. Serial!Update
    <3>1. Serial!Observed(band, Seen("timer")')
      BY <1>1, <1>2, <1>3, SameOperators DEF Update, Observed, Serial!Observed
    <3>2. QED
      BY <1>1, <1>2, <1>3, <2>1, <2>2, <2>3, <3>1, SameOperators
         DEF Update, Serial!Update, plantVars, Serial!plantVars
  <2>5. QED
    BY <2>4 DEF Serial!PumpNext
<1>4. CASE Measure
  <2>1. Serial!Measure
    BY <1>1, <1>2, <1>4, SameOperators DEF Measure, Serial!Measure, watched, Serial!watched
  <2>2. QED
    BY <2>1 DEF Serial!PumpNext
<1>5. CASE ChangeLoad
  <2>1. Serial!ChangeLoad
    BY <1>1, <1>2, <1>5, SameOperators DEF ChangeLoad, Serial!ChangeLoad, watched, Serial!watched
  <2>2. QED
    BY <2>1 DEF Serial!PumpNext
<1>6. CASE Tick
  <2>1. Serial!Tick
    BY <1>1, <1>2, <1>6, SameOperators DEF Tick, Serial!Tick, plantVars, Serial!plantVars
  <2>2. QED
    BY <2>1 DEF Serial!PumpNext
<1>7. CASE LongPress
  <2>1. Serial!LongPress
    BY <1>1, <1>2, <1>7
       DEF LongPress, Serial!LongPress, Pressed, Serial!Pressed, plantVars, Serial!plantVars,
           watched, Serial!watched
  <2>2. QED
    BY <2>1 DEF Serial!PumpNext, Serial!Command
<1>8. QED
  BY <1>3, <1>4, <1>5, <1>6, <1>7

\* What the rest of a call at statement l makes of driver r, where that statement is
\* reached without anything coming between.
Reaches(l, r, w) ==
  /\ l = "on?"        => w = TurnOn(r)
  /\ l = "on!"        => ~r.on /\ w = TurnOn(r)
  /\ l = "on step?"   => r.on /\ w = TurnOn([r EXCEPT !.on = FALSE])
  /\ l = "close"      => r.on /\ w = Driver(TRUE, 2, 0, TRUE, r.gate)
  /\ l = "step 2"     => r.on /\ w = Driver(TRUE, 2, 0, r.contact, r.gate)
  /\ l = "step 1"     => r.on /\ w = Driver(TRUE, 1, 0, r.contact, TRUE)
  /\ l = "off?"       => w = TurnOff(r)
  /\ l = "off again?" => ~r.on /\ r.step # 0 /\ w = TurnOff(r)
  /\ l = "off!"       => (r.on \/ r.step \in {1, 2}) /\ w = TurnOff(r)
  /\ l = "off step?"  => ~r.on /\ w = TurnOff([r EXCEPT !.on = TRUE])
  /\ l = "cancel"     => ~r.on /\ w = Driver(FALSE, 0, r.age, r.contact, FALSE)
  /\ l = "step 0"     => ~r.on /\ w = Driver(FALSE, 0, r.age, r.contact, r.gate)
  /\ l = "take off"   => ~r.on /\ w = Driver(FALSE, 3, 0, r.contact, r.gate)
  /\ l = "step 3"     => ~r.on /\ w = Driver(FALSE, 3, 0, r.contact, TRUE)
  /\ l = "stamp"      => w = Driver(r.on, r.step, 0, r.contact, r.gate)
  /\ l = "stamp and fire" => w = Driver(r.on, r.step, 0, r.contact, TRUE)
  /\ l = "fire"       => w = Driver(r.on, r.step, r.age, r.contact, TRUE)
  /\ l \in {"event"} \cup ShownLabels => w = r

\* The statements before a call has taken the latch away, and those after the one that
\* may change whether the pump is powered.
LatchedLabels == {"toggle", "on", "off"}
PoweredLabels == {"step 2", "step 0", "stamp", "event"} \cup ShownLabels

\* A call of turnOn(), turnOff() or toggle() that found b, at statement l.
InSwitch(l, b) ==
  /\ l \in SwitchLabels
  /\ state = b.state /\ timer = b.timer /\ led = b.led /\ streak = b.streak /\ stale = b.stale
  /\ l \in LatchedLabels => rly = b.rly /\ mixed = b.mixed /\ latched = b.latched
  /\ l \notin LatchedLabels =>
       /\ latched = FALSE
       /\ \E w \in {TurnOn(b.rly), TurnOff(b.rly)} : Reaches(l, rly, w)
       /\ mixed = (b.mixed \/ Powered(rly) # Powered(b.rly))
       /\ l \notin PoweredLabels => rly.contact = b.rly.contact /\ rly.gate = b.rly.gate
       /\ l \in ShownLabels => l = Show(state, rly.on)

\* A call of clearPumpFault() that found b, at statement l.
InClear(l, b) ==
  /\ l \in {"clear", "timers", "fault?", "state", "event"} \cup ShownLabels
  /\ rly = b.rly /\ mixed = b.mixed /\ led = b.led
  /\ latched = IF l = "clear" THEN b.latched ELSE FALSE
  /\ IF l \in {"clear", "timers"} THEN timer = b.timer /\ streak = b.streak /\ stale = b.stale
                                  ELSE timer = NoTimers /\ streak = [f \in Faults |-> 0] /\ stale = {}
  /\ l \in {"clear", "timers", "fault?", "state"} => state = b.state
  /\ l \in {"state", "event"} \cup ShownLabels => b.state \in Faults
  /\ l \in {"event"} \cup ShownLabels => state = "OFF"
  /\ l \in ShownLabels => l = Show(state, rly.on)

\* Without preemption one call is under way, and what it has done so far adds up.
SerialInv ==
  ~preempt =>
    \/ Idle /\ before = None
    \/ \E t \in Callers :
         /\ \A u \in Callers \ {t} : pc[u] = "idle"
         /\ before # None /\ before.rly \in Drivers /\ before.mixed \in BOOLEAN
         /\ InSwitch(pc[t], before) \/ InClear(pc[t], before)

\* A driver is its five fields, and so are the drivers the statements write.
LEMMA DriverIs ==
  /\ \A on, step, age, contact, gate :
       LET r == Driver(on, step, age, contact, gate)
       IN r.on = on /\ r.step = step /\ r.age = age /\ r.contact = contact /\ r.gate = gate
  /\ \A r \in Drivers :
       /\ r = Driver(r.on, r.step, r.age, r.contact, r.gate)
       /\ \A b : /\ [r EXCEPT !.on = b] = Driver(b, r.step, r.age, r.contact, r.gate)
                 /\ [r EXCEPT !.contact = b] = Driver(r.on, r.step, r.age, b, r.gate)
                 /\ [r EXCEPT !.gate = b] = Driver(r.on, r.step, r.age, r.contact, b)
                 /\ [r EXCEPT !.step = b] = Driver(r.on, b, r.age, r.contact, r.gate)
                 /\ [r EXCEPT !.age = b] = Driver(r.on, r.step, b, r.contact, r.gate)
BY DEF Driver, Drivers

\* turnOn() and turnOff() as one case after the other.
LEMMA SwitchedIs ==
  ASSUME NEW r \in Drivers
  PROVE  /\ TurnOn(r) = IF r.on THEN r
                        ELSE IF r.step = 3 THEN Driver(TRUE, 2, 0, r.contact, r.gate)
                        ELSE IF r.step = 4 THEN Driver(TRUE, 2, 0, TRUE, r.gate)
                        ELSE Driver(TRUE, 1, 0, r.contact, TRUE)
         /\ TurnOff(r) = IF ~r.on /\ r.step \in {0, 3, 4} THEN r
                         ELSE IF r.step = 1 THEN Driver(FALSE, 0, r.age, r.contact, FALSE)
                         ELSE IF r.step = 2 THEN Driver(FALSE, 3, 0, r.contact, r.gate)
                         ELSE Driver(FALSE, 3, 0, r.contact, TRUE)
         /\ r.on \/ r.step \in {1, 2} =>
              TurnOff(r) = IF r.step = 1 THEN Driver(FALSE, 0, r.age, r.contact, FALSE)
                           ELSE IF r.step = 2 THEN Driver(FALSE, 3, 0, r.contact, r.gate)
                           ELSE Driver(FALSE, 3, 0, r.contact, TRUE)
<1>1. r.on \in BOOLEAN
  BY DriverFields
<1>2. CASE r.on
  <2>1. TurnOn(r) = r
    BY <1>2 DEF TurnOn
  <2>2. CASE r.step = 1
    BY <1>2, <2>1, <2>2 DEF TurnOff
  <2>3. CASE r.step = 2
    BY <1>2, <2>1, <2>3 DEF TurnOff
  <2>4. CASE r.step \notin {1, 2}
    BY <1>2, <2>1, <2>4 DEF TurnOff
  <2>5. QED
    BY <2>2, <2>3, <2>4
<1>3. CASE ~r.on
  <2>1. CASE r.step = 1
    BY <1>3, <2>1 DEF TurnOn, TurnOff
  <2>2. CASE r.step = 2
    BY <1>3, <2>2 DEF TurnOn, TurnOff
  <2>3. CASE r.step = 3
    <3>1. TurnOff(r) = r /\ ~(r.on \/ r.step \in {1, 2})
      BY <1>3, <2>3 DEF TurnOff
    <3>2. TurnOn(r) = Driver(TRUE, 2, 0, r.contact, r.gate)
      BY <1>3, <2>3 DEF TurnOn
    <3>3. QED
      BY <1>3, <2>3, <3>1, <3>2
  <2>4. CASE r.step = 4
    <3>1. TurnOff(r) = r /\ ~(r.on \/ r.step \in {1, 2})
      BY <1>3, <2>4 DEF TurnOff
    <3>2. TurnOn(r) = Driver(TRUE, 2, 0, TRUE, r.gate)
      BY <1>3, <2>4 DEF TurnOn
    <3>3. QED
      <4>1. ~r.on /\ r.step \in {0, 3, 4} /\ r.step # 3 /\ r.step # 1 /\ r.step # 2
        BY <1>3, <2>4
      <4>2. QED
        BY <2>4, <3>1, <3>2, <4>1, Zenon
  <2>5. CASE r.step \notin {1, 2, 3, 4}
    BY <1>3, <2>5 DEF TurnOn, TurnOff
  <2>6. QED
    BY <2>1, <2>2, <2>3, <2>4, <2>5
<1>4. QED
  BY <1>1, <1>2, <1>3

\* Each statement leads from what the rest of the call makes of the driver to what the
\* statements after it make of it.
LEMMA ReachesNext ==
  ASSUME rly \in Drivers, rly' \in Drivers, state \in States,
         NEW l \in SwitchLabels \ (LatchedLabels \cup ShownLabels), NEW m,
         Follows(l, m), Writes(l, rly, rly'), NEW w, Reaches(l, rly, w)
  PROVE  Reaches(m, rly', w)
<1>1. /\ rly.step \in {0, 1, 2, 3, 4} /\ rly.on \in BOOLEAN /\ rly.contact \in BOOLEAN
      /\ rly.gate \in BOOLEAN /\ rly = Driver(rly.on, rly.step, rly.age, rly.contact, rly.gate)
  BY DriverFields, DriverIs
<1>2. CASE l = "on?"
  <2>1. rly' = rly /\ w = TurnOn(rly) /\ m = IF rly.on THEN "event" ELSE "on!"
    BY <1>2 DEF Writes, WritingLabels, Follows, Reaches
  <2>2. CASE rly.on
    <3>1. w = rly
      BY <2>1, <2>2, SwitchedIs
    <3>2. QED
      BY <2>1, <2>2, <3>1 DEF Reaches, ShownLabels, Faults
  <2>3. CASE ~rly.on
    BY <2>1, <2>3 DEF Reaches, ShownLabels, Faults
  <2>4. QED
    BY <2>2, <2>3
<1>3. CASE l = "on!"
  <2>1. rly' = [rly EXCEPT !.on = TRUE] /\ ~rly.on /\ w = TurnOn(rly) /\ m = "on step?"
    BY <1>3 DEF Writes, Follows, Reaches
  <2>2. rly'.on /\ [rly' EXCEPT !.on = FALSE] = rly
    BY <2>1 DEF Drivers
  <2>3. QED
    BY <2>1, <2>2 DEF Reaches, ShownLabels, Faults
<1>4. CASE l = "on step?"
  <2> DEFINE r == [rly EXCEPT !.on = FALSE]
  <2>1. /\ rly' = rly /\ rly.on /\ w = TurnOn(r)
        /\ m = IF rly.step = 3 THEN "step 2" ELSE IF rly.step = 4 THEN "close" ELSE "step 1"
    BY <1>4 DEF Writes, WritingLabels, Follows, Reaches
  <2>2. r \in Drivers /\ ~r.on /\ r.step = rly.step /\ r.contact = rly.contact /\ r.gate = rly.gate
    BY FieldsTyped DEF Drivers
  <2> HIDE DEF r
  <2>3. w = IF r.step = 3 THEN Driver(TRUE, 2, 0, r.contact, r.gate)
            ELSE IF r.step = 4 THEN Driver(TRUE, 2, 0, TRUE, r.gate)
            ELSE Driver(TRUE, 1, 0, r.contact, TRUE)
    BY <2>1, <2>2, SwitchedIs
  <2>4. QED
    BY <2>1, <2>2, <2>3 DEF Reaches, ShownLabels, Faults
<1>5. CASE l \in {"close", "step 1", "step 2"}
  <2>1. /\ l = "close" => rly' = Driver(rly.on, rly.step, rly.age, TRUE, rly.gate) /\ m = "step 2"
        /\ l = "step 2" => rly' = Driver(rly.on, 2, rly.age, rly.contact, rly.gate) /\ m = "stamp"
        /\ l = "step 1" => /\ rly' = Driver(rly.on, 1, rly.age, rly.contact, rly.gate)
                           /\ m = "stamp and fire"
    BY <1>5, DriverIs DEF Writes, Follows
  <2>2. /\ rly.on
        /\ l = "close" => w = Driver(TRUE, 2, 0, TRUE, rly.gate)
        /\ l = "step 2" => w = Driver(TRUE, 2, 0, rly.contact, rly.gate)
        /\ l = "step 1" => w = Driver(TRUE, 1, 0, rly.contact, TRUE)
    BY <1>5 DEF Reaches
  <2>3. rly.on = TRUE
    BY <1>1, <2>2
  <2>4. CASE l = "close"
    <3>1. rly'.on = rly.on /\ rly'.step = rly.step /\ rly'.age = rly.age /\ rly'.contact = TRUE /\ rly'.gate = rly.gate
      BY <2>4 DEF Writes, Drivers
    <3>2. QED
      BY <2>4, <2>1, <2>2, <2>3, <3>1 DEF Reaches, ShownLabels, Faults
  <2>5. CASE l = "step 1"
    <3>1. rly'.on = rly.on /\ rly'.step = 1 /\ rly'.age = rly.age /\ rly'.contact = rly.contact /\ rly'.gate = rly.gate
      BY <2>5 DEF Writes, Drivers
    <3>2. QED
      BY <2>5, <2>1, <2>2, <2>3, <3>1 DEF Reaches, ShownLabels, Faults
  <2>6. CASE l = "step 2"
    <3>1. rly'.on = rly.on /\ rly'.step = 2 /\ rly'.age = rly.age /\ rly'.contact = rly.contact /\ rly'.gate = rly.gate
      BY <2>6 DEF Writes, Drivers
    <3>2. QED
      BY <2>6, <2>1, <2>2, <2>3, <3>1 DEF Reaches, ShownLabels, Faults
  <2>7. QED
    BY <1>5, <2>4, <2>5, <2>6
<1>6. CASE l \in {"off?", "off again?"}
  <2>1. rly' = rly /\ w = TurnOff(rly)
    BY <1>6 DEF Writes, WritingLabels, Reaches
  <2>2. CASE m = "event"
    <3>1. ~rly.on /\ rly.step \in {0, 3, 4}
      <4>1. CASE l = "off?"
        BY <2>2, <4>1 DEF Follows
      <4>2. CASE l = "off again?"
        <5>1. m = IF rly.step >= 3 THEN "event" ELSE "off!"
          BY <4>2 DEF Follows
        <5>2. ~rly.on /\ rly.step # 0
          BY <4>2 DEF Reaches
        <5>3. QED
          BY <1>1, <2>2, <5>1, <5>2
      <4>3. QED
        BY <1>6, <4>1, <4>2
    <3>2. w = rly
      BY <2>1, <3>1, SwitchedIs
    <3>3. QED
      BY <2>1, <2>2, <3>2 DEF Reaches, ShownLabels, Faults
  <2>3. CASE m = "off again?"
    <3>1. l = "off?" /\ ~rly.on /\ rly.step # 0
      <4>1. CASE l = "off?"
        BY <2>3, <4>1 DEF Follows
      <4>2. CASE l = "off again?"
        BY <2>3, <4>2 DEF Follows
      <4>3. QED
        BY <1>6, <4>1, <4>2
    <3>2. QED
      BY <2>1, <2>3, <3>1 DEF Reaches, ShownLabels, Faults
  <2>4. CASE m = "off!"
    <3>1. rly.on \/ rly.step \in {1, 2}
      <4>1. CASE l = "off?"
        BY <2>4, <4>1 DEF Follows
      <4>2. CASE l = "off again?"
        <5>1. m = IF rly.step >= 3 THEN "event" ELSE "off!"
          BY <4>2 DEF Follows
        <5>2. ~rly.on /\ rly.step # 0
          BY <4>2 DEF Reaches
        <5>3. QED
          BY <1>1, <2>4, <5>1, <5>2
      <4>3. QED
        BY <1>6, <4>1, <4>2
    <3>2. QED
      BY <2>1, <2>4, <3>1 DEF Reaches, ShownLabels, Faults
  <2>5. m \in {"event", "off again?", "off!"}
    BY <1>6 DEF Follows
  <2>6. QED
    BY <2>2, <2>3, <2>4, <2>5
<1>7. CASE l = "off!"
  <2>1. /\ rly' = Driver(FALSE, rly.step, rly.age, rly.contact, rly.gate) /\ m = "off step?"
        /\ rly.on \/ rly.step \in {1, 2}
        /\ w = TurnOff(rly)
    BY <1>7, DriverIs DEF Writes, Follows, Reaches
  <2> DEFINE r == [rly' EXCEPT !.on = TRUE]
  <2>2. r \in Drivers /\ r.on /\ r.step = rly.step /\ r.contact = rly.contact /\ r.gate = rly.gate
        /\ r.age = rly.age
    BY <2>1, FieldsTyped DEF Driver, Drivers
  <2> HIDE DEF r
  <2>3. TurnOff(r) = IF rly.step = 1 THEN Driver(FALSE, 0, rly.age, rly.contact, FALSE)
                     ELSE IF rly.step = 2 THEN Driver(FALSE, 3, 0, rly.contact, rly.gate)
                     ELSE Driver(FALSE, 3, 0, rly.contact, TRUE)
    BY <2>2, SwitchedIs
  <2>4. w = TurnOff(r)
    <3>1. w = IF rly.step = 1 THEN Driver(FALSE, 0, rly.age, rly.contact, FALSE)
              ELSE IF rly.step = 2 THEN Driver(FALSE, 3, 0, rly.contact, rly.gate)
              ELSE Driver(FALSE, 3, 0, rly.contact, TRUE)
      BY <2>1, SwitchedIs
    <3>2. QED
      BY <2>3, <3>1
  <2>5. ~rly'.on
    BY <2>1, DriverIs
  <2>6. QED
    BY <2>1, <2>4, <2>5 DEF r, Reaches, ShownLabels, Faults
<1>8. CASE l = "off step?"
  <2> DEFINE r == [rly EXCEPT !.on = TRUE]
  <2>1. /\ rly' = rly /\ ~rly.on /\ w = TurnOff(r)
        /\ m = IF rly.step = 1 THEN "cancel" ELSE IF rly.step = 2 THEN "take off" ELSE "step 3"
    BY <1>8 DEF Writes, WritingLabels, Follows, Reaches
  <2>2. r \in Drivers /\ r.on /\ r.step = rly.step /\ r.contact = rly.contact /\ r.gate = rly.gate
        /\ r.age = rly.age
    BY FieldsTyped DEF Drivers
  <2> HIDE DEF r
  <2>3. w = IF rly.step = 1 THEN Driver(FALSE, 0, rly.age, rly.contact, FALSE)
            ELSE IF rly.step = 2 THEN Driver(FALSE, 3, 0, rly.contact, rly.gate)
            ELSE Driver(FALSE, 3, 0, rly.contact, TRUE)
    BY <2>1, <2>2, SwitchedIs
  <2>4. QED
    BY <2>1, <2>3 DEF Reaches, ShownLabels, Faults
<1>9. CASE l \in {"cancel", "step 0", "take off", "step 3"}
  <2>1. /\ l = "cancel" => rly' = Driver(rly.on, rly.step, rly.age, rly.contact, FALSE) /\ m = "step 0"
        /\ l = "step 0" => rly' = Driver(rly.on, 0, rly.age, rly.contact, rly.gate) /\ m = "event"
        /\ l = "take off" => rly' = Driver(rly.on, 3, rly.age, rly.contact, rly.gate) /\ m = "stamp"
        /\ l = "step 3" => /\ rly' = Driver(rly.on, 3, rly.age, rly.contact, rly.gate)
                           /\ m = "stamp and fire"
    BY <1>9, DriverIs DEF Writes, Follows
  <2>2. /\ ~rly.on
        /\ l = "cancel" => w = Driver(FALSE, 0, rly.age, rly.contact, FALSE)
        /\ l = "step 0" => w = Driver(FALSE, 0, rly.age, rly.contact, rly.gate)
        /\ l = "take off" => w = Driver(FALSE, 3, 0, rly.contact, rly.gate)
        /\ l = "step 3" => w = Driver(FALSE, 3, 0, rly.contact, TRUE)
    BY <1>9 DEF Reaches
  <2>3. rly.on = FALSE
    BY <1>1, <2>2
  <2>4. CASE l = "cancel"
    <3>1. rly'.on = rly.on /\ rly'.step = rly.step /\ rly'.age = rly.age /\ rly'.contact = rly.contact /\ rly'.gate = FALSE
      BY <2>4 DEF Writes, Drivers
    <3>2. QED
      BY <2>4, <2>1, <2>2, <2>3, <3>1 DEF Reaches, ShownLabels, Faults
  <2>5. CASE l = "step 0"
    <3>1. rly'.on = rly.on /\ rly'.step = 0 /\ rly'.age = rly.age /\ rly'.contact = rly.contact /\ rly'.gate = rly.gate
      BY <2>5 DEF Writes, Drivers
    <3>2. QED
      BY <2>5, <2>1, <2>2, <2>3, <3>1 DEF Reaches, ShownLabels, Faults
  <2>6. CASE l = "take off"
    <3>1. rly'.on = rly.on /\ rly'.step = 3 /\ rly'.age = rly.age /\ rly'.contact = rly.contact /\ rly'.gate = rly.gate
      BY <2>6 DEF Writes, Drivers
    <3>2. QED
      BY <2>6, <2>1, <2>2, <2>3, <3>1 DEF Reaches, ShownLabels, Faults
  <2>7. CASE l = "step 3"
    <3>1. rly'.on = rly.on /\ rly'.step = 3 /\ rly'.age = rly.age /\ rly'.contact = rly.contact /\ rly'.gate = rly.gate
      BY <2>7 DEF Writes, Drivers
    <3>2. QED
      BY <2>7, <2>1, <2>2, <2>3, <3>1 DEF Reaches, ShownLabels, Faults
  <2>8. QED
    BY <1>9, <2>4, <2>5, <2>6, <2>7
<1>10. CASE l \in {"stamp", "stamp and fire", "fire"}
  <2>1. /\ l = "stamp" => rly' = Driver(rly.on, rly.step, 0, rly.contact, rly.gate) /\ m = "event"
        /\ l = "stamp and fire" => /\ rly' = Driver(rly.on, rly.step, 0, rly.contact, rly.gate)
                                   /\ m = "fire"
        /\ l = "fire" => rly' = Driver(rly.on, rly.step, rly.age, rly.contact, TRUE) /\ m = "event"
    BY <1>10, DriverIs DEF Writes, Follows
  <2>2. /\ l = "stamp" => w = Driver(rly.on, rly.step, 0, rly.contact, rly.gate)
        /\ l = "stamp and fire" => w = Driver(rly.on, rly.step, 0, rly.contact, TRUE)
        /\ l = "fire" => w = Driver(rly.on, rly.step, rly.age, rly.contact, TRUE)
    BY <1>10 DEF Reaches
  <2>3. CASE l = "stamp"
    BY <2>3, <2>1, <2>2 DEF Reaches, ShownLabels, Faults
  <2>4. CASE l = "stamp and fire"
    <3>1. rly'.on = rly.on /\ rly'.step = rly.step /\ rly'.age = 0 /\ rly'.contact = rly.contact /\ rly'.gate = rly.gate
      BY <2>4 DEF Writes, Drivers
    <3>2. QED
      BY <2>4, <2>1, <2>2, <3>1 DEF Reaches, ShownLabels, Faults
  <2>5. CASE l = "fire"
    <3>1. rly'.on = rly.on /\ rly'.step = rly.step /\ rly'.age = rly.age /\ rly'.contact = rly.contact /\ rly'.gate = TRUE
      BY <2>5 DEF Writes, Drivers
    <3>2. QED
      BY <2>5, <2>1, <2>2, <3>1 DEF Reaches, ShownLabels, Faults
  <2>6. QED
    BY <1>10, <2>3, <2>4, <2>5
<1>11. CASE l = "event"
  <2>1. rly' = rly /\ w = rly /\ m \in ShownLabels
    BY <1>1, <1>11, ShowTyped DEF Writes, WritingLabels, Follows, Reaches, ShownLabels
  <2>2. QED
    BY <2>1 DEF Reaches, ShownLabels, Faults
<1>12. QED
  BY <1>2, <1>3, <1>4, <1>5, <1>6, <1>7, <1>8, <1>9, <1>10, <1>11
     DEF SwitchLabels, RelayStatements, LatchedLabels

\* Of the statements of one call, one changes what the pump draws, or none.
LEMMA PowerNext ==
  ASSUME rly \in Drivers, rly' \in Drivers, state \in States, mixed \in BOOLEAN,
         NEW l \in SwitchLabels \ (LatchedLabels \cup ShownLabels), NEW m,
         Follows(l, m), Writes(l, rly, rly'),
         mixed' = (mixed \/ Powered(rly') # Powered(rly)),
         NEW r \in Drivers, NEW x \in BOOLEAN,
         mixed = (x \/ Powered(rly) # Powered(r)),
         l \notin PoweredLabels => rly.contact = r.contact /\ rly.gate = r.gate
  PROVE  /\ mixed' = (x \/ Powered(rly') # Powered(r))
         /\ m \notin PoweredLabels => rly'.contact = r.contact /\ rly'.gate = r.gate
<1>1. /\ Powered(rly) \in BOOLEAN /\ Powered(rly') \in BOOLEAN /\ Powered(r) \in BOOLEAN
  BY DriverFields DEF Powered
<1>2. CASE l \in {"close", "cancel", "fire"}
  <2>1. m \in PoweredLabels /\ l \notin PoweredLabels
    BY <1>2 DEF Follows, PoweredLabels, ShownLabels, Faults
  <2>2. Powered(rly) = Powered(r)
    BY <2>1 DEF Powered
  <2>3. QED
    BY <1>1, <2>1, <2>2
<1>3. CASE l \notin {"close", "cancel", "fire"}
  <2>1. rly'.contact = rly.contact /\ rly'.gate = rly.gate
    BY <1>3 DEF Writes, WritingLabels, Drivers
  <2>2. Powered(rly') = Powered(rly)
    BY <2>1 DEF Powered
  <2>3. m \notin PoweredLabels => l \notin PoweredLabels
    <3>1. Show(state, rly.on) \in ShownLabels
      BY OnIsBoolean, ShowTyped DEF ShownLabels
    <3>2. l \in PoweredLabels => l \in {"step 2", "step 0", "stamp", "event"}
      BY DEF PoweredLabels
    <3>3. l \in {"step 2", "step 0", "stamp", "event"} => m \in PoweredLabels
      BY <3>1 DEF Follows, PoweredLabels
    <3>4. QED
      BY <3>2, <3>3
  <2>4. QED
    BY <1>1, <2>1, <2>2, <2>3
<1>4. QED
  BY <1>2, <1>3

\* What a call found, as far as its steps look at it.
FoundTyped(b) == b # None /\ b.rly \in Drivers /\ b.mixed \in BOOLEAN

LEMMA FoundIs ==
  ASSUME TasksBacked
  PROVE  /\ FoundTyped(Found)
         /\ Found.rly = rly /\ Found.latched = latched /\ Found.state = state
         /\ Found.timer = timer /\ Found.led = led /\ Found.mixed = mixed
         /\ Found.streak = streak /\ Found.stale = stale
<1>1. rly \in Drivers /\ mixed \in BOOLEAN
  BY DEF TasksBacked, BackedInv, PumpTypeOK
<1>2. DOMAIN Found # DOMAIN None
  BY DEF Found, None
<1>3. QED
  BY <1>1, <1>2 DEF Found, FoundTyped

\* A call in its middle: the next statement finds what it has done.
LEMMA SwitchNext ==
  ASSUME TasksBacked, TasksBacked', NEW t, NEW l, NEW m, Effect(t, l, m), l \notin ShownLabels,
         NEW b, FoundTyped(b), InSwitch(l, b)
  PROVE  InSwitch(m, b)'
<1>1. /\ rly \in Drivers /\ rly' \in Drivers /\ state \in States /\ mixed \in BOOLEAN
      /\ rly.on \in BOOLEAN
  BY OnIsBoolean DEF TasksBacked, BackedInv, PumpTypeOK
<1>2. /\ Follows(l, m) /\ Writes(l, rly, rly')
      /\ mixed' = (mixed \/ Powered(rly') # Powered(rly))
      /\ latched' = IF l \in {"on", "off"} THEN FALSE ELSE latched
      /\ led' = led /\ UNCHANGED <<state, timer, streak, stale>>
  BY DEF Effect, Watch, watched
<1>3. state' = b.state /\ timer' = b.timer /\ led' = b.led /\ streak' = b.streak /\ stale' = b.stale
  BY <1>2 DEF InSwitch
<1>4. Show(state, rly.on) \in ShownLabels
  BY <1>1, ShowTyped DEF ShownLabels
<1>5. m \in SwitchLabels
  <2>1. CASE l = "event"
    BY <1>2, <1>4, <2>1 DEF Follows, SwitchLabels
  <2>2. CASE l # "event"
    BY <1>2, <2>2 DEF Follows, InSwitch, SwitchLabels, RelayStatements
  <2>3. QED
    BY <2>1, <2>2
<1>6. CASE l = "toggle"
  <2>1. rly' = rly /\ m \in {"on", "off"} /\ latched' = latched
    BY <1>2, <1>6 DEF Writes, WritingLabels, Follows
  <2>2. rly = b.rly /\ mixed = b.mixed /\ latched = b.latched
    BY <1>6 DEF InSwitch, LatchedLabels
  <2>3. m \in LatchedLabels /\ mixed' = mixed
    BY <1>1, <1>2, <2>1 DEF LatchedLabels
  <2>4. QED
    BY <1>3, <1>5, <2>1, <2>2, <2>3 DEF InSwitch
<1>7. CASE l \in {"on", "off"}
  <2>1. rly' = rly /\ m \in {"on?", "off?"} /\ latched' = FALSE /\ mixed' = mixed
    BY <1>1, <1>2, <1>7 DEF Writes, WritingLabels, Follows
  <2>2. rly = b.rly /\ mixed = b.mixed
    BY <1>7 DEF InSwitch, LatchedLabels
  <2>3. mixed' = (b.mixed \/ Powered(rly') # Powered(b.rly))
    BY <2>1, <2>2 DEF FoundTyped
  <2>4. \E w \in {TurnOn(b.rly), TurnOff(b.rly)} : Reaches(m, rly', w)
    <3>1. CASE m = "on?"
      <4>1. Reaches(m, rly', TurnOn(b.rly))
        BY <2>1, <2>2, <3>1 DEF Reaches, ShownLabels, Faults
      <4>2. QED
        BY <4>1
    <3>2. CASE m = "off?"
      <4>1. Reaches(m, rly', TurnOff(b.rly))
        BY <2>1, <2>2, <3>2 DEF Reaches, ShownLabels, Faults
      <4>2. QED
        BY <4>1
    <3>3. QED
      BY <2>1, <3>1, <3>2
  <2>5. m \notin LatchedLabels /\ m \notin PoweredLabels /\ m \notin ShownLabels
    BY <2>1 DEF LatchedLabels, PoweredLabels, ShownLabels, Faults
  <2>6. rly'.contact = b.rly.contact /\ rly'.gate = b.rly.gate
    BY <2>1, <2>2
  <2>7. QED
    BY <1>3, <1>5, <2>1, <2>3, <2>4, <2>5, <2>6 DEF InSwitch
<1>8. CASE l \notin LatchedLabels
  <2>1. PICK w \in {TurnOn(b.rly), TurnOff(b.rly)} : Reaches(l, rly, w)
    BY <1>8 DEF InSwitch
  <2>2. /\ latched = FALSE /\ mixed = (b.mixed \/ Powered(rly) # Powered(b.rly))
        /\ l \notin PoweredLabels => rly.contact = b.rly.contact /\ rly.gate = b.rly.gate
        /\ l \in SwitchLabels \ (LatchedLabels \cup ShownLabels)
    BY <1>8 DEF InSwitch
  <2>3. Reaches(m, rly', w)
    BY <1>1, <1>2, <2>1, <2>2, ReachesNext
  <2>4. /\ mixed' = (b.mixed \/ Powered(rly') # Powered(b.rly))
        /\ m \notin PoweredLabels => rly'.contact = b.rly.contact /\ rly'.gate = b.rly.gate
    BY <1>1, <1>2, <2>2, PowerNext DEF FoundTyped
  <2>5. latched' = FALSE
    BY <1>2, <2>2
  <2>6. m \notin LatchedLabels
    <3>1. CASE l = "event"
      BY <1>2, <1>4, <3>1 DEF Follows, LatchedLabels, ShownLabels, Faults
    <3>2. CASE l # "event"
      BY <1>2, <2>2, <3>2 DEF Follows, SwitchLabels, RelayStatements, LatchedLabels
    <3>3. QED
      BY <3>1, <3>2
  <2>7. m \in ShownLabels => m = Show(state', rly'.on)
    <3>1. CASE l = "event"
      BY <1>2, <3>1 DEF Follows, Writes, WritingLabels
    <3>2. CASE l # "event"
      BY <1>2, <2>2, <3>2 DEF Follows, SwitchLabels, RelayStatements, ShownLabels, Faults, LatchedLabels
    <3>3. QED
      BY <3>1, <3>2
  <2>8. QED
    BY <1>3, <1>5, <2>1, <2>3, <2>4, <2>5, <2>6, <2>7 DEF InSwitch
<1>9. QED
  BY <1>6, <1>7, <1>8 DEF LatchedLabels

\* A statement that is not the last of its call is not seen.
LEMMA MidCall ==
  ASSUME before # None, before' = before, UNCHANGED <<cfg, load, sample>>
  PROVE  UNCHANGED Serial!pumpVars
BY DEF Seen, Serial!pumpVars

\* The last statement of turnOn() or turnOff() is all of it.
LEMMA SwitchEnds ==
  ASSUME TasksBacked, NEW t, NEW l \in ShownLabels, NEW m, Effect(t, l, m),
         FoundTyped(before), InSwitch(l, before)
  PROVE  before' = None /\ m = "idle" /\ Serial!PumpNext
<1>1. /\ Go(t, l, m) /\ Follows(l, m) /\ Writes(l, rly, rly')
      /\ mixed' = (mixed \/ Powered(rly') # Powered(rly))
      /\ latched' = IF l \in {"on", "off"} THEN FALSE ELSE latched
      /\ led' = l /\ UNCHANGED <<cfg, state, timer, load, sample, streak, stale>>
  BY DEF Effect, Watch, plantVars, watched
<1>2. l \notin LatchedLabels \cup WritingLabels
  BY DEF LatchedLabels, WritingLabels, ShownLabels, Faults
<1>3. m = "idle"
  BY <1>1 DEF Follows
<1>4. before' = None
  BY <1>1, <1>3 DEF Go
<1>5. /\ rly' = rly /\ mixed \in BOOLEAN
  BY <1>1, <1>2 DEF Writes, TasksBacked, BackedInv, PumpTypeOK
<1>6. PICK w \in {TurnOn(before.rly), TurnOff(before.rly)} : Reaches(l, rly, w)
  BY <1>2 DEF InSwitch
<1>7. rly' = w
  BY <1>5, <1>6 DEF Reaches
<1>8. /\ state = before.state /\ timer = before.timer /\ streak = before.streak
      /\ stale = before.stale /\ latched = FALSE /\ mixed = (before.mixed \/ Powered(rly) # Powered(before.rly))
      /\ l = Show(state, rly.on)
  BY <1>2 DEF InSwitch
<1>9. /\ Seen("rly") = before.rly /\ Seen("state") = before.state /\ Seen("timer") = before.timer
      /\ Seen("mixed") = before.mixed /\ Seen("streak") = before.streak
      /\ Seen("stale") = before.stale
  BY SeenFields DEF FoundTyped
<1>10. /\ Seen("rly")' = w /\ Seen("latched")' = FALSE /\ Seen("state")' = before.state
       /\ Seen("timer")' = before.timer /\ Seen("streak")' = before.streak
       /\ Seen("stale")' = before.stale
       /\ Seen("led")' = Show(before.state, w.on)
       /\ Seen("mixed")' = (before.mixed \/ Powered(w) # Powered(before.rly))
  <2>1. /\ Seen("rly")' = rly' /\ Seen("latched")' = latched' /\ Seen("state")' = state'
        /\ Seen("timer")' = timer' /\ Seen("led")' = led' /\ Seen("mixed")' = mixed'
        /\ Seen("streak")' = streak' /\ Seen("stale")' = stale'
    BY <1>4 DEF Seen, Found
  <2>2. mixed' = mixed
    BY <1>1, <1>5
  <2>3. latched' = FALSE
    BY <1>1, <1>2, <1>8 DEF LatchedLabels
  <2>4. QED
    BY <1>1, <1>5, <1>7, <1>8, <2>1, <2>2, <2>3
<1>11. Serial!SwitchRelay(w)
  BY <1>1, <1>9, <1>10, SameOperators DEF Serial!SwitchRelay, Serial!Watch, Serial!plantVars, Serial!watched
<1>12. Serial!PumpOn \/ Serial!PumpOff
  BY <1>6, <1>9, <1>11, SameOperators DEF Serial!PumpOn, Serial!PumpOff
<1>13. QED
  BY <1>3, <1>4, <1>12 DEF Serial!PumpNext, Serial!Command

\* What clearPumpFault() has done when it ends, in one step.
LEMMA ClearEnds ==
  ASSUME FoundTyped(before), before' = None, UNCHANGED <<rly, cfg, load, sample, mixed>>,
         rly = before.rly, mixed = before.mixed,
         latched' = FALSE, timer' = NoTimers, streak' = [f \in Faults |-> 0], stale' = {},
         IF before.state \in Faults THEN state' = "OFF" /\ led' = Show("OFF", rly.on)
                                    ELSE state' = before.state /\ led' = before.led
  PROVE  Serial!PumpNext
<1>1. /\ Seen("rly") = before.rly /\ Seen("state") = before.state /\ Seen("led") = before.led
      /\ Seen("mixed") = before.mixed
  BY SeenFields DEF FoundTyped
<1>2. /\ Seen("rly")' = rly' /\ Seen("latched")' = latched' /\ Seen("state")' = state'
      /\ Seen("timer")' = timer' /\ Seen("led")' = led' /\ Seen("mixed")' = mixed'
      /\ Seen("streak")' = streak' /\ Seen("stale")' = stale'
  BY DEF Seen, Found
<1>3. Serial!ClearPumpFault
  BY <1>1, <1>2, SameOperators DEF Serial!ClearPumpFault, Serial!plantVars, Serial!watched
<1>4. QED
  BY <1>3 DEF Serial!PumpNext, Serial!Command

\* The event of clearPumpFault(), raised and shown like that of the other calls.
LEMMA ClearedNext ==
  ASSUME TasksBacked, NEW t, NEW l, NEW m, Effect(t, l, m),
         FoundTyped(before), InClear(l, before)
  PROVE  IF l = "event" THEN before' = before /\ m # "idle" /\ InClear(m, before)'
                        ELSE before' = None /\ m = "idle" /\ Serial!PumpNext
<1>1. /\ Go(t, l, m) /\ l \in SwitchLabels /\ Follows(l, m) /\ Writes(l, rly, rly')
      /\ mixed' = (mixed \/ Powered(rly') # Powered(rly))
      /\ latched' = IF l \in {"on", "off"} THEN FALSE ELSE latched
      /\ led' = IF l \in ShownLabels THEN l ELSE led
      /\ UNCHANGED <<cfg, state, timer, load, sample, streak, stale>>
  BY DEF Effect, Watch, plantVars, watched
<1>2. l \in {"event"} \cup ShownLabels
  BY <1>1 DEF InClear, SwitchLabels, RelayStatements, ShownLabels, Faults
<1>3. l \notin WritingLabels \cup LatchedLabels \cup {"clear", "timers", "fault?", "state"}
  BY <1>2 DEF WritingLabels, LatchedLabels, ShownLabels, Faults
<1>4. rly' = rly /\ latched' = latched /\ mixed \in BOOLEAN
  BY <1>1, <1>3 DEF Writes, LatchedLabels, TasksBacked, BackedInv, PumpTypeOK
<1>5. mixed' = mixed
  BY <1>1, <1>4
<1>6. /\ rly = before.rly /\ mixed = before.mixed /\ led = before.led /\ latched = FALSE
      /\ timer = NoTimers /\ streak = [f \in Faults |-> 0] /\ stale = {}
      /\ state = "OFF" /\ before.state \in Faults
      /\ l \in ShownLabels => l = Show(state, rly.on)
  BY <1>2, <1>3 DEF InClear
<1>7. CASE l = "event"
  <2>1. m = Show(state, rly.on) /\ l \notin ShownLabels
    BY <1>1, <1>7 DEF Follows, ShownLabels, Faults
  <2>2. m \in ShownLabels
    BY <2>1, OnIsBoolean, ShowTyped DEF ShownLabels, TasksBacked, BackedInv, PumpTypeOK
  <2>3. m # "idle" /\ m \notin {"clear", "timers", "fault?", "state"}
    BY <2>2 DEF ShownLabels, Faults
  <2>4. before' = before
    BY <1>1, <2>3 DEF Go
  <2>5. /\ rly' = before.rly /\ mixed' = before.mixed /\ led' = before.led /\ latched' = FALSE
        /\ timer' = NoTimers /\ streak' = [f \in Faults |-> 0] /\ stale' = {}
        /\ state' = "OFF" /\ m = Show(state', rly'.on)
    BY <1>1, <1>4, <1>5, <1>6, <2>1
  <2>6. InClear(m, before)'
    BY <1>6, <2>2, <2>3, <2>4, <2>5 DEF InClear
  <2>7. QED
    BY <1>7, <2>3, <2>4, <2>6
<1>8. CASE l \in ShownLabels
  <2>1. m = "idle" /\ l # "event"
    BY <1>1, <1>8 DEF Follows, ShownLabels, Faults
  <2>2. before' = None
    BY <1>1, <2>1 DEF Go
  <2>3. led' = Show("OFF", rly.on)
    BY <1>1, <1>6, <1>8
  <2>4. Serial!PumpNext
    BY <1>1, <1>4, <1>5, <1>6, <2>2, <2>3, ClearEnds
  <2>5. QED
    BY <2>1, <2>2, <2>4
<1>9. QED
  BY <1>2, <1>7, <1>8

\* One call at a time.
Alone(t) == t \in Callers /\ \A u \in Callers \ {t} : pc[u] = "idle"

LEMMA CallLabels ==
  ASSUME NEW l, NEW b, InSwitch(l, b) \/ InClear(l, b)
  PROVE  l # "idle"
BY DEF InSwitch, InClear, SwitchLabels, RelayStatements, ShownLabels, Faults

\* The step of a serial behaviour, where this one is serial.
SerialStep == SerialInv' /\ (preempt \/ Serial!PumpNext \/ UNCHANGED Serial!pumpVars)

LEMMA EffectSerial ==
  ASSUME TasksBacked, TasksBacked', SerialInv, ~preempt, NEW t, NEW m \in Labels,
         Effect(t, pc[t], m), outrun' \in BOOLEAN
  PROVE  SerialStep
<1> DEFINE l == pc[t]
<1>1. /\ t \in Callers /\ pc'[t] = m /\ \A u \in Callers \ {t} : pc'[u] = pc[u]
      /\ Callers' = Callers /\ preempt' = preempt
      /\ before' = IF m = "idle" THEN None ELSE before
  BY GoTyped DEF Effect, TasksBacked, Go
<1>2. l \in SwitchLabels /\ UNCHANGED <<cfg, load, sample>>
  BY DEF Effect, plantVars, watched
<1>3. l # "idle"
  BY <1>2 DEF SwitchLabels, RelayStatements, ShownLabels, Faults
<1>4. /\ Alone(t) /\ FoundTyped(before)
      /\ InSwitch(l, before) \/ InClear(l, before)
  BY <1>1, <1>3 DEF SerialInv, Idle, Alone, FoundTyped
<1>5. \A u \in Callers' \ {t} : pc'[u] = "idle"
  BY <1>1, <1>4 DEF Alone
<1>6. CASE InSwitch(l, before) /\ l \notin ShownLabels
  <2>1. PICK b : b = before
    OBVIOUS
  <2>2. InSwitch(m, b)'
    BY <1>4, <1>6, <2>1, SwitchNext
  <2>3. m # "idle"
    BY <2>2 DEF InSwitch, SwitchLabels, RelayStatements, ShownLabels, Faults
  <2>4. before' = before
    BY <1>1, <2>3
  <2>5. InSwitch(m, before)'
    BY <2>1, <2>2, <2>4 DEF InSwitch
  <2>6. SerialInv'
    BY <1>1, <1>4, <1>5, <2>4, <2>5 DEF SerialInv, FoundTyped
  <2>7. UNCHANGED Serial!pumpVars
    BY <1>2, <1>4, <2>4, MidCall DEF FoundTyped
  <2>8. QED
    BY <2>6, <2>7 DEF SerialStep
<1>7. CASE InSwitch(l, before) /\ l \in ShownLabels
  <2>1. before' = None /\ m = "idle" /\ Serial!PumpNext
    BY <1>4, <1>7, SwitchEnds
  <2>2. SerialInv'
    BY <1>1, <1>5, <2>1 DEF SerialInv, Idle
  <2>3. QED
    BY <2>1, <2>2 DEF SerialStep
<1>8. CASE InClear(l, before) /\ l = "event"
  <2>1. before' = before /\ InClear(m, before)'
    BY <1>4, <1>8, ClearedNext
  <2>2. SerialInv'
    BY <1>1, <1>4, <1>5, <2>1 DEF SerialInv, FoundTyped
  <2>3. UNCHANGED Serial!pumpVars
    BY <1>2, <1>4, <2>1, MidCall DEF FoundTyped
  <2>4. QED
    BY <2>2, <2>3 DEF SerialStep
<1>9. CASE InClear(l, before) /\ l # "event"
  <2>1. before' = None /\ m = "idle" /\ Serial!PumpNext
    BY <1>4, <1>9, ClearedNext
  <2>2. SerialInv'
    BY <1>1, <1>5, <2>1 DEF SerialInv, Idle
  <2>3. QED
    BY <2>1, <2>2 DEF SerialStep
<1>10. QED
  BY <1>4, <1>6, <1>7, <1>8, <1>9

LEMMA ClearSerial ==
  ASSUME TasksBacked, SerialInv, ~preempt, NEW l, NEW m \in Labels, ClearEffect(l, m)
  PROVE  SerialStep
<1>1. Go("net", l, m) /\ UNCHANGED <<rly, cfg, led, load, sample, mixed>> /\ outrun' \in BOOLEAN
  BY DEF ClearEffect, TasksBacked, TasksTypeOK
<1>2. /\ "net" \in Callers /\ pc["net"] = l /\ pc'["net"] = m
      /\ \A u \in Callers \ {"net"} : pc'[u] = pc[u]
      /\ Callers' = Callers /\ preempt' = preempt
      /\ before' = IF m = "idle" THEN None ELSE before
  BY <1>1, GoTyped DEF TasksBacked, Go
<1>3. l \in {"clear", "timers", "fault?", "state"}
  BY DEF ClearEffect
<1>4. l \notin SwitchLabels /\ l # "idle"
  BY <1>3 DEF SwitchLabels, RelayStatements, ShownLabels, Faults
<1>5. Alone("net") /\ FoundTyped(before) /\ InClear(l, before)
  BY <1>2, <1>4 DEF SerialInv, Idle, Alone, FoundTyped, InSwitch
<1>6. \A u \in Callers' \ {"net"} : pc'[u] = "idle"
  BY <1>2, <1>5 DEF Alone
<1>7. /\ rly = before.rly /\ mixed = before.mixed /\ led = before.led
      /\ latched = (IF l = "clear" THEN before.latched ELSE FALSE)
      /\ l \in {"clear", "timers"} =>
           timer = before.timer /\ streak = before.streak /\ stale = before.stale
      /\ l \notin {"clear", "timers"} =>
           timer = NoTimers /\ streak = [f \in Faults |-> 0] /\ stale = {}
      /\ state = before.state /\ (l = "state" => before.state \in Faults)
  BY <1>3, <1>5 DEF InClear
<1>8. CASE m = "idle"
  <2>1. l = "fault?" /\ state \notin Faults /\ UNCHANGED <<state, latched, timer, streak, stale>>
    BY <1>8 DEF ClearEffect
  <2>2. before' = None
    BY <1>2, <1>8
  <2>3. /\ latched' = FALSE /\ timer' = NoTimers /\ streak' = [f \in Faults |-> 0]
        /\ stale' = {} /\ before.state \notin Faults /\ state' = before.state /\ led' = before.led
    BY <1>1, <1>7, <2>1
  <2>4. Serial!PumpNext
    BY <1>1, <1>5, <1>7, <2>2, <2>3, ClearEnds
  <2>5. SerialInv'
    BY <1>2, <1>6, <1>8, <2>2 DEF SerialInv, Idle
  <2>6. QED
    BY <2>4, <2>5 DEF SerialStep
<1>9. CASE m # "idle"
  <2>1. before' = before
    BY <1>2, <1>9
  <2>2. rly' = before.rly /\ mixed' = before.mixed /\ led' = before.led
    BY <1>1, <1>7
  <2>3. InClear(m, before)'
    <3>1. CASE l = "clear"
      <4>1. m = "timers" /\ latched' = FALSE /\ UNCHANGED <<state, timer, streak, stale>>
        BY <3>1 DEF ClearEffect
      <4>2. QED
        BY <1>7, <2>1, <2>2, <3>1, <4>1 DEF InClear, ShownLabels, Faults
    <3>2. CASE l = "timers"
      <4>1. /\ m = "fault?" /\ UNCHANGED <<state, latched>>
            /\ timer' = NoTimers /\ streak' = [f \in Faults |-> 0] /\ stale' = {}
        BY <3>2 DEF ClearEffect
      <4>2. QED
        BY <1>7, <2>1, <2>2, <3>2, <4>1 DEF InClear, ShownLabels, Faults
    <3>3. CASE l = "fault?"
      <4>1. m = "state" /\ state \in Faults /\ UNCHANGED <<state, latched, timer, streak, stale>>
        BY <1>9, <3>3 DEF ClearEffect
      <4>2. QED
        BY <1>7, <2>1, <2>2, <3>3, <4>1 DEF InClear, ShownLabels, Faults
    <3>4. CASE l = "state"
      <4>1. m = "event" /\ state' = "OFF" /\ UNCHANGED <<latched, timer, streak, stale>>
        BY <3>4 DEF ClearEffect
      <4>2. QED
        BY <1>7, <2>1, <2>2, <3>4, <4>1 DEF InClear, ShownLabels, Faults
    <3>5. QED
      BY <1>3, <3>1, <3>2, <3>3, <3>4
  <2>4. SerialInv'
    BY <1>2, <1>5, <1>6, <2>1, <2>3 DEF SerialInv, FoundTyped
  <2>5. UNCHANGED Serial!pumpVars
    BY <1>1, <1>5, <2>1, MidCall DEF FoundTyped
  <2>6. QED
    BY <2>4, <2>5 DEF SerialStep
<1>10. QED
  BY <1>8, <1>9

LEMMA BeginSerial ==
  ASSUME TasksBacked, TasksBacked', SerialInv, ~preempt, Receive \/ Click
  PROVE  SerialStep
<1>1. PICK t \in Callers, call \in FirstLabels :
        /\ Begin(t, call) /\ Callers' = Callers
        /\ pc[t] = "idle" /\ pc'[t] = call /\ \A u \in Callers \ {t} : pc'[u] = pc[u]
        /\ call = "clear" => t = "net"
  BY BeginIs
<1>2. /\ Idle /\ before' = Found /\ UNCHANGED <<rly, cfg, state, latched, timer, led, load,
                                                mixed, sample, streak, stale, preempt>>
  BY <1>1 DEF Begin, pumpVars
<1>3. before = None
  BY <1>2, CallLabels DEF SerialInv, Idle
<1>4. /\ FoundTyped(before')
      /\ before'.rly = rly /\ before'.latched = latched /\ before'.state = state
      /\ before'.timer = timer /\ before'.led = led /\ before'.mixed = mixed
      /\ before'.streak = streak /\ before'.stale = stale
  BY <1>2, FoundIs
<1>5. InSwitch(call, before)' \/ InClear(call, before)'
  <2>1. CASE call = "clear"
    BY <1>2, <1>4, <2>1 DEF InClear, ShownLabels, Faults
  <2>2. CASE call \in {"on", "off", "toggle"}
    <3>1. call \in SwitchLabels /\ call \in LatchedLabels
      BY <2>2 DEF SwitchLabels, LatchedLabels
    <3>2. QED
      BY <1>2, <1>4, <3>1 DEF InSwitch
  <2>3. QED
    BY <2>1, <2>2 DEF FirstLabels
<1>6. SerialInv'
  BY <1>1, <1>2, <1>4, <1>5 DEF SerialInv, Idle, FoundTyped
<1>7. UNCHANGED Serial!pumpVars
  <2>1. /\ Seen("rly") = rly /\ Seen("latched") = latched /\ Seen("state") = state
        /\ Seen("timer") = timer /\ Seen("led") = led /\ Seen("mixed") = mixed
        /\ Seen("streak") = streak /\ Seen("stale") = stale
    BY <1>3, SeenFields
  <2>2. before' # None
    BY <1>4 DEF FoundTyped
  <2>3. /\ Seen("rly")' = rly /\ Seen("latched")' = latched /\ Seen("state")' = state
        /\ Seen("timer")' = timer /\ Seen("led")' = led /\ Seen("mixed")' = mixed
        /\ Seen("streak")' = streak /\ Seen("stale")' = stale
    BY <1>4, <2>2 DEF Seen
  <2>4. QED
    BY <1>2, <2>1, <2>3 DEF Serial!pumpVars
<1>8. QED
  BY <1>6, <1>7 DEF SerialStep

LEMMA BetweenSerial ==
  ASSUME TasksBacked, SerialInv, ~preempt, Sense \/ Pass \/ PressLong
  PROVE  SerialStep
<1>1. /\ Idle /\ UNCHANGED <<pc, preempt, before>>
      /\ Update \/ Measure \/ ChangeLoad \/ Tick \/ LongPress
  BY DEF Sense, Pass, PressLong
<1>2. before = None
  BY <1>1, CallLabels DEF SerialInv, Idle
<1>3. Serial!PumpNext
  BY <1>1, <1>2, IdleSteps
<1>4. SerialInv'
  BY <1>1, <1>2 DEF SerialInv, Idle, Callers
<1>5. QED
  BY <1>3, <1>4 DEF SerialStep

LEMMA SerialSteps ==
  ASSUME TasksBacked, TasksBacked', SerialInv, [TasksNext]_taskVars
  PROVE  SerialStep
<1>1. CASE UNCHANGED taskVars
  BY <1>1 DEF SerialStep, SerialInv, InSwitch, InClear, Idle, Callers, Seen, Found, Serial!pumpVars,
              taskVars, pumpVars
<1>2. CASE preempt /\ [TasksNext]_taskVars
  <2>1. preempt' = preempt
    BY <1>2, TasksSteps DEF Effect, ClearEffect, Go, Receive, Click, Begin, Sense, Pass, PressLong, taskVars
  <2>2. QED
    BY <1>2, <2>1 DEF SerialStep, SerialInv
<1>3. QED
  BY <1>1, <1>2, TasksSteps, EffectSerial, ClearSerial, BeginSerial, BetweenSerial

\* Without preemption the statements of turnOn(), turnOff(), toggle() and clearPumpFault()
\* are the atomic calls of PumpController, whichever tasks call and whatever the driver,
\* the settings and the currents are: PumpTasks implements PumpController.
THEOREM CallsAtomic == TasksSafety => CallsAreAtomic
<1>1. ASSUME TasksInit PROVE SerialInv /\ Serial!PumpInit
  <2>1. before = None /\ Idle /\ PumpInit
    BY <1>1, CallersTyped DEF TasksInit, Idle
  <2>2. Serial!PumpInit
    BY <2>1, SeenFields, SameOperators DEF PumpInit, Serial!PumpInit
  <2>3. QED
    BY <2>1, <2>2 DEF SerialInv
<1>2. TasksBacked /\ TasksBacked' /\ SerialInv /\ [TasksNext]_taskVars
        => SerialInv' /\ [preempt \/ Serial!PumpNext]_(Serial!pumpVars)
  BY SerialSteps DEF SerialStep
<1>3. QED
  BY TasksTypeCorrect, <1>1, <1>2, PTL DEF TasksSafety, CallsAreAtomic
=============================================================================
