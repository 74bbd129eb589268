---------------------------- MODULE Relay_proofs ----------------------------
(***************************************************************************)
(* Proofs about the relay driver for every pair of settle times: lemmas on *)
(* its operations, cited wherever a proof calls turnOn(), turnOff() or     *)
(* handle(); its type, the step table, the arc-free contact and the        *)
(* refinement of HybridSwitch (safety part; its liveness is model-checked  *)
(* only).                                                                  *)
(***************************************************************************)
EXTENDS RelayTiming, TLAPS

USE SettleAssumption

(***************************************************************************)
(* What each operation of the driver returns.                              *)
(***************************************************************************)

\* Every operation keeps a driver state a driver state.
LEMMA OperationsTyped ==
  ASSUME NEW r \in Drivers
  PROVE  /\ TurnOn(r) \in Drivers
         /\ TurnOff(r) \in Drivers
         /\ Handle(r) \in Drivers
         /\ Older(r) \in Drivers
<1>1. MaxAge \in Nat
  BY DEF MaxAge
<1>2. TurnOn(r) \in Drivers
  BY <1>1 DEF Drivers, Driver, TurnOn
<1>3. TurnOff(r) \in Drivers
  BY <1>1 DEF Drivers, Driver, TurnOff
<1>4. Handle(r) \in Drivers
  BY <1>1 DEF Drivers, Driver, Handle
<1>5. Older(r) \in Drivers
  BY <1>1 DEF Drivers, Older
<1>6. QED
  BY <1>2, <1>3, <1>4, <1>5

\* The fields of a driver state, one by one.
LEMMA DriverFields ==
  ASSUME NEW r \in Drivers
  PROVE  /\ r.on \in BOOLEAN /\ r.contact \in BOOLEAN /\ r.gate \in BOOLEAN
         /\ r.step \in {0, 1, 2, 3, 4}
         /\ r.age \in Nat
         /\ MaxAge \in Nat
<1>1. MaxAge \in Nat
  BY DEF MaxAge
<1>2. r.step \in 0..4 /\ r.age \in 0..MaxAge
  BY DEF Drivers
<1>3. QED
  BY <1>1, <1>2 DEF Drivers

\* turnOn() on a state of the step table: the only four things it does.
LEMMA TurnOnResult ==
  ASSUME NEW r \in Drivers, PinsMatchStep(r)
  PROVE  \/ r.on /\ TurnOn(r) = r
         \/ ~r.on /\ r.step = 0 /\ ~r.contact /\ ~r.gate
              /\ TurnOn(r) = Driver(TRUE, 1, 0, FALSE, TRUE)
         \/ ~r.on /\ r.step = 3 /\ r.contact /\ r.gate
              /\ TurnOn(r) = Driver(TRUE, 2, 0, TRUE, TRUE)
         \/ ~r.on /\ r.step = 4 /\ ~r.contact /\ r.gate
              /\ TurnOn(r) = Driver(TRUE, 2, 0, TRUE, TRUE)
<1>1. CASE r.on
  BY <1>1 DEF TurnOn
<1>2. CASE ~r.on
  <2>1. r.step \in {0, 3, 4}
    BY <1>2, DriverFields DEF PinsMatchStep
  <2>2. CASE r.step = 0
    <3>1. r.contact = FALSE /\ r.gate = FALSE
      BY <1>2, <2>2, DriverFields DEF PinsMatchStep
    <3>2. TurnOn(r) = Driver(TRUE, 1, 0, r.contact, TRUE)
      BY <1>2, <2>2 DEF TurnOn
    <3>3. QED
      BY <1>2, <2>2, <3>1, <3>2
  <2>3. CASE r.step = 3
    <3>1. r.contact = TRUE /\ r.gate = TRUE
      BY <2>3, DriverFields DEF PinsMatchStep
    <3>2. TurnOn(r) = Driver(TRUE, 2, 0, r.contact, r.gate)
      BY <1>2, <2>3 DEF TurnOn
    <3>3. QED
      BY <1>2, <2>3, <3>1, <3>2
  <2>4. CASE r.step = 4
    <3>1. r.contact = FALSE /\ r.gate = TRUE
      BY <2>4, DriverFields DEF PinsMatchStep
    <3>2. TurnOn(r) = Driver(TRUE, 2, 0, TRUE, r.gate)
      BY <1>2, <2>4 DEF TurnOn
    <3>3. QED
      BY <1>2, <2>4, <3>1, <3>2
  <2>5. QED
    BY <2>1, <2>2, <2>3, <2>4
<1>3. QED
  BY <1>1, <1>2

\* turnOff() on a state of the step table.
LEMMA TurnOffResult ==
  ASSUME NEW r \in Drivers, PinsMatchStep(r)
  PROVE  \/ ~r.on /\ TurnOff(r) = r
         \/ r.on /\ r.step = 0 /\ r.contact /\ ~r.gate
              /\ TurnOff(r) = Driver(FALSE, 3, 0, TRUE, TRUE)
         \/ r.on /\ r.step = 1 /\ ~r.contact /\ r.gate
              /\ TurnOff(r) = Driver(FALSE, 0, r.age, FALSE, FALSE)
         \/ r.on /\ r.step = 2 /\ r.contact /\ r.gate
              /\ TurnOff(r) = Driver(FALSE, 3, 0, TRUE, TRUE)
<1>1. CASE ~r.on
  <2>1. r.step \in {0, 3, 4}
    BY <1>1, DriverFields DEF PinsMatchStep
  <2>2. TurnOff(r) = r
    BY <1>1, <2>1 DEF TurnOff, Driver, Drivers
  <2>3. QED
    BY <1>1, <2>2
<1>2. CASE r.on
  <2>1. r.step \in {0, 1, 2}
    BY <1>2, DriverFields DEF PinsMatchStep
  <2>2. CASE r.step = 0
    <3>1. r.contact = TRUE /\ r.gate = FALSE
      BY <1>2, <2>2, DriverFields DEF PinsMatchStep
    <3>2. TurnOff(r) = Driver(FALSE, 3, 0, r.contact, TRUE)
      BY <1>2, <2>2 DEF TurnOff
    <3>3. QED
      BY <1>2, <2>2, <3>1, <3>2
  <2>3. CASE r.step = 1
    <3>1. r.contact = FALSE /\ r.gate = TRUE
      BY <2>3, DriverFields DEF PinsMatchStep
    <3>2. TurnOff(r) = Driver(FALSE, 0, r.age, r.contact, FALSE)
      BY <1>2, <2>3 DEF TurnOff
    <3>3. QED
      BY <1>2, <2>3, <3>1, <3>2
  <2>4. CASE r.step = 2
    <3>1. r.contact = TRUE /\ r.gate = TRUE
      BY <2>4, DriverFields DEF PinsMatchStep
    <3>2. TurnOff(r) = Driver(FALSE, 3, 0, r.contact, r.gate)
      BY <1>2, <2>4 DEF TurnOff
    <3>3. QED
      BY <1>2, <2>4, <3>1, <3>2
  <2>5. QED
    BY <2>1, <2>2, <2>3, <2>4
<1>3. QED
  BY <1>1, <1>2

\* handle() on a state of the step table.
LEMMA HandleResult ==
  ASSUME NEW r \in Drivers, PinsMatchStep(r)
  PROVE  \/ Handle(r) = r
         \/ r.step = 1 /\ r.age >= TriacSettle /\ r.on /\ ~r.contact /\ r.gate
              /\ Handle(r) = Driver(TRUE, 2, 0, TRUE, TRUE)
         \/ r.step = 3 /\ r.age >= TriacSettle /\ ~r.on /\ r.contact /\ r.gate
              /\ Handle(r) = Driver(FALSE, 4, 0, FALSE, TRUE)
         \/ r.step \in {2, 4} /\ r.age >= RelaySettle /\ r.contact = r.on /\ r.gate
              /\ Handle(r) = Driver(r.on, 0, r.age, r.contact, FALSE)
<1>1. CASE r.step = 1 /\ r.age >= TriacSettle
  <2>1. r.on = TRUE /\ r.contact = FALSE /\ r.gate = TRUE
    BY <1>1, DriverFields DEF PinsMatchStep
  <2>2. Handle(r) = Driver(r.on, 2, 0, TRUE, r.gate)
    BY <1>1, DriverFields DEF Handle, Driver
  <2>3. QED
    BY <1>1, <2>1, <2>2
<1>2. CASE r.step = 3 /\ r.age >= TriacSettle
  <2>1. r.on = FALSE /\ r.contact = TRUE /\ r.gate = TRUE
    BY <1>2, DriverFields DEF PinsMatchStep
  <2>2. Handle(r) = Driver(r.on, 4, 0, FALSE, r.gate)
    BY <1>2, DriverFields DEF Handle, Driver
  <2>3. QED
    BY <1>2, <2>1, <2>2
<1>3. CASE r.step \in {2, 4} /\ r.age >= RelaySettle
  <2>1. r.contact = r.on /\ r.gate = TRUE
    BY <1>3, DriverFields DEF PinsMatchStep
  <2>2. Handle(r) = Driver(r.on, 0, r.age, r.contact, FALSE)
    BY <1>3, DriverFields DEF Handle, Driver
  <2>3. QED
    BY <1>3, <2>1, <2>2
<1>4. CASE /\ ~(r.step = 1 /\ r.age >= TriacSettle)
           /\ ~(r.step = 3 /\ r.age >= TriacSettle)
           /\ ~(r.step \in {2, 4} /\ r.age >= RelaySettle)
  BY <1>4 DEF Handle
<1>5. QED
  BY <1>1, <1>2, <1>3, <1>4

\* What each operation does to the commanded state.
LEMMA OperationsCommand ==
  ASSUME NEW r \in Drivers
  PROVE  /\ TurnOn(r).on
         /\ ~TurnOff(r).on
         /\ Handle(r).on = r.on
         /\ Older(r).on = r.on
<1>1. TurnOn(r).on
  BY DEF TurnOn, Driver, Drivers
<1>2. ~TurnOff(r).on
  BY DEF TurnOff, Driver, Drivers
<1>3. Handle(r).on = r.on
  BY DEF Handle, Driver, Drivers
<1>4. Older(r).on = r.on
  BY DEF Older, Drivers
<1>5. QED
  BY <1>1, <1>2, <1>3, <1>4


-----------------------------------------------------------------------------
(***************************************************************************)
(* The inductive invariant. The driver's one time stamp is enough because  *)
(* it is never older than the pin change it stands for.                    *)
(***************************************************************************)

\* The invariant holds when the driver has begun.
LEMMA InitConsistent == TimingInit => TimingInv
<1>1. SUFFICES ASSUME TimingInit PROVE Consistent(rly, TriacSettle, RelaySettle)
  BY DEF TimingInit, TimingInv
<1>2. MaxAge \in 0..MaxAge
  BY DEF MaxAge
<1>3. rly \in Drivers /\ ~rly.on /\ rly.step = 0 /\ ~rly.contact /\ ~rly.gate
  BY <1>1, <1>2 DEF TimingInit, AtRest, Driver, Drivers
<1>4. PinsMatchStep(rly)
  BY <1>3, DriverFields DEF PinsMatchStep
<1>5. QED
  BY <1>3, <1>4 DEF Consistent

\* The observers after a step from r to s.
GateClock(r, s, g)    == IF s.gate /\ ~r.gate THEN 0 ELSE g
ContactClock(r, s, c) == IF s.contact # r.contact THEN 0 ELSE c

\* turnOn() keeps the invariant.
LEMMA TurnOnConsistent ==
  ASSUME NEW r, NEW g, NEW c, Consistent(r, g, c), NEW s, s = TurnOn(r)
  PROVE  Consistent(s, GateClock(r, s, g), ContactClock(r, s, c))
<1>1. r \in Drivers /\ PinsMatchStep(r) /\ g \in 0..TriacSettle /\ c \in 0..RelaySettle
  BY DEF Consistent
<1>2. s \in Drivers
  BY <1>1, OperationsTyped
<1>3. CASE r.on /\ s = r
  BY <1>3, DriverFields, <1>1 DEF GateClock, ContactClock
<1>4. CASE ~r.on /\ r.step = 0 /\ ~r.contact /\ ~r.gate /\ s = Driver(TRUE, 1, 0, FALSE, TRUE)
  <2>1. s.on = TRUE /\ s.step = 1 /\ s.age = 0 /\ s.contact = FALSE /\ s.gate = TRUE
    BY <1>4 DEF Driver
  <2>2. GateClock(r, s, g) = 0 /\ ContactClock(r, s, c) = c /\ c = RelaySettle
    BY <1>1, <1>4, <2>1, DriverFields DEF GateClock, ContactClock, Consistent
  <2>3. PinsMatchStep(s)
    BY <2>1 DEF PinsMatchStep
  <2>4. QED
    BY <1>1, <1>2, <2>1, <2>2, <2>3 DEF Consistent
<1>5. CASE ~r.on /\ r.step \in {3, 4} /\ r.gate /\ s = Driver(TRUE, 2, 0, TRUE, TRUE)
  <2>1. s.on = TRUE /\ s.step = 2 /\ s.age = 0 /\ s.contact = TRUE /\ s.gate = TRUE
    BY <1>5 DEF Driver
  <2>2. GateClock(r, s, g) = g /\ ContactClock(r, s, c) \in {0, c}
    BY <1>5, <2>1 DEF GateClock, ContactClock
  <2>3. PinsMatchStep(s)
    BY <2>1 DEF PinsMatchStep
  <2>4. QED
    BY <1>1, <1>2, <2>1, <2>2, <2>3 DEF Consistent
<1>6. QED
  BY <1>1, <1>3, <1>4, <1>5, TurnOnResult

\* turnOff() keeps the invariant.
LEMMA TurnOffConsistent ==
  ASSUME NEW r, NEW g, NEW c, Consistent(r, g, c), NEW s, s = TurnOff(r)
  PROVE  Consistent(s, GateClock(r, s, g), ContactClock(r, s, c))
<1>1. r \in Drivers /\ PinsMatchStep(r) /\ g \in 0..TriacSettle /\ c \in 0..RelaySettle
  BY DEF Consistent
<1>2. s \in Drivers
  BY <1>1, OperationsTyped
<1>3. CASE ~r.on /\ s = r
  BY <1>3, DriverFields, <1>1 DEF GateClock, ContactClock
<1>4. CASE r.on /\ r.step \in {0, 2} /\ r.contact /\ s = Driver(FALSE, 3, 0, TRUE, TRUE)
  <2>1. s.on = FALSE /\ s.step = 3 /\ s.age = 0 /\ s.contact = TRUE /\ s.gate = TRUE
    BY <1>4 DEF Driver
  <2>2. GateClock(r, s, g) \in {0, g} /\ ContactClock(r, s, c) = c
    BY <1>1, <1>4, <2>1, DriverFields DEF GateClock, ContactClock
  <2>3. PinsMatchStep(s)
    BY <2>1 DEF PinsMatchStep
  <2>4. QED
    BY <1>1, <1>2, <2>1, <2>2, <2>3 DEF Consistent
<1>5. CASE r.on /\ r.step = 1 /\ ~r.contact /\ r.gate /\ s = Driver(FALSE, 0, r.age, FALSE, FALSE)
  <2>1. s.on = FALSE /\ s.step = 0 /\ s.contact = FALSE /\ s.gate = FALSE
    BY <1>5 DEF Driver
  <2>2. GateClock(r, s, g) = g /\ ContactClock(r, s, c) = c /\ c = RelaySettle
    BY <1>1, <1>5, <2>1, DriverFields DEF GateClock, ContactClock, Consistent
  <2>3. PinsMatchStep(s)
    BY <2>1 DEF PinsMatchStep
  <2>4. QED
    BY <1>1, <1>2, <2>1, <2>2, <2>3 DEF Consistent
<1>6. QED
  BY <1>1, <1>3, <1>4, <1>5, TurnOffResult

\* handle() keeps the invariant.
LEMMA HandleConsistent ==
  ASSUME NEW r, NEW g, NEW c, Consistent(r, g, c), NEW s, s = Handle(r)
  PROVE  Consistent(s, GateClock(r, s, g), ContactClock(r, s, c))
<1>1. r \in Drivers /\ PinsMatchStep(r) /\ g \in 0..TriacSettle /\ c \in 0..RelaySettle
  BY DEF Consistent
<1>2. s \in Drivers
  BY <1>1, OperationsTyped
<1>3. CASE s = r
  BY <1>3, DriverFields, <1>1 DEF GateClock, ContactClock
<1>4. CASE /\ r.step = 1 /\ r.gate /\ s = Driver(TRUE, 2, 0, TRUE, TRUE)
           /\ r.age >= TriacSettle
  <2>1. s.on = TRUE /\ s.step = 2 /\ s.age = 0 /\ s.contact = TRUE /\ s.gate = TRUE
    BY <1>4 DEF Driver
  <2>2. GateClock(r, s, g) = g /\ ContactClock(r, s, c) \in {0, c}
    BY <1>4, <2>1 DEF GateClock, ContactClock
  <2>3. PinsMatchStep(s)
    BY <2>1 DEF PinsMatchStep
  <2>4. QED
    BY <1>1, <1>2, <2>1, <2>2, <2>3 DEF Consistent
<1>5. CASE /\ r.step = 3 /\ r.gate /\ s = Driver(FALSE, 4, 0, FALSE, TRUE)
           /\ r.age >= TriacSettle
  <2>1. s.on = FALSE /\ s.step = 4 /\ s.age = 0 /\ s.contact = FALSE /\ s.gate = TRUE
    BY <1>5 DEF Driver
  <2>2. GateClock(r, s, g) = g /\ ContactClock(r, s, c) \in {0, c}
    BY <1>5, <2>1 DEF GateClock, ContactClock
  <2>3. PinsMatchStep(s)
    BY <2>1 DEF PinsMatchStep
  <2>4. g = TriacSettle
    BY <1>1, <1>5, DriverFields DEF Consistent
  <2>5. QED
    BY <1>1, <1>2, <2>1, <2>2, <2>3, <2>4 DEF Consistent
<1>6. CASE /\ r.step \in {2, 4} /\ r.contact = r.on /\ r.age >= RelaySettle
           /\ s = Driver(r.on, 0, r.age, r.contact, FALSE)
  <2>1. s.on = r.on /\ s.step = 0 /\ s.contact = r.contact /\ s.gate = FALSE
    BY <1>6 DEF Driver
  <2>2. GateClock(r, s, g) = g /\ ContactClock(r, s, c) = c
    BY <2>1 DEF GateClock, ContactClock
  <2>3. PinsMatchStep(s)
    <3>1. s.contact <=> s.on
      BY <1>6, <2>1
    <3>2. QED
      BY <2>1, <3>1 DEF PinsMatchStep
  <2>4. c = RelaySettle
    BY <1>1, <1>6, DriverFields DEF Consistent
  <2>5. QED
    BY <1>1, <1>2, <2>1, <2>2, <2>3, <2>4 DEF Consistent
<1>7. QED
  BY <1>1, <1>3, <1>4, <1>5, <1>6, HandleResult

\* The passing of one tick keeps the invariant.
LEMMA OlderConsistent ==
  ASSUME NEW r, NEW g, NEW c, Consistent(r, g, c), NEW s, s = Older(r)
  PROVE  Consistent(s, Cap(g, TriacSettle), Cap(c, RelaySettle))
<1>1. r \in Drivers /\ PinsMatchStep(r) /\ g \in 0..TriacSettle /\ c \in 0..RelaySettle
  BY DEF Consistent
<1>2. s \in Drivers
  BY <1>1, OperationsTyped
<1>3. /\ s.on = r.on /\ s.step = r.step /\ s.contact = r.contact /\ s.gate = r.gate
      /\ s.age = (IF r.age < MaxAge THEN r.age + 1 ELSE r.age)
  BY <1>1 DEF Older, Drivers
<1>4. PinsMatchStep(s)
  BY <1>1, <1>3 DEF PinsMatchStep
<1>5. QED
  BY <1>1, <1>2, <1>3, <1>4, DriverFields DEF Consistent, Cap

\* A step that changes none of the driver's variables keeps the invariant too;
\* with the lemmas above, every step of the driver does.
LEMMA StepConsistent == TimingInv /\ [TimingNext]_timingVars => TimingInv'
<1> SUFFICES ASSUME TimingInv, [TimingNext]_timingVars
             PROVE  TimingInv'
  OBVIOUS
<1>1. Observe <=> /\ gateFor' = GateClock(rly, rly', gateFor)
                  /\ contactFor' = ContactClock(rly, rly', contactFor)
  BY DEF Observe, GateClock, ContactClock
<1>2. CASE CommandOn
  BY <1>1, <1>2, TurnOnConsistent DEF CommandOn, TimingInv
<1>3. CASE CommandOff
  BY <1>1, <1>3, TurnOffConsistent DEF CommandOff, TimingInv
<1>4. CASE Toggle
  BY <1>1, <1>4, TurnOnConsistent, TurnOffConsistent DEF Toggle, TimingInv
<1>5. CASE Service
  BY <1>1, <1>5, HandleConsistent DEF Service, TimingInv
<1>6. CASE Elapse
  BY <1>6, OlderConsistent DEF Elapse, TimingInv
<1>7. CASE UNCHANGED timingVars
  BY <1>7 DEF timingVars, TimingInv
<1>8. QED
  BY <1>2, <1>3, <1>4, <1>5, <1>6, <1>7 DEF TimingNext

-----------------------------------------------------------------------------
(* Theorems *)

\* The inductive invariant holds for every pair of settle times.
THEOREM TimingInvariant == TimingSafety => []TimingInv
<1>1. TimingInit => TimingInv
  BY InitConsistent
<1>2. TimingInv /\ [TimingNext]_timingVars => TimingInv'
  BY StepConsistent
<1>3. QED
  BY <1>1, <1>2, PTL DEF TimingSafety

\* The driver's variables keep their types.
THEOREM TypeCorrect == TimingSafety => []TimingTypeOK
<1>1. TimingInv => TimingTypeOK
  BY DEF TimingInv, Consistent, TimingTypeOK
<1>2. QED
  BY <1>1, TimingInvariant, PTL

\* The pins are always where the step table says.
THEOREM StepTableHolds == TimingSafety => []PinsFollowStep
<1>1. TimingInv => PinsFollowStep
  BY DEF TimingInv, Consistent, PinsFollowStep
<1>2. QED
  BY <1>1, TimingInvariant, PTL

\* The four ways the pins can move in one call, from r to s.
Stays(r, s) ==
  s.contact = r.contact /\ s.gate = r.gate /\ (r.gate \/ s.contact = s.on)
Fires(r, s) ==
  s.contact = r.contact /\ s.contact # s.on /\ r.gate = FALSE /\ s.gate = TRUE
Transfers(r, s, g) ==
  /\ s.contact # r.contact /\ s.contact = s.on
  /\ r.gate = TRUE /\ s.gate = TRUE /\ g = TriacSettle
Releases(r, s, c) ==
  /\ s.contact = r.contact /\ s.contact = s.on
  /\ r.gate = TRUE /\ s.gate = FALSE /\ c = RelaySettle

\* Every call of the driver moves the pins in one of these ways, and moves the
\* contact or releases the TRIAC only when its settle time is over.
LEMMA CallMoves ==
  ASSUME NEW r, NEW g, NEW c, Consistent(r, g, c),
         NEW s, s = TurnOn(r) \/ s = TurnOff(r) \/ s = Handle(r)
  PROVE  Stays(r, s) \/ Fires(r, s) \/ Transfers(r, s, g) \/ Releases(r, s, c)
<1>1. r \in Drivers /\ PinsMatchStep(r) /\ g \in 0..TriacSettle /\ c \in 0..RelaySettle
  BY DEF Consistent
<1>2. CASE s = r
  <2>1. r.gate \/ r.contact = r.on
    BY <1>1, DriverFields DEF PinsMatchStep
  <2>2. QED
    BY <1>2, <2>1 DEF Stays
<1>3. CASE ~r.on /\ r.step = 0 /\ ~r.contact /\ ~r.gate /\ s = Driver(TRUE, 1, 0, FALSE, TRUE)
  BY <1>1, <1>3, DriverFields DEF Driver, Fires
<1>4. CASE r.step = 3 /\ r.contact /\ r.gate /\ s = Driver(TRUE, 2, 0, TRUE, TRUE)
  BY <1>1, <1>4, DriverFields DEF Driver, Stays
<1>5. CASE r.step = 4 /\ ~r.contact /\ r.gate /\ s = Driver(TRUE, 2, 0, TRUE, TRUE)
  <2>1. g = TriacSettle
    BY <1>5 DEF Consistent
  <2>2. QED
    BY <1>1, <1>5, <2>1, DriverFields DEF Driver, Transfers
<1>6. CASE r.on /\ r.step = 0 /\ r.contact /\ ~r.gate /\ s = Driver(FALSE, 3, 0, TRUE, TRUE)
  BY <1>1, <1>6, DriverFields DEF Driver, Fires
<1>7. CASE r.step = 1 /\ ~r.contact /\ r.gate /\ s = Driver(FALSE, 0, r.age, FALSE, FALSE)
  <2>1. c = RelaySettle
    BY <1>7 DEF Consistent
  <2>2. QED
    BY <1>1, <1>7, <2>1, DriverFields DEF Driver, Releases
<1>8. CASE r.step = 2 /\ r.contact /\ r.gate /\ s = Driver(FALSE, 3, 0, TRUE, TRUE)
  BY <1>1, <1>8, DriverFields DEF Driver, Stays
<1>9. CASE /\ r.step = 1 /\ r.age >= TriacSettle /\ ~r.contact /\ r.gate
           /\ s = Driver(TRUE, 2, 0, TRUE, TRUE)
  <2>1. g = TriacSettle
    BY <1>1, <1>9, DriverFields DEF Consistent
  <2>2. QED
    BY <1>1, <1>9, <2>1, DriverFields DEF Driver, Transfers
<1>10. CASE /\ r.step = 3 /\ r.age >= TriacSettle /\ r.contact /\ r.gate
            /\ s = Driver(FALSE, 4, 0, FALSE, TRUE)
  <2>1. g = TriacSettle
    BY <1>1, <1>10, DriverFields DEF Consistent
  <2>2. QED
    BY <1>1, <1>10, <2>1, DriverFields DEF Driver, Transfers
<1>11. CASE /\ r.step \in {2, 4} /\ r.age >= RelaySettle /\ r.contact = r.on /\ r.gate
            /\ s = Driver(r.on, 0, r.age, r.contact, FALSE)
  <2>1. c = RelaySettle
    BY <1>1, <1>11, DriverFields DEF Consistent
  <2>2. QED
    BY <1>1, <1>11, <2>1, DriverFields DEF Driver, Releases
<1>12. CASE s = TurnOn(r)
  BY <1>1, <1>2, <1>3, <1>4, <1>5, <1>12, TurnOnResult
<1>13. CASE s = TurnOff(r)
  BY <1>1, <1>2, <1>6, <1>7, <1>8, <1>13, TurnOffResult
<1>14. CASE s = Handle(r)
  BY <1>1, <1>2, <1>9, <1>10, <1>11, <1>14, HandleResult
<1>15. QED
  BY <1>12, <1>13, <1>14

\* A step of the driver's next-state relation other than a tick is such a call.
LEMMA StepIsCall ==
  ASSUME TimingNext, ~Elapse
  PROVE  /\ rly' = TurnOn(rly) \/ rly' = TurnOff(rly) \/ rly' = Handle(rly)
         /\ Observe
  BY DEF TimingNext, CommandOn, CommandOff, Toggle, Service

\* The relay contact moves only while the TRIAC conducts.
THEOREM ArcFree == TimingSafety => ContactMovesUnderTriac
<1>1. ASSUME TimingInv, [TimingNext]_timingVars
      PROVE  [rly'.contact # rly.contact => rly.gate /\ rly'.gate]_timingVars
  <2>1. CASE UNCHANGED timingVars
    BY <2>1
  <2>2. CASE Elapse
    BY <1>1, <2>2 DEF Elapse, Older, TimingInv, Consistent, Drivers
  <2>3. CASE TimingNext /\ ~Elapse
    <3>1. \/ Stays(rly, rly') \/ Fires(rly, rly')
          \/ Transfers(rly, rly', gateFor) \/ Releases(rly, rly', contactFor)
      BY <1>1, <2>3, StepIsCall, CallMoves DEF TimingInv
    <3>2. QED
      BY <3>1 DEF Stays, Fires, Transfers, Releases
  <2>4. QED
    BY <1>1, <2>1, <2>2, <2>3
<1>2. QED
  BY <1>1, TimingInvariant, PTL DEF TimingSafety, ContactMovesUnderTriac

\* Every behaviour of the driver is one of the abstract switch: it starts where
\* the switch starts, and each call is a step of the switch or a stutter.
THEOREM DriverImplementsSwitch == TimingSafety => Switch!SwitchSafety
<1>1. TimingInit => Switch!SwitchInit
  BY DEF TimingInit, Switch!SwitchInit, AtRest, Driver
<1>2. ASSUME TimingInv, [TimingNext]_timingVars
      PROVE  [Switch!SwitchNext]_Switch!swVars
  <2>1. CASE UNCHANGED timingVars
    BY <2>1 DEF timingVars, Switch!swVars
  <2>2. CASE Elapse
    BY <1>2, <2>2
    DEF Elapse, Older, TimingInv, Consistent, Drivers, Cap, Switch!SwitchNext, Switch!Elapse
  <2>3. CASE TimingNext /\ ~Elapse
    <3>1. \/ Stays(rly, rly') \/ Fires(rly, rly')
          \/ Transfers(rly, rly', gateFor) \/ Releases(rly, rly', contactFor)
      BY <1>2, <2>3, StepIsCall, CallMoves DEF TimingInv
    <3>2. /\ gateFor' = IF rly'.gate /\ ~rly.gate THEN 0 ELSE gateFor
          /\ contactFor' = IF rly'.contact # rly.contact THEN 0 ELSE contactFor
      BY <2>3, StepIsCall DEF Observe
    <3>3. TimingInv'
      BY <1>2, StepConsistent
    <3>4. rly'.on \in BOOLEAN
      BY <3>3 DEF TimingInv, Consistent, Drivers
    <3>5. CASE Stays(rly, rly')
      BY <3>2, <3>4, <3>5
      DEF Stays, Switch!SwitchNext, Switch!Operate, Switch!Hold, Switch!pins
    <3>6. CASE Fires(rly, rly')
      BY <3>2, <3>4, <3>6 DEF Fires, Switch!SwitchNext, Switch!Operate, Switch!Fire
    <3>7. CASE Transfers(rly, rly', gateFor)
      BY <3>2, <3>4, <3>7 DEF Transfers, Switch!SwitchNext, Switch!Operate, Switch!Transfer
    <3>8. CASE Releases(rly, rly', contactFor)
      BY <3>2, <3>4, <3>8 DEF Releases, Switch!SwitchNext, Switch!Operate, Switch!Release
    <3>9. QED
      BY <3>1, <3>5, <3>6, <3>7, <3>8
  <2>4. QED
    BY <1>2, <2>1, <2>2, <2>3
<1>3. QED
  BY <1>1, <1>2, TimingInvariant, PTL DEF TimingSafety, Switch!SwitchSafety
=============================================================================
