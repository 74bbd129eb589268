--------------------------- MODULE RelayController --------------------------
(***************************************************************************)
(* src/src/RelayController.cpp: the arc-free switching sequence of the     *)
(* relay and the TRIAC beside it, as operators on the driver's state, so   *)
(* that the modules of its callers can compose them in one step.           *)
(*                                                                         *)
(* One driver state is a record                                            *)
(*   on       _on: the commanded state, set before anything moves          *)
(*   step     _step: 0 idle, 1-2 switching on, 3-4 switching off           *)
(*   age      millis() - _lastAction, in ticks, up to MaxAge (the code     *)
(*            only compares it with the two settle times)                  *)
(*   contact  the relay pin                                                *)
(*   gate     the TRIAC gate pin (_triacOn always equals it)               *)
(* _onTime only dates the on-duration shown in the status and the          *)
(* on-duration callback, which nothing registers: it is left out.          *)
(***************************************************************************)
EXTENDS Naturals

CONSTANTS TriacSettle,   \* T_TRIAC_SETTLE in ticks
          RelaySettle    \* T_RELAY_SETTLE in ticks

ASSUME SettleAssumption == TriacSettle \in Nat \ {0} /\ RelaySettle \in Nat \ {0}

VARIABLE rly

MaxAge == IF TriacSettle > RelaySettle THEN TriacSettle ELSE RelaySettle

Drivers == [on: BOOLEAN, step: 0..4, age: 0..MaxAge, contact: BOOLEAN, gate: BOOLEAN]

Driver(on, step, age, contact, gate) ==
  [on |-> on, step |-> step, age |-> age, contact |-> contact, gate |-> gate]

\* The constructor and begin(): both pins low, nothing under way.
AtRest == Driver(FALSE, 0, MaxAge, FALSE, FALSE)

-----------------------------------------------------------------------------
(* Faulty variants of the operations, for mutation. *)

\* turnOn() that treats a contact already open like one still closed.
TurnOnIgnoringOpening(r) ==
  CASE r.on                     -> r
    [] ~r.on /\ r.step \in 3..4 -> Driver(TRUE, 2, 0, r.contact, r.gate)
    [] OTHER                    -> Driver(TRUE, 1, 0, r.contact, TRUE)

\* turnOn() that closes the contact in the same call that fires the TRIAC.
TurnOnAtOnce(r) ==
  IF r.on THEN r ELSE Driver(TRUE, 2, 0, TRUE, TRUE)

\* handle() that does not restart its wait when it moves the contact.
HandleWithoutRestart(r) ==
  CASE r.step = 1 /\ r.age >= TriacSettle -> Driver(r.on, 2, r.age, TRUE, r.gate)
    [] r.step = 3 /\ r.age >= TriacSettle -> Driver(r.on, 4, r.age, FALSE, r.gate)
    [] r.step \in {2, 4} /\ r.age >= RelaySettle -> Driver(r.on, 0, r.age, r.contact, FALSE)
    [] OTHER -> r

\* handle() that never leaves step 3.
HandleWithoutOpening(r) ==
  CASE r.step = 1 /\ r.age >= TriacSettle -> Driver(r.on, 2, 0, TRUE, r.gate)
    [] r.step \in {2, 4} /\ r.age >= RelaySettle -> Driver(r.on, 0, r.age, r.contact, FALSE)
    [] OTHER -> r

-----------------------------------------------------------------------------
(* Operations *)

\* Steps 3 and 4 are taken over where they stand: the TRIAC is already on.
TurnOn(r) ==
  CASE r.on                -> r
    [] ~r.on /\ r.step = 3 -> Driver(TRUE, 2, 0, r.contact, r.gate)
    [] ~r.on /\ r.step = 4 -> Driver(TRUE, 2, 0, TRUE, r.gate)
    [] OTHER               -> Driver(TRUE, 1, 0, r.contact, TRUE)

\* Step 1 is cancelled (the contact never closed), step 2 is taken over.
TurnOff(r) ==
  CASE ~r.on /\ r.step \in {0, 3, 4} -> r
    [] r.step = 1 -> Driver(FALSE, 0, r.age, r.contact, FALSE)
    [] r.step = 2 -> Driver(FALSE, 3, 0, r.contact, r.gate)
    [] OTHER      -> Driver(FALSE, 3, 0, r.contact, TRUE)

\* One call from the sensor task: the step whose wait is over is finished.
Handle(r) ==
  CASE r.step = 1 /\ r.age >= TriacSettle -> Driver(r.on, 2, 0, TRUE, r.gate)
    [] r.step = 3 /\ r.age >= TriacSettle -> Driver(r.on, 4, 0, FALSE, r.gate)
    [] r.step \in {2, 4} /\ r.age >= RelaySettle -> Driver(r.on, 0, r.age, r.contact, FALSE)
    [] OTHER -> r

Older(r) == [r EXCEPT !.age = IF r.age < MaxAge THEN r.age + 1 ELSE r.age]

-----------------------------------------------------------------------------
(* What each step number says about the pins. *)

\* PinsMatchStep relates _step to the two pins and the commanded state: an idle
\* driver has the contact where it was commanded and the TRIAC off, and every
\* other step has the TRIAC conducting and the contact where the header's step
\* table (RelayController.h:28-29) puts it.
PinsMatchStep(r) ==
  /\ r.gate <=> r.step # 0
  /\ r.step = 0 => (r.contact <=> r.on)
  /\ r.step \in {1, 2} => r.on
  /\ r.step \in {3, 4} => ~r.on
  /\ r.step \in {1, 4} => ~r.contact
  /\ r.step \in {2, 3} => r.contact
=============================================================================
