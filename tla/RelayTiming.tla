----------------------------- MODULE RelayTiming ----------------------------
(***************************************************************************)
(* The relay driver under callers that command it at any moment and a      *)
(* sensor task that calls handle() (PumpController.cpp:42), one call at a  *)
(* time, with two observer clocks that measure the pins themselves: how    *)
(* long the TRIAC has conducted and how long the contact has stood still.  *)
(* The driver keeps only one time stamp, _lastAction, and restarts it on   *)
(* every call; that this is enough is what the refinement shows.           *)
(***************************************************************************)
EXTENDS RelayController

VARIABLES gateFor, contactFor   \* observers, not in the code

timingVars == <<rly, gateFor, contactFor>>

Cap(n, limit) == IF n < limit THEN n + 1 ELSE n

\* The observers restart when the pin they watch changes.
Observe ==
  /\ gateFor'    = IF rly'.gate /\ ~rly.gate THEN 0 ELSE gateFor
  /\ contactFor' = IF rly'.contact # rly.contact THEN 0 ELSE contactFor

TimingInit == rly = AtRest /\ gateFor = TriacSettle /\ contactFor = RelaySettle

CommandOn  == rly' = TurnOn(rly) /\ Observe
CommandOff == rly' = TurnOff(rly) /\ Observe

\* toggle() calls one of the two by the commanded state.
Toggle == (IF rly.on THEN rly' = TurnOff(rly) ELSE rly' = TurnOn(rly)) /\ Observe

Service == rly' = Handle(rly) /\ Observe

Elapse ==
  /\ rly' = Older(rly)
  /\ gateFor' = Cap(gateFor, TriacSettle)
  /\ contactFor' = Cap(contactFor, RelaySettle)

TimingNext == CommandOn \/ CommandOff \/ Toggle \/ Service \/ Elapse

TimingSafety == TimingInit /\ [][TimingNext]_timingVars

\* The sensor task wakes every 20 ms at the highest priority and time passes.
TimingSpec == TimingSafety /\ WF_timingVars(Service) /\ WF_timingVars(Elapse)

-----------------------------------------------------------------------------
(* Properties *)

TimingTypeOK ==
  /\ rly \in Drivers
  /\ gateFor \in 0..TriacSettle
  /\ contactFor \in 0..RelaySettle

\* In every reachable state the pins are where the header's table of step
\* numbers says they are, whatever the order of turnOn, turnOff and handle.
PinsFollowStep == PinsMatchStep(rly)

\* The contact moves only while the TRIAC conducts before and after the move:
\* the contact itself never makes or breaks the load current.
ContactMovesUnderTriac ==
  [][rly'.contact # rly.contact => rly.gate /\ rly'.gate]_timingVars

\* The driver implements the abstract switch: with its single time stamp it
\* respects both settle times for every interleaving of commands, and its
\* sequence always runs to its end.
Switch == INSTANCE HybridSwitch
            WITH FireTime <- TriacSettle, HoldTime <- RelaySettle,
                 commanded <- rly.on, contact <- rly.contact, gate <- rly.gate
ImplementsSwitch == Switch!SwitchSpec

\* When commands stop, the pins come to rest in the commanded position: the
\* TRIAC, which is rated for the switching interval only, does not stay on.
ComesToRest ==
  \/ []<><<rly'.on # rly.on>>_timingVars
  \/ <>[](~rly.gate /\ rly.contact = rly.on)

\* Consistent is the inductive strengthening of the type and of the step table:
\* the one time stamp is never ahead of the observer of the pin it stands for,
\* and a contact that stays where it is has been there for the settle time.
Consistent(r, g, c) ==
  /\ r \in Drivers
  /\ g \in 0..TriacSettle
  /\ c \in 0..RelaySettle
  /\ PinsMatchStep(r)
  /\ r.step \in {0, 1} => c = RelaySettle
  /\ r.step \in {1, 3} => g = TriacSettle \/ g >= r.age
  /\ r.step \in {2, 4} => c = RelaySettle \/ c >= r.age
  /\ r.step = 4 => g = TriacSettle

TimingInv == Consistent(rly, gateFor, contactFor)
=============================================================================
