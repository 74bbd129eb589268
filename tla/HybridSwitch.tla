---------------------------- MODULE HybridSwitch ----------------------------
(***************************************************************************)
(* What the relay driver promises to the rest of the firmware, without its *)
(* step numbers: a contact and a TRIAC in parallel switch one load, the    *)
(* TRIAC takes the arc, so                                                 *)
(*   - the contact moves only towards the commanded position, and only     *)
(*     after the TRIAC has conducted for FireTime;                         *)
(*   - the TRIAC is released only when the contact stands where it was     *)
(*     commanded, and has stood there for HoldTime;                        *)
(*   - both eventually happen.                                             *)
(* RelayTiming shows that src/src/RelayController.cpp implements it.       *)
(***************************************************************************)
EXTENDS Naturals

CONSTANTS FireTime,  \* how long the TRIAC conducts before the contact may move
          HoldTime   \* how long the contact rests before the TRIAC is released

VARIABLES commanded,   \* the position last asked for: TRUE is "pump on"
          contact,     \* the relay contact is closed
          gate,        \* the TRIAC gate is driven
          gateFor,     \* time since the gate was last fired, up to FireTime
          contactFor   \* time since the contact last moved, up to HoldTime

pins   == <<contact, gate, gateFor, contactFor>>
swVars == <<commanded, contact, gate, gateFor, contactFor>>

SwitchTypeOK ==
  /\ commanded \in BOOLEAN /\ contact \in BOOLEAN /\ gate \in BOOLEAN
  /\ gateFor \in 0..FireTime
  /\ contactFor \in 0..HoldTime

SwitchInit ==
  /\ commanded = FALSE /\ contact = FALSE /\ gate = FALSE
  /\ gateFor = FireTime /\ contactFor = HoldTime

Fire ==
  /\ ~gate /\ contact # commanded'
  /\ gate' = TRUE /\ gateFor' = 0
  /\ UNCHANGED <<contact, contactFor>>

Transfer ==
  /\ gate /\ gateFor = FireTime /\ contact # commanded'
  /\ contact' = commanded' /\ contactFor' = 0
  /\ UNCHANGED <<gate, gateFor>>

Release ==
  /\ gate /\ contactFor = HoldTime /\ contact = commanded'
  /\ gate' = FALSE
  /\ UNCHANGED <<contact, gateFor, contactFor>>

Hold ==
  /\ gate \/ contact = commanded'
  /\ UNCHANGED pins

\* One step of the switch, which may also take a new command.
Operate ==
  /\ commanded' \in BOOLEAN
  /\ Fire \/ Transfer \/ Release \/ Hold

Elapse ==
  /\ gateFor' = IF gateFor < FireTime THEN gateFor + 1 ELSE gateFor
  /\ contactFor' = IF contactFor < HoldTime THEN contactFor + 1 ELSE contactFor
  /\ UNCHANGED <<commanded, contact, gate>>

SwitchNext == Operate \/ Elapse

Carry   == UNCHANGED commanded /\ Transfer
Relieve == UNCHANGED commanded /\ Release

SwitchSafety == SwitchInit /\ [][SwitchNext]_swVars
SwitchSpec   == SwitchSafety /\ WF_swVars(Carry) /\ WF_swVars(Relieve)
=============================================================================
