--------------------------- MODULE MCPumpController -------------------------
(***************************************************************************)
(* A small device: the currents are scaled down so that every band is hit  *)
(* ("ok" in switch mode), timeouts of one and two ticks stand against a    *)
(* settle time of one.                                                     *)
(***************************************************************************)
EXTENDS PumpController

PumpModeCfg ==
  [pumpMode |-> TRUE, off |-> 1, noWater |-> 3, running |-> 8, overload |-> 14,
   dryTimeout |-> 2, overloadTimeout |-> 1]
SwitchModeCfg == [PumpModeCfg EXCEPT !.pumpMode = FALSE]

MCConfigs == {PumpModeCfg, SwitchModeCfg}
MCLoads == {2, 9, 12, 20}      \* dry, high, critical, overload

OnlyPumpMode == {PumpModeCfg}
DryOrOk == {2, 5}
=============================================================================
