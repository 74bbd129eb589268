----------------------------- MODULE MCPumpTasks ----------------------------
(***************************************************************************)
(* The tasks on a well that is dry or not, in pump mode, with one-tick     *)
(* settle times and timeouts.                                              *)
(***************************************************************************)
EXTENDS PumpTasks

PumpModeCfg ==
  [pumpMode |-> TRUE, off |-> 1, noWater |-> 3, running |-> 8, overload |-> 14,
   dryTimeout |-> 1, overloadTimeout |-> 1]
MCConfigs == {PumpModeCfg}
MCLoads == {2, 5}      \* dry, ok

Net == {"net"}
Both == {"net", "button"}
=============================================================================
