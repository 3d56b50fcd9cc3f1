------------------------------- MODULE MCCfg -------------------------------
(* Cfg on graphs of up to four blocks. The branches of the three that may  *)
(* have one start from any of the six condition codes.                     *)
EXTENDS Cfg
MCIds == 0 .. 3
MCNewConds ==
  [b \in MCIds |-> CASE b = 0 -> {"EQ", "NEQ"} [] b = 1 -> {"LEQ", "G"} [] OTHER -> {"GEQ", "L"}]
=============================================================================
