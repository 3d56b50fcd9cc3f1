------------------------------- MODULE MCDbe -------------------------------
(* Dead block elimination on every graph of four blocks. *)
EXTENDS Dbe
MCIds == 0 .. 3

MCInputs == {GraphOf(shape) : shape \in Shapes}
=============================================================================
