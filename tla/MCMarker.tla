------------------------------ MODULE MCMarker ------------------------------
(* Marker on a small instance: two slots, two-bit generations. *)
EXTENDS Marker, TLC

Symmetry == Permutations(Objects) \cup Permutations(Holders)
=============================================================================
