-------------------------------- MODULE MCWire --------------------------------
(* Constants for the runs of HvacWire. *)
EXTENDS HvacWire

\* On both sides of the range of a 3-bit integer, -4..3.
MCOffsets == {-8, -5, -2, -1, 0, 2, 3, 5, 9}
=============================================================================
