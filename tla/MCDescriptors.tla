---------------------------- MODULE MCDescriptors ----------------------------
(* Constants for the runs of HvacDescriptors. *)
EXTENDS HvacDescriptors

CONSTANT d1

\* A file of two units, the others empty.
MCSize == [p \in Paths |-> IF p = d1 THEN 2 ELSE 0]
=============================================================================
