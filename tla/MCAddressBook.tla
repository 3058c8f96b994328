---------------------------- MODULE MCAddressBook ----------------------------
(* Constants for the runs of HvacAddressBook. *)
EXTENDS HvacAddressBook

CONSTANT p1

MCHash == [p \in Paths |-> IF p = p1 THEN 2 ELSE 3]
=============================================================================
