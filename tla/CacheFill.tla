------------------------------ MODULE CacheFill ------------------------------
(***************************************************************************)
(* What the server's cache promises, without threads, locks or an NVMe     *)
(* device.  A file that a client has closed is requested for caching;      *)
(* requests are worked off one at a time and in order; a request either    *)
(* fills the cache with its file or is dropped because the copy failed.    *)
(* HvacDataMover implements this module.                                   *)
(***************************************************************************)
EXTENDS Sequences

CONSTANT Paths      \* the files of the data set, as the clients name them

VARIABLES
    pending,        \* requests not worked off yet, oldest first
    cached          \* the files that have a usable copy

vars == <<pending, cached>>

Init ==
    /\ pending = << >>
    /\ cached = {}

Request(p) ==
    /\ pending' = Append(pending, p)
    /\ UNCHANGED cached

\* The oldest request is served: its file is cached from now on.
Fill ==
    /\ pending # << >>
    /\ cached' = cached \cup {Head(pending)}
    /\ pending' = Tail(pending)

\* The oldest request is given up: nothing becomes visible.
Drop ==
    /\ pending # << >>
    /\ pending' = Tail(pending)
    /\ UNCHANGED cached

Next ==
    \/ \E p \in Paths : Request(p)
    \/ Fill
    \/ Drop

Spec == Init /\ [][Next]_vars
=============================================================================
