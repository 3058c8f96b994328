--------------------------- MODULE AddressDirectory ---------------------------
(***************************************************************************)
(* What the ports file and the clients' address caches promise together: a *)
(* directory in which the address of a rank is written once and never      *)
(* replaced, and from which every client learns that address and no other. *)
(* So all clients of a job send the requests for a file to one process.    *)
(***************************************************************************)
CONSTANTS Clients, Ranks, Addresses, NoAddr

VARIABLES
    dir,            \* rank -> the address it is known by, or NoAddr
    known           \* client -> rank -> what the client has learnt, or NoAddr

vars == <<dir, known>>

Init ==
    /\ dir = [r \in Ranks |-> NoAddr]
    /\ known = [c \in Clients |-> [r \in Ranks |-> NoAddr]]

Publish(r, a) ==
    /\ dir[r] = NoAddr
    /\ dir' = [dir EXCEPT ![r] = a]
    /\ UNCHANGED known

Learn(c, r) ==
    /\ dir[r] # NoAddr
    /\ known[c][r] = NoAddr
    /\ known' = [known EXCEPT ![c][r] = dir[r]]
    /\ UNCHANGED dir

Next ==
    \E r \in Ranks :
        \/ \E a \in Addresses : Publish(r, a)
        \/ \E c \in Clients : Learn(c, r)

Spec == Init /\ [][Next]_vars
=============================================================================
