------------------------------ MODULE MCRelays ------------------------------
(***************************************************************************)
(* Live leases and the relay clients under them, each behaviour one of the *)
(* two: three owners of two demands, or one client with two socket objects *)
(* and two subscriptions, of which one fits.  Sockets are interchangeable. *)
(***************************************************************************)
EXTENDS LiveLease, RelayClient, TLC

VARIABLE leasing   \* whether this behaviour is one of leases

MCInit == leasing \in BOOLEAN /\ Init /\ ClientInit

MCNext == \/ leasing /\ Next /\ UNCHANGED <<leasing, clientVars>>
          \/ ~leasing /\ ClientNext /\ UNCHANGED <<leasing, vars>>

MCSpec == MCInit /\ [][MCNext]_<<leasing, vars, clientVars>>

Symmetry == Permutations(Sockets)
=============================================================================
