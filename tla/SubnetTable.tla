---------------------------- MODULE SubnetTable ----------------------------
(***************************************************************************)
(* What SubnetReservation promises its users: a table of which /24 each    *)
(* reservation has.  Two reservations made through the same lock file      *)
(* never have the same one.  Nothing is said of processes, descriptors or  *)
(* kernel locks; module SubnetReservation is shown to implement this.      *)
(***************************************************************************)
CONSTANTS
    Res,       \* the SubnetReservation objects
    Subnet,    \* the numbers of the /24s
    LockOf,    \* [Res -> a lock file]
    None       \* not a subnet: the reservation has none

VARIABLE has   \* has[r]: the /24 that r has, or None

TableInit == has = [r \in Res |-> None]

Free(r, i) == \A s \in Res : LockOf[s] = LockOf[r] => has[s] # i

Acquire(r) ==
    /\ has[r] = None
    /\ \E i \in Subnet :
        /\ Free(r, i)
        /\ has' = [has EXCEPT ![r] = i]

\* One reservation is destroyed, or a process dies and all of its are gone.
Release(gone) ==
    /\ gone # {}
    /\ \A r \in gone : has[r] # None
    /\ has' = [r \in Res |-> IF r \in gone THEN None ELSE has[r]]

TableNext ==
    \/ \E r \in Res : Acquire(r)
    \/ \E gone \in SUBSET Res : Release(gone)

TableSpec == TableInit /\ [][TableNext]_has
=============================================================================
