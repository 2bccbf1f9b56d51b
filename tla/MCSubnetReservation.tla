------------------------ MODULE MCSubnetReservation ------------------------
(***************************************************************************)
(* Small instances of SubnetReservation: p1 makes r1 and r2 (and r4) and   *)
(* p2 makes r3.                                                            *)
(***************************************************************************)
EXTENDS SubnetReservation, TLC

CONSTANTS p1, p2, r1, r2, r3, r4, a, b, c, f1, f2

TwoProcesses == {p1, p2}
ThreeReservations == {r1, r2, r3}
FourReservations == {r1, r2, r3, r4}
Paths == {a, b, c}
Files == {f1, f2}

OwnerOfThree == r1 :> p1 @@ r2 :> p1 @@ r3 :> p2
OwnerOfFour == OwnerOfThree @@ r4 :> p1

\* All reservations name the file alike.
OneName == r1 :> a @@ r2 :> a @@ r3 :> a

\* p2 knows p1's file by another name, and r4 is of another lock file.
TwoFiles == r1 :> a @@ r2 :> a @@ r3 :> b @@ r4 :> c

FilesOfNames == a :> f1 @@ b :> f1 @@ c :> f2

\* r2 is of a narrower range of subnets.
FirstTwo == [r \in Res |-> IF r = r2 THEN 1 ELSE 0]
ToOne == [r \in Res |-> 1]
ToTwo == [r \in Res |-> 2]
=============================================================================
