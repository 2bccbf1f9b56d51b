---------------------------- MODULE MCSavedState ---------------------------
(***************************************************************************)
(* Two machines, each after the volume it has.                             *)
(***************************************************************************)
EXTENDS SavedState

CONSTANTS v1, v2, m1, m2

TwoVolumes == {v1, v2}
TwoMachines == {m1, m2}
InOrder == <<v1, m1, v2, m2>>
Disks == [m \in TwoMachines |-> IF m = m1 THEN v1 ELSE v2]
=============================================================================
