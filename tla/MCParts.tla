------------------------------ MODULE MCParts ------------------------------
(***************************************************************************)
(* Small instances of the nine components of Parts.                        *)
(***************************************************************************)
EXTENDS Parts

CONSTANTS n1, n2

\* README.md's session in small: a reservation, a model referring to it, a network made
\* from the model and a machine on that network; and one whose model refers to the
\* machine, which comes after it.
FourResources == {1, 3, 4}
Backwards == <<{}, {1}, {2}, {1, 3}>>
Forwards == <<{}, {1}, {2, 4}, {1, 3}>>
BothWays == {Backwards, Forwards}

\* Two networks that have the same address.
TwoNetworks == {n1, n2}
SameAddress == [n \in TwoNetworks |-> 1]

\* One slot fewer than devices.  (The alphabet has two letters, so that seven disks'
\* names have one to three.)
TwoSlots == <<11, 12>>

\* Smaller networks are full before all interfaces are connected.
EightAddresses == 16 .. 23
=============================================================================
