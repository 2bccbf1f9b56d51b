--------------------------- MODULE MachineDevices --------------------------
(***************************************************************************)
(* susa.libvirt.machine_model: the names that a machine's disks get, and   *)
(* the PCI slots of its controllers and interfaces where only some slots   *)
(* have an interrupt (ArchDefaults.pci_slots).  Letters are numbers from 1. *)
(***************************************************************************)
EXTENDS Integers, Sequences

CONSTANTS
    Interfaces,  \* the interface models
    Prefixes,    \* the prefixes of disk names, each of some buses
    Letters,     \* how many letters there are: 26
    Slots,       \* the architecture's PCI slots, in order
    MaxDisks     \* bound: the disks of a machine

NoSlot == 0

Assumptions == Letters \in Nat \ {0} /\ MaxDisks \in Nat /\ Slots \in Seq(Nat \ {NoSlot})

SlotSet == {Slots[k] : k \in 1 .. Len(Slots)}

VARIABLES
    disks,      \* the machine's disks, by prefix and suffix
    usb,        \* the slots of its USB controllers, in order
    nics,       \* its interfaces
    slot,       \* the slot of each interface, if it has one
    raised      \* whether there was no slot left for the last device

vars == <<disks, usb, nics, slot, raised>>

\* Interfaces may come with an address (e.g. parsed from libvirt's XML).
Init ==
    /\ disks = <<>> /\ usb = <<>> /\ nics = {} /\ raised = FALSE
    /\ slot \in [Interfaces -> SlotSet \cup {NoSlot}]

-----------------------------------------------------------------------------
Letter(index) == ((index - 1) % Letters) + 1

Rest(index) == (index - 1) \div Letters

\* The suffix at a place, from 1, of "a", "b", ..., "z", "aa", "ab", ...
Suffix[index \in 0 .. MaxDisks] ==
    IF index = 0 THEN <<>> ELSE Append(Suffix[Rest(index)], Letter(index))

Place == Len(disks) + 1

Disk(prefix) ==
    /\ Len(disks) < MaxDisks
    /\ disks' = Append(disks, <<prefix, Suffix[Place]>>)
    /\ UNCHANGED <<usb, nics, slot, raised>>

-----------------------------------------------------------------------------
\* A slip: only interfaces are looked at.
SlotsOfInterfaces == {slot[i] : i \in nics}

UsedSlots == {usb[k] : k \in 1 .. Len(usb)} \cup {slot[i] : i \in nics}

\* By their places in Slots, of which the first is taken.
FreeSlots == {k \in 1 .. Len(Slots) : Slots[k] \notin UsedSlots}
FirstFree == Slots[CHOOSE k \in FreeSlots : \A l \in FreeSlots : k <= l]

Usb ==
    /\ \/ FreeSlots # {} /\ usb' = Append(usb, FirstFree)
       \/ FreeSlots = {} /\ UNCHANGED usb
    /\ raised' = (FreeSlots = {})
    /\ UNCHANGED <<disks, nics, slot>>

\* An interface keeps the address it has, which its user sees to that is free.
Interface(i) ==
    /\ i \notin nics /\ slot[i] \notin UsedSlots
    /\ \/ /\ slot[i] # NoSlot \/ FreeSlots # {}
          /\ slot' = [slot EXCEPT ![i] = IF @ = NoSlot THEN FirstFree ELSE @]
          /\ nics' = nics \cup {i} /\ raised' = FALSE
       \/ /\ slot[i] = NoSlot /\ FreeSlots = {}
          /\ raised' = TRUE /\ UNCHANGED <<nics, slot>>
    /\ UNCHANGED <<disks, usb>>

Next == Usb \/ (\E p \in Prefixes : Disk(p)) \/ \E i \in Interfaces : Interface(i)

Spec == Init /\ [][Next]_vars

-----------------------------------------------------------------------------
\* The type invariant: devices have slots of the architecture, names have letters.
TypeOK ==
    /\ \A k \in 1 .. Len(disks) :
           disks[k] \in Prefixes \X Seq(1 .. Letters) /\ disks[k][2] # <<>>
    /\ usb \in Seq(SlotSet) /\ nics \subseteq Interfaces
    /\ slot \in [Interfaces -> SlotSet \cup {NoSlot}] /\ (\A i \in nics : slot[i] # NoSlot)
    /\ raised \in BOOLEAN

\* The order of names: shorter ones first, then by the first letter that differs.
Before(a, b) ==
    \/ Len(a) < Len(b)
    \/ /\ Len(a) = Len(b)
       /\ \E k \in 1 .. Len(a) : a[k] < b[k] /\ \A l \in 1 .. k - 1 : a[l] = b[l]

\* A machine's disks have different names, in the order they were added, even
\* where they're on different buses, and "a" comes first.
NamesInOrder ==
    /\ \A k, l \in 1 .. Len(disks) : k < l => Before(disks[k][2], disks[l][2])
    /\ disks # <<>> => disks[1][2] = <<1>>

\* No two devices of a machine have one slot.
OneDevicePerSlot ==
    /\ \A k, l \in 1 .. Len(usb) : k # l => usb[k] # usb[l]
    /\ \A k \in 1 .. Len(usb), i \in nics : usb[k] # slot[i]
    /\ \A i, j \in nics : i # j => slot[i] # slot[j]

\* "There's no free PCI slot left" is said only when every slot has a device.
FullWhenRefused == raised => SlotSet \subseteq UsedSlots
=============================================================================
