--------------------------- MODULE KVMachineModel ---------------------------
(***************************************************************************)
(* susa.kubevirt.machine_model.KVMachineModel: what it calls the things it *)
(* adds to the manifest, and what else KVMachine creates for them.  Names  *)
(* have numbers, each from the length of another list: "net0" of the       *)
(* networks, "disk0" of the volumes and "<machine>-hook0" of the hooks.    *)
(* interface() and disk() take any name, and are in these lists as well.   *)
(* A network with an IP is reached through a NetworkAttachmentDefinition   *)
(* of its own, "<machine>-net0".  The machine may be renamed meanwhile,    *)
(* not the networks and volumes.                                           *)
(***************************************************************************)
EXTENDS Naturals, Sequences, Functions, FiniteSets

CONSTANTS
    MachineNames, \* names that the machine gets
    Nets, Volumes, \* names of network and volume models
    Ips,          \* addresses
    OwnNames,     \* what users call interfaces and disks: not like a number's name
    MaxAdded,     \* bound: how many things are added
    None

VARIABLES
    name,        \* the machine's
    interfaces,  \* of the domain: a sequence of names
    networks,    \* of the spec: a sequence of [name, to]
    disks,       \* of the domain: a sequence of names
    volumes,     \* of the spec: a sequence of [name, of]
    ips,         \* [name -> IP or None], of networks that were added by network()
    attachments, \* [name -> [bridge, address]]
    hooks,       \* [name -> what script it has: that of the nth call of hook()]
    sidecars,    \* a sequence of names of hooks
    annotation,  \* the sidecars that the annotation has
    asked, kept  \* history: what interface() and network(), and disk() and volume(),
                 \* were called with: networks and IPs, and volumes

vars == <<name, interfaces, networks, disks, volumes, ips, attachments, hooks, sidecars,
          annotation, asked, kept>>

Assumptions ==
    /\ MachineNames # {} /\ None \notin Ips /\ MaxAdded \in Nat
    /\ OwnNames \cap ({"net", "disk"} \X (0 .. MaxAdded)) = {}
    /\ (Nets \cup {None}) \cap (MachineNames \X ({"net"} \X (0 .. MaxAdded))) = {}

Empty == <<>>

Init ==
    /\ name \in MachineNames
    /\ interfaces = <<>> /\ networks = <<>> /\ disks = <<>> /\ volumes = <<>>
    /\ ips = Empty /\ attachments = Empty /\ hooks = Empty
    /\ sidecars = <<>> /\ annotation = <<>>
    /\ asked = <<>> /\ kept = <<>>

Set(f, key, value) ==
    [k \in DOMAIN f \cup {key} |-> IF k = key THEN value ELSE f[k]]

Room == Len(asked) + Len(kept) + Len(sidecars) < MaxAdded

Asked(what) == Room /\ asked' = Append(asked, what) /\ UNCHANGED kept
Kept(what) == Room /\ kept' = Append(kept, what) /\ UNCHANGED asked

-----------------------------------------------------------------------------
\* interface(n, ...), whose network is reached through `to'.
Interface(n, to) ==
    /\ interfaces' = Append(interfaces, n)
    /\ networks' = Append(networks, [name |-> n, to |-> to])

AddInterface(n) ==
    /\ Asked([net |-> None, ip |-> None])
    /\ n \notin Range(interfaces)
    /\ Interface(n, None)
    /\ UNCHANGED <<name, disks, volumes, ips, attachments, hooks, sidecars, annotation>>

\* A slip: the number is that of the attachments.
NumberOfAttachments == Cardinality(DOMAIN attachments)

Number == Len(networks)

AddNetwork(net, ip) ==
    /\ Asked([net |-> net, ip |-> ip])
    /\ LET n == <<"net", Number>>
           own == <<name, n>>
       IN /\ ips' = Set(ips, n, ip)
          /\ attachments' = IF ip = None THEN attachments
                            ELSE Set(attachments, own, [bridge |-> net, address |-> ip])
          /\ Interface(n, IF ip = None THEN net ELSE own)
    /\ UNCHANGED <<name, disks, volumes, hooks, sidecars, annotation>>

\* disk(n, ...), of the volume `of'.
Disk(n, of) ==
    /\ disks' = Append(disks, n)
    /\ volumes' = Append(volumes, [name |-> n, of |-> of])
    /\ UNCHANGED <<name, interfaces, networks, ips, attachments, hooks, sidecars,
                   annotation>>

AddDisk(n) ==
    /\ Kept(None) /\ n \notin Range(disks) /\ Disk(n, None)

AddVolume(v) ==
    Kept(v) /\ Disk(<<"disk", Len(volumes)>>, v)

\* hook(), also by emulate() and cross_architecture().
AddHook ==
    /\ Room
    /\ LET n == <<name, <<"hook", Cardinality(DOMAIN hooks)>>>>
       IN hooks' = Set(hooks, n, Len(sidecars) + 1)
          /\ sidecars' = Append(sidecars, n)
    /\ annotation' = sidecars'
    /\ UNCHANGED <<name, interfaces, networks, disks, volumes, ips, attachments, asked,
                   kept>>

Rename ==
    /\ name' \in MachineNames \ {name}
    /\ UNCHANGED <<interfaces, networks, disks, volumes, ips, attachments, hooks, sidecars,
                   annotation, asked, kept>>

Next ==
    \/ \E n \in OwnNames : AddInterface(n) \/ AddDisk(n)
    \/ \E net \in Nets, ip \in Ips \cup {None} : AddNetwork(net, ip)
    \/ \E v \in Volumes : AddVolume(v)
    \/ AddHook \/ Rename

-----------------------------------------------------------------------------
\* The type invariant: each list has one thing for each call, and no more.
TypeOK ==
    /\ name \in MachineNames
    /\ asked \in Seq([net : Nets \cup {None}, ip : Ips \cup {None}])
    /\ kept \in Seq(Volumes \cup {None})
    /\ Len(asked) + Len(kept) + Len(sidecars) <= MaxAdded
    /\ Len(interfaces) = Len(asked) /\ Len(networks) = Len(asked)
    /\ Len(disks) = Len(kept) /\ Len(volumes) = Len(kept)

\* Where an interface leads, and its IP, as KVMachine.interfaces has it.
LeadsTo(i) ==
    LET to == networks[i].to
    IN [bridge |-> IF to \in DOMAIN attachments THEN attachments[to].bridge ELSE to,
        address |-> IF to \in DOMAIN attachments THEN attachments[to].address ELSE None,
        ip |-> IF interfaces[i] \in DOMAIN ips THEN ips[interfaces[i]] ELSE None]

\* Each interface is connected as it was asked for when it was added, and reports the IP
\* it was asked to have, which is the one its attachment gives: no name is given twice, in
\* whichever order interface() and network() are called and the machine renamed.
ConnectedAsAsked ==
    /\ \A i, j \in 1 .. Len(interfaces) : i # j => interfaces[i] # interfaces[j]
    /\ \A i \in 1 .. Len(asked) :
           /\ networks[i].name = interfaces[i]
           /\ LeadsTo(i) =
                 [bridge |-> asked[i].net, address |-> asked[i].ip, ip |-> asked[i].ip]
    /\ DOMAIN attachments \subseteq {networks[i].to : i \in 1 .. Len(networks)}

\* Each disk has the volume it was added with, and each hook's script is what the sidecar
\* of its place, which the annotation has, runs.
DisksAndHooksAsAsked ==
    /\ \A i, j \in 1 .. Len(disks) : i # j => disks[i] # disks[j]
    /\ \A i \in 1 .. Len(kept) : volumes[i] = [name |-> disks[i], of |-> kept[i]]
    /\ annotation = sidecars /\ Range(sidecars) = DOMAIN hooks
    /\ \A i, j \in 1 .. Len(sidecars) : i < j => hooks[sidecars[i]] < hooks[sidecars[j]]
=============================================================================
