------------------------------ MODULE Parts -------------------------------
(***************************************************************************)
(* Nine components that share no state: Session, DefaultSession,           *)
(* FileTransfer, SnapshotGroup, BootWait, KVNetwork, MachineDevices,       *)
(* KVMachineModel and NetworkModel.  As no step of one is seen by another, *)
(* interleaving them would show nothing: a behaviour is one of a single    *)
(* part, with the variables of the others out of use (None).               *)
(***************************************************************************)
EXTENDS Naturals, Sequences

CONSTANTS
    \* Session
    Objects, Resources, RefsChoices, Faults, Rounds, SessionFaults,
    \* DefaultSession
    CookedObjects, Cookings, Recursion, CookingFaults,
    \* FileTransfer and SnapshotGroup
    NumFiles, Chunks, MaxCalls, Part, Size, MaxDepth, MaxSaid, MaxFaults,
    \* BootWait
    Timeouts, QuietTimes, PingTimeout, Interval, MaxTime,
    \* KVNetwork
    Networks, HostIp, NetworkFaults,
    \* MachineDevices
    Interfaces, Prefixes, Letters, Slots, MaxDisks,
    \* KVMachineModel
    MachineNames, Nets, Volumes, Ips, OwnNames, MaxAdded,
    \* NetworkModel
    Addresses, Sizes, Macs, MaxHosts, Named,
    None

VARIABLES
    part,
    refs, pc, next, round, made, created, out, host, faulty,
    asks, named, stack, raising, cooked, session, default, answers, things,
    halfway, stuck, failures,
    calls, way, moved, effects, result, temps, remote, local, archive,
    talk, state, taken, began, depth, method, commands, failed,
    now, end, quietTime, phase, until, up, written, ended, noise, reply,
    inTurn, call, todo, owned, sniffed, pod, spod, bridge, address, defined, machine,
    tcpdump, broken, killed, faults,
    disks, usb, nics, slot, raised,
    name, interfaces, networks, vdisks, volumes, ips, attachments, hooks, sidecars,
    annotation, asked, kept,
    odd, ip, hosts, connected, outcome

Sess == INSTANCE Session
    WITH N <- Objects, MaxRounds <- Rounds, MaxFaults <- SessionFaults
Cooked == INSTANCE DefaultSession
    WITH N <- CookedObjects, MaxCooked <- Cookings, MaxDepth <- Recursion,
         MaxFaults <- CookingFaults, faults <- failures
Transfer == INSTANCE FileTransfer WITH todo <- effects, outcome <- result
Group == INSTANCE SnapshotGroup WITH todo <- commands, faults <- failed
Boot == INSTANCE BootWait
KVNet == INSTANCE KVNetwork WITH MaxFaults <- NetworkFaults
Devices == INSTANCE MachineDevices
KVModel == INSTANCE KVMachineModel WITH disks <- vdisks
Net == INSTANCE NetworkModel

ASSUME PartsAssumption ==
    /\ Sess!Assumptions /\ Cooked!Assumptions /\ Transfer!Assumptions /\ Group!Assumptions
    /\ Boot!Assumptions /\ KVNet!Assumptions /\ Devices!Assumptions /\ KVModel!Assumptions
    /\ Net!Assumptions

sess == <<refs, pc, next, round, made, created, out, host, faulty>>
cook ==
    <<asks, named, stack, raising, cooked, session, default, answers, things,
      halfway, stuck, failures>>
transfer == <<calls, way, moved, effects, result, temps, remote, local, archive>>
group == <<talk, state, taken, began, depth, method, commands, failed>>
boot == <<now, end, quietTime, phase, until, up, written, ended, noise, reply>>
kvnet ==
    <<inTurn, call, todo, owned, sniffed, pod, spod, bridge, address, defined, machine,
      tcpdump, broken, killed, faults>>
devices == <<disks, usb, nics, slot, raised>>
kvmodel ==
    <<name, interfaces, networks, vdisks, volumes, ips, attachments, hooks, sidecars,
      annotation, asked, kept>>
net == <<odd, ip, hosts, connected, outcome>>

SessUnused ==
    /\ refs = None /\ pc = None /\ next = None /\ round = None /\ made = None
    /\ created = None /\ out = None /\ host = None /\ faulty = None

CookUnused ==
    /\ asks = None /\ named = None /\ stack = None /\ raising = None /\ cooked = None
    /\ session = None /\ default = None /\ answers = None /\ things = None
    /\ halfway = None /\ stuck = None /\ failures = None

TransferUnused ==
    /\ calls = None /\ way = None /\ moved = None /\ effects = None /\ result = None
    /\ temps = None /\ remote = None /\ local = None /\ archive = None

GroupUnused ==
    /\ talk = None /\ state = None /\ taken = None /\ began = None /\ depth = None
    /\ method = None /\ commands = None /\ failed = None

BootUnused ==
    /\ now = None /\ end = None /\ quietTime = None /\ phase = None /\ until = None
    /\ up = None /\ written = None /\ ended = None /\ noise = None /\ reply = None

KVNetUnused ==
    /\ inTurn = None /\ call = None /\ todo = None /\ owned = None /\ sniffed = None
    /\ pod = None /\ spod = None /\ bridge = None /\ address = None /\ defined = None
    /\ machine = None /\ tcpdump = None /\ broken = None /\ killed = None /\ faults = None

DevicesUnused ==
    disks = None /\ usb = None /\ nics = None /\ slot = None /\ raised = None

KVModelUnused ==
    /\ name = None /\ interfaces = None /\ networks = None /\ vdisks = None
    /\ volumes = None /\ ips = None /\ attachments = None /\ hooks = None
    /\ sidecars = None /\ annotation = None /\ asked = None
    /\ kept = None

NetUnused ==
    odd = None /\ ip = None /\ hosts = None /\ connected = None /\ outcome = None

Init ==
    /\ part \in {"session", "default", "transfer", "group", "boot", "kvnet", "devices",
                 "kvmodel", "net"}
    /\ IF part = "session" THEN Sess!Init ELSE SessUnused
    /\ IF part = "default" THEN Cooked!Init ELSE CookUnused
    /\ IF part = "transfer" THEN Transfer!Init ELSE TransferUnused
    /\ IF part = "group" THEN Group!Init ELSE GroupUnused
    /\ IF part = "boot" THEN Boot!Init ELSE BootUnused
    /\ IF part = "kvnet" THEN KVNet!Init ELSE KVNetUnused
    /\ IF part = "devices" THEN Devices!Init ELSE DevicesUnused
    /\ IF part = "kvmodel" THEN KVModel!Init ELSE KVModelUnused
    /\ IF part = "net" THEN Net!Init ELSE NetUnused

\* A step of p leaves all but p's variables alone.
Only(p) ==
    /\ part = p /\ UNCHANGED part
    /\ IF p = "session" THEN TRUE ELSE UNCHANGED sess
    /\ IF p = "default" THEN TRUE ELSE UNCHANGED cook
    /\ IF p = "transfer" THEN TRUE ELSE UNCHANGED transfer
    /\ IF p = "group" THEN TRUE ELSE UNCHANGED group
    /\ IF p = "boot" THEN TRUE ELSE UNCHANGED boot
    /\ IF p = "kvnet" THEN TRUE ELSE UNCHANGED kvnet
    /\ IF p = "devices" THEN TRUE ELSE UNCHANGED devices
    /\ IF p = "kvmodel" THEN TRUE ELSE UNCHANGED kvmodel
    /\ IF p = "net" THEN TRUE ELSE UNCHANGED net

SessionStep == Only("session") /\ Sess!Next
DefaultStep == Only("default") /\ Cooked!Next
TransferStep == Only("transfer") /\ Transfer!Next
GroupStep == Only("group") /\ Group!Next
BootStep == Only("boot") /\ Boot!Next
KVNetStep == Only("kvnet") /\ KVNet!Next
DevicesStep == Only("devices") /\ Devices!Next
KVModelStep == Only("kvmodel") /\ KVModel!Next
NetStep == Only("net") /\ Net!Next

Next ==
    \/ SessionStep \/ DefaultStep \/ TransferStep \/ GroupStep \/ BootStep \/ KVNetStep
    \/ DevicesStep \/ KVModelStep \/ NetStep

vars == <<part, sess, cook, transfer, group, boot, kvnet, devices, kvmodel, net>>

Spec == Init /\ [][Next]_vars

-----------------------------------------------------------------------------
\* Whatever fails or is interrupted, a session loses only the object that it happened to,
\* and destroys what it created, once (Session).
SessionLosesNothing == part = "session" => Sess!CreatedOnce /\ Sess!OnlyItsOwnFault

\* A session's objects go before those they refer to, and refer to objects of their own
\* round (Session).
SessionInOrder ==
    [][part = "session" => Sess!DependentsFirst /\ Sess!RefsOfThisRound]_sess

\* One session, cooked once, is the default of everybody, and of one that couldn't be
\* cooked there's only what its failing create() and destroy() left (DefaultSession).
OneDefault == part = "default" => Cooked!OneDefault

\* A transfer that returns moved its files, and one that fails while the data is under way
\* changed none (FileTransfer).
MovedOrUnchanged ==
    /\ [](part = "transfer" => Transfer!TypeOK /\ Transfer!ReturnedMeansMoved)
    /\ [][part = "transfer" => Transfer!ChangedOnceArrived]_transfer

\* Machines saved and reverted one after another have states that fit together, and are
\* as they were (SnapshotGroup).
GroupIsOne ==
    /\ [](part = "group" => Group!OneCut /\ Group!GroupIsWhole)
    /\ [][part = "group" => Group!AllAsBefore]_group

\* A machine that is called booted answered and was quiet; one is given up on, or the
\* wait ends, for a reason (BootWait).
BootedForAReason ==
    part = "boot" =>
        Boot!TypeOK /\ Boot!BootedMeansQuiet /\ Boot!GivenUpForAReason /\ Boot!EndsInTime

\* Pods and bridges last as long as what they're for, and no longer unless deleting them,
\* or getting there, failed; and with machines attached in turn, no two bridges of the node
\* have one address (KVNetwork).
NodeIsClean ==
    part = "kvnet" =>
        /\ KVNet!TypeOK /\ KVNet!NoPodStays /\ KVNet!BridgeLivesWithNetwork
        /\ KVNet!OneBridgePerAddress

\* Devices have names in order and slots of their own, while there are any
\* (MachineDevices); those of a KubeVirt machine are connected as they were asked for when
\* they were added (KVMachineModel).
DevicesDiffer ==
    /\ part = "devices" =>
        /\ Devices!TypeOK /\ Devices!NamesInOrder
        /\ Devices!OneDevicePerSlot /\ Devices!FullWhenRefused
    /\ part = "kvmodel" =>
        KVModel!TypeOK /\ KVModel!ConnectedAsAsked /\ KVModel!DisksAndHooksAsAsked

\* DHCP has all of the hosts, and interfaces have IPs that were free (NetworkModel).
FreeIps == part = "net" => Net!TypeOK /\ Net!RangesAreTheHosts /\ Net!FreeIps
=============================================================================
