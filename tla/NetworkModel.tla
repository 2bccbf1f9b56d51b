--------------------------- MODULE NetworkModel ----------------------------
(***************************************************************************)
(* susa.libvirt.network_model: the builder of a libvirt network, which     *)
(* lays out its DHCP ranges and reserves an IP for each interface.         *)
(*                                                                         *)
(* Addresses are numbers and a netmask is the size of the network, a power *)
(* of two.  Of the XML there's the <ip> element, with its DHCP and the     *)
(* hosts in it in their order.                                             *)
(***************************************************************************)
EXTENDS Integers, Sequences

CONSTANTS
    Addresses,   \* the addresses there are, an interval
    Sizes,       \* the sizes of networks
    Macs,        \* the interfaces, by their MAC addresses
    MaxHosts,    \* bound: how many hosts there are when an interface is given again
    Named        \* an interface that a host has by its name only, in parsed networks

\* Sizes are powers of two, so that the network of an address has only addresses.
Assumptions ==
    /\ Addresses \subseteq Nat \ {0} /\ Sizes \subseteq Nat \ {0} /\ Named \notin Macs
    /\ \A a \in Addresses, s \in Sizes :
           a - (a % s) .. a - (a % s) + s - 1 \subseteq Addresses

VARIABLES
    odd,        \* whether the network was parsed and interfaces are given twice; it
                \* never changes
    ip,         \* the <ip> element: its address and size, and whether it has <dhcp>
    hosts,      \* the hosts in <dhcp>: the MAC and IP of each
    connected,  \* the interfaces that have the network as their source
    outcome     \* of the last call: "none", "returned" or "raised"

vars == <<odd, ip, hosts, connected, outcome>>

Elements == [address : Addresses, size : Sizes, dhcp : BOOLEAN]

First(net) == net.address - (net.address % net.size)
Last(net) == First(net) + net.size - 1

\* ipaddress's hosts(): all but the first and the last, unless there are only those.
HostsOf(net) ==
    IF net.size <= 2 THEN First(net) .. Last(net) ELSE First(net) + 1 .. Last(net) - 1

\* Those that aren't empty, of below and above the network's own address.
Ranges(net) ==
    {r \in {<<First(net) + 1, net.address - 1>>, <<net.address + 1, Last(net) - 1>>} :
        r[1] <= r[2]}

\* A dictionary: of hosts with one MAC it has the last.
GetHosts ==
    {hosts[k].ip : k \in {j \in 1 .. Len(hosts) :
        /\ hosts[j].mac # Named
        /\ \A l \in j + 1 .. Len(hosts) : hosts[l].mac # hosts[j].mac}}

\* A slip: the network's own address counts as free.
OnlyHosts == GetHosts

Used == {ip.address} \cup GetHosts

Free == {a \in HostsOf(ip) : a \notin Used}
NextFree == CHOOSE a \in Free : \A b \in Free : a <= b

NoIp == [address |-> 0, size |-> 0, dhcp |-> FALSE]

\* A new model; or one of the XML of a network with a host that has a name.
Init ==
    /\ odd \in BOOLEAN /\ connected = {} /\ outcome = "none"
    /\ \/ ip = NoIp /\ hosts = <<>>
       \/ /\ odd /\ ip \in {net \in Elements : net.dhcp}
          /\ \E a \in HostsOf(ip) \ {ip.address} : hosts = <<[mac |-> Named, ip |-> a]>>

NewHosts == <<>>

\* ip(): the new element replaces the one before, with its hosts.
Ip(net) ==
    /\ ip' = net /\ hosts' = NewHosts /\ outcome' = "returned"
    /\ UNCHANGED <<odd, connected>>

Reserve(mac, address) ==
    /\ hosts' = Append(hosts, [mac |-> mac, ip |-> address])
    /\ outcome' = "returned"

Raise == outcome' = "raised" /\ UNCHANGED hosts

\* interface(), with the next free IP or, without DHCP, none.
Interface(mac) ==
    /\ (odd /\ Len(hosts) < MaxHosts) \/ mac \notin connected
    /\ connected' = connected \cup {mac}
    /\ \/ ip.dhcp /\ Free # {} /\ Reserve(mac, NextFree)
       \/ ip.dhcp /\ Free = {} /\ Raise
       \/ ~ip.dhcp /\ outcome' = "returned" /\ UNCHANGED hosts
    /\ UNCHANGED <<odd, ip>>

\* interface() with an IP, which users see to that is free.
InterfaceAt(mac, address) ==
    /\ mac \notin connected /\ (ip.dhcp => address \in Free)
    /\ connected' = connected \cup {mac}
    /\ \/ ip.dhcp /\ Reserve(mac, address)
       \/ ~ip.dhcp /\ Raise
    /\ UNCHANGED <<odd, ip>>

Next ==
    \/ \E net \in Elements : Ip(net)
    \/ \E mac \in Macs : Interface(mac) \/ \E a \in Addresses : InterfaceAt(mac, a)

Spec == Init /\ [][Next]_vars

-----------------------------------------------------------------------------
\* The type invariant: of what there is, with hosts only in <dhcp>.
TypeOK ==
    /\ odd \in BOOLEAN
    /\ ip \in Elements \cup {NoIp}
    /\ hosts \in Seq([mac : Macs \cup {Named}, ip : Addresses]) /\ (hosts # <<>> => ip.dhcp)
    /\ connected \subseteq Macs
    /\ outcome \in {"none", "returned", "raised"}

\* What DHCP hands out is every address of a host but the network's own.
RangesAreTheHosts ==
    ip.dhcp /\ ip.size > 2 =>
        UNION {r[1] .. r[2] : r \in Ranges(ip)} = HostsOf(ip) \ {ip.address}

\* "Picks free IPs": no two interfaces, whoever chose their IPs, have one IP, or the
\* network's own, or one that is no host's in the network as it is now, unless the
\* network was parsed or an interface was given twice.
FreeIps ==
    ~odd =>
    /\ \A k \in 1 .. Len(hosts) : hosts[k].ip \in HostsOf(ip) \ {ip.address}
    /\ \A k, l \in 1 .. Len(hosts) : k # l => hosts[k].ip # hosts[l].ip

=============================================================================
