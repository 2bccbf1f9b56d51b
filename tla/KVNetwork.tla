----------------------------- MODULE KVNetwork -----------------------------
(***************************************************************************)
(* susa.kubevirt.network and node_pod: networks that are bridges on the    *)
(* cluster's node, and sniffers of them.  The bridges are made and removed *)
(* by commands in a pod of the node's network namespace, which every       *)
(* method makes and deletes; the node's address comes onto a bridge when   *)
(* CNI (external) attaches a first machine to it.                          *)
(*                                                                         *)
(* Every method is a sequence of kubectl commands, each a step here.  Any  *)
(* may fail, those that clean up after a failure too, with its effect or   *)
(* without; and the processes that run them may be killed.                 *)
(***************************************************************************)
EXTENDS Naturals, Sequences, FiniteSets

CONSTANTS
    Networks,    \* the KVNetwork objects
    HostIp,      \* the host_ip of each
    MaxFaults    \* bound: how many commands fail, and processes are killed

Assumptions == HostIp \in [Networks -> Nat] /\ MaxFaults \in Nat

VARIABLES
    inTurn,        \* whether users attach a machine to a network before they create the
                   \* next; it never changes
    call, todo,    \* the method of each that was called, and the steps it has left
    owned, sniffed,\* whether create() of the network or its sniffer succeeded, and not destroy()
    pod, spod,     \* whether there is a pod of a create() or destroy(), of the sniffer
    bridge,        \* the bridges: "none", "down" or "up"
    address,       \* whether its address is on it
    defined,       \* whether its NetworkAttachmentDefinition is there
    machine,       \* its machine: "none", "starting" or "attached"
    tcpdump,       \* whether the sniffer's tcpdump runs, in its pod
    broken, killed,\* history: the steps of methods that failed, as <<method, step>>, and
                   \* whether the process was killed
    faults         \* how many of both, for the bound

client == <<inTurn, call, todo, owned, sniffed>>
node == <<pod, spod, bridge, address, defined, machine, tcpdump>>
vars == <<client, node, broken, killed, faults>>

AllOf(value) == [n \in Networks |-> value]

Init ==
    /\ inTurn \in BOOLEAN
    /\ call = AllOf("none") /\ todo = AllOf(<<>>)
    /\ owned = AllOf(FALSE) /\ sniffed = AllOf(FALSE) /\ machine = AllOf("none")
    /\ pod = AllOf(FALSE) /\ spod = AllOf(FALSE) /\ defined = AllOf(FALSE)
    /\ address = AllOf(FALSE) /\ tcpdump = AllOf(FALSE)
    /\ broken = AllOf({}) /\ killed = AllOf(FALSE)
    /\ bridge = AllOf("none")
    /\ faults = 0

-----------------------------------------------------------------------------
\* The methods, by their steps.

\* A slip: no look for the address.
NoCheck == <<"pod", "ready", "add", "up", "rm", "define">>

Create == <<"pod", "ready", "check", "add", "up", "rm", "define">>

Destroy == <<"undefine", "pod", "ready", "del", "rm">>

Sniff == <<"spod", "sready", "tcpdump">>
Unsniff == <<"untcpdump", "srm">>

\* A slip: the pod isn't deleted when the method fails.
NoCleanup(n) == <<>>

\* What a failing method still does: the end of `with`, or the sniffer's handler, deletes
\* the pod, when it's the body that failed.  Nobody does if it's the pod's creation that
\* raises, or its deletion; what comes before and after a pod has none to delete; and
\* the sniffer's destroy() has no handler.
Cleanup(n) ==
    CASE Head(todo[n]) \in {"ready", "check", "add", "up", "del"} -> <<"rm">>
      [] Head(todo[n]) \in {"sready", "tcpdump"} -> <<"srm">>
      [] OTHER -> <<>>

Calls(n, name, steps) ==
    /\ call[n] = "none"
    /\ call' = [call EXCEPT ![n] = name] /\ todo' = [todo EXCEPT ![n] = steps]
    /\ UNCHANGED <<inTurn, owned, sniffed, node, broken, killed, faults>>

\* Names are random: who retries a failed create() that left something makes another
\* network, so a network that is created has nothing on the node.
CallCreate(n) ==
    /\ ~owned[n] /\ ~killed[n] /\ call[n] = "none"
    /\ bridge[n] = "none" /\ ~pod[n] /\ ~defined[n]
    /\ inTurn => \A o \in Networks :
           call[o] = "none" /\ machine[o] # "starting" /\ (owned[o] => address[o])
    /\ Calls(n, "create", Create)

\* Networks are destroyed after their machines and sniffers.
CallDestroy(n) ==
    owned[n] /\ ~sniffed[n] /\ machine[n] = "none" /\ Calls(n, "destroy", Destroy)

\* A sniffer's pod has a random name too: if one was left, that sniffer was the last here.
CallSniff(n) == owned[n] /\ ~sniffed[n] /\ ~spod[n] /\ Calls(n, "sniff", Sniff)

CallUnsniff(n) == sniffed[n] /\ Calls(n, "unsniff", Unsniff)

\* Steps: what each does to the node.
Does(n, step) == todo[n] # <<>> /\ Head(todo[n]) = step
Done(n, f, value) == [f EXCEPT ![n] = value]

\* kubectl create and delete of pods and of definitions.  What runs in a pod ends with it.
Pods(n) ==
    /\ \/ Does(n, "pod") /\ pod' = Done(n, pod, TRUE) /\ UNCHANGED <<spod, defined>>
       \/ Does(n, "rm") /\ pod' = Done(n, pod, FALSE) /\ UNCHANGED <<spod, defined>>
       \/ Does(n, "spod") /\ spod' = Done(n, spod, TRUE) /\ UNCHANGED <<pod, defined>>
       \/ Does(n, "srm") /\ spod' = Done(n, spod, FALSE) /\ UNCHANGED <<pod, defined>>
       \/ Does(n, "define") /\ defined' = Done(n, defined, TRUE) /\ UNCHANGED <<pod, spod>>
       \/ Does(n, "undefine") /\ defined' = Done(n, defined, FALSE) /\ UNCHANGED <<pod, spod>>
    /\ tcpdump' = IF Does(n, "srm") THEN Done(n, tcpdump, FALSE) ELSE tcpdump
    /\ UNCHANGED <<bridge, address, machine>>

OnNode(n) == \E o \in Networks : address[o] /\ HostIp[o] = HostIp[n]

\* kubectl wait, and create()'s look at the node's addresses.
Waits(n) ==
    /\ \/ Does(n, "ready") \/ Does(n, "sready")
       \/ Does(n, "check") /\ ~OnNode(n)
    /\ UNCHANGED node

\* ip link.
Links(n) ==
    /\ \/ Does(n, "add") /\ bridge' = Done(n, bridge, "down") /\ UNCHANGED address
       \/ Does(n, "up") /\ bridge' = Done(n, bridge, "up") /\ UNCHANGED address
       \/ /\ Does(n, "del")
          /\ bridge' = Done(n, bridge, "none") /\ address' = Done(n, address, FALSE)
    /\ UNCHANGED <<pod, spod, defined, machine, tcpdump>>

\* A client of kubectl starts tcpdump; when it's killed, tcpdump goes on in the pod.
Captures(n) ==
    /\ \/ Does(n, "tcpdump") /\ tcpdump' = Done(n, tcpdump, TRUE)
       \/ Does(n, "untcpdump") /\ UNCHANGED tcpdump
    /\ UNCHANGED <<pod, spod, bridge, address, defined, machine>>

Effect(n) == Pods(n) \/ Waits(n) \/ Links(n) \/ Captures(n)

\* Steps: how the method goes on.  One that returned; one whose failure was cleaned up.
Goes(n) ==
    /\ todo' = Done(n, todo, Tail(todo[n]))
    /\ call' = IF Len(todo[n]) > 1 THEN call ELSE Done(n, call, "none")
    /\ LET returns == Len(todo[n]) = 1 IN
       /\ owned' = IF returns /\ call[n] \in {"create", "destroy"}
                   THEN Done(n, owned, call[n] = "create") ELSE owned
       /\ sniffed' = IF returns /\ call[n] \in {"sniff", "unsniff"}
                     THEN Done(n, sniffed, call[n] = "sniff") ELSE sniffed
    /\ UNCHANGED <<inTurn, broken, killed, faults>>

\* A failing destroy() isn't called again, and a failing create() never followed
\* by a destroy().
Raises(n) ==
    /\ todo' = Done(n, todo, Cleanup(n))
    /\ call' = Done(n, call, IF Cleanup(n) = <<>> THEN "none" ELSE "undo")
    /\ owned' = IF call[n] \in {"create", "destroy"} THEN Done(n, owned, FALSE) ELSE owned
    /\ sniffed' = IF call[n] \in {"sniff", "unsniff"} THEN Done(n, sniffed, FALSE)
                  ELSE sniffed

Runs(n) == Effect(n) /\ Goes(n)

\* "{ip} is already on the node".
AlreadyThere(n) ==
    /\ Does(n, "check") /\ OnNode(n) /\ Raises(n)
    /\ UNCHANGED <<inTurn, node, broken, killed, faults>>

\* A command that fails, after its effect (e.g. when the answer is lost) or without it.
Fault(n) ==
    /\ call[n] # "none"
    /\ faults < MaxFaults /\ faults' = faults + 1
    /\ Effect(n) \/ UNCHANGED node
    /\ broken' = Done(n, broken, broken[n] \cup {<<call[n], Head(todo[n])>>})
    /\ Raises(n)
    /\ UNCHANGED <<inTurn, killed>>

\* The end of a process, and of its client of kubectl: nobody cleans up.
Kill(n) ==
    /\ call[n] # "none" \/ owned[n]
    /\ faults < MaxFaults /\ faults' = faults + 1
    /\ killed' = Done(n, killed, TRUE)
    /\ call' = Done(n, call, "none") /\ todo' = Done(n, todo, <<>>)
    /\ owned' = Done(n, owned, FALSE) /\ sniffed' = Done(n, sniffed, FALSE)
    /\ UNCHANGED <<inTurn, node, broken>>

\* A machine, which its cluster starts even if the process that made it ends.
Machine(n) ==
    /\ owned[n] /\ call[n] # "destroy" /\ machine[n] = "none"
    /\ machine' = Done(n, machine, "starting")
    /\ UNCHANGED <<client, pod, spod, bridge, address, defined, tcpdump, broken, killed,
                   faults>>

\* CNI, when it's started: it gives the bridge the address, and would make the
\* bridge if there were none.
Attach(n) ==
    /\ machine[n] = "starting" /\ defined[n]
    /\ machine' = Done(n, machine, "attached")
    /\ bridge' = Done(n, bridge, "up") /\ address' = Done(n, address, TRUE)
    /\ UNCHANGED <<client, pod, spod, defined, tcpdump, broken, killed, faults>>

Detach(n) ==
    /\ machine[n] = "attached" /\ ~killed[n]
    /\ machine' = Done(n, machine, "none")
    /\ UNCHANGED <<client, pod, spod, bridge, address, defined, tcpdump, broken, killed,
                   faults>>

Next ==
    \E n \in Networks :
        \/ CallCreate(n) \/ CallDestroy(n) \/ CallSniff(n) \/ CallUnsniff(n)
        \/ Runs(n) \/ AlreadyThere(n) \/ Fault(n) \/ Kill(n)
        \/ Machine(n) \/ Attach(n) \/ Detach(n)

Spec == Init /\ [][Next]_vars

-----------------------------------------------------------------------------
\* The type invariant: what objects, calls and the node can be at, with bridges
\* where addresses and machines are and pods where captures are.
TypeOK ==
    /\ inTurn \in BOOLEAN
    /\ call \in [Networks -> {"none", "create", "destroy", "sniff", "unsniff", "undo"}]
    /\ \A n \in Networks : (todo[n] = <<>>) <=> (call[n] = "none")
    /\ {owned, sniffed, pod, spod, address, defined, tcpdump, killed}
           \subseteq [Networks -> BOOLEAN]
    /\ bridge \in [Networks -> {"none", "down", "up"}]
    /\ machine \in [Networks -> {"none", "starting", "attached"}]
    /\ \A n \in Networks : (address[n] \/ machine[n] # "none") => bridge[n] # "none"
    /\ \A n \in Networks : tcpdump[n] => spod[n]
    /\ DOMAIN broken = Networks /\ faults \in 0 .. MaxFaults

Broke(n, method, steps) == \E step \in steps : <<method, step>> \in broken[n]

\* What may have left a pod, a sniffer's pod or a bridge: the failure of a command that
\* makes or deletes it, or of one that keeps the method from getting there.
PodBroke(n) == \E method \in {"create", "destroy", "undo"} : Broke(n, method, {"pod", "rm"})

SnifferBroke(n) ==
    \/ Broke(n, "sniff", {"spod"}) \/ Broke(n, "undo", {"srm"})
    \/ Broke(n, "unsniff", {"untcpdump", "srm"})

BridgeBroke(n) ==
    \/ Broke(n, "create", {"add", "up", "rm", "define"})
    \/ Broke(n, "destroy", {"undefine", "pod", "ready", "del"})

\* A pod, and what runs in it, lasts no longer than the method or the sniffer it's for,
\* which its process survives: one that fails deletes it, unless what failed is the pod's
\* creation or deletion, or the end of the sniffer's client, which comes before.  And as
\* long as there is a sniffer, tcpdump runs.
NoPodStays ==
    \A n \in Networks :
        /\ call[n] = "none" /\ ~killed[n] /\ pod[n] => PodBroke(n)
        /\ call[n] = "none" /\ ~killed[n] /\ spod[n] => sniffed[n] \/ SnifferBroke(n)
        /\ sniffed[n] => tcpdump[n]

\* "CNI would make the bridge only for the first machine, and never remove it": a bridge
\* is there with its network, machines or not, whatever failed before; and gone after it,
\* unless the process was killed, create() failed once it was to add the bridge, or
\* destroy() until it was deleted.
BridgeLivesWithNetwork ==
    \A n \in Networks : call[n] = "none" =>
        /\ owned[n] => bridge[n] = "up"
        /\ bridge[n] # "none" => owned[n] \/ killed[n] \/ BridgeBroke(n)

\* "Another bridge with this address would take the route to the machines": no two
\* bridges have one address, if a machine is attached to each before the next is
\* made.
OneBridgePerAddress ==
    inTurn => \A n, o \in Networks : n # o /\ address[n] /\ address[o] => HostIp[n] # HostIp[o]
=============================================================================
