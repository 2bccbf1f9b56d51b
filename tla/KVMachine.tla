----------------------------- MODULE KVMachine -----------------------------
(***************************************************************************)
(* susa.kubevirt.machine: a KubeVirt machine and snapshots of its disk.    *)
(* Every method is a sequence of kubectl and virtctl commands, each a step *)
(* here; some wait for the cluster, whose controllers (external) start,    *)
(* stop and restart the machine, take snapshots and restore them on their  *)
(* own.                                                                    *)
(*                                                                         *)
(* The machine's object (VirtualMachine) has a strategy, by which its      *)
(* instance (VirtualMachineInstance) comes and goes: with "always", one    *)
(* that ends is started again.  is_powered_on is whether the instance is   *)
(* in its Running phase.  The disk is the number of times it was written.  *)
(***************************************************************************)
EXTENDS Naturals, Sequences

CONSTANTS
    Snapshots,   \* the KVSnapshot objects
    MaxWrites    \* bound: how often the guest writes

ASSUME WritesAssumption == MaxWrites \in Nat

VARIABLES
    steady,       \* whether users wait until the machine runs before they snapshot or
                  \* revert it, and guests don't end by themselves; it never changes
    call, todo,   \* the method that was called, and the steps it has left
    cur,          \* the snapshot it is of, if it's one of a snapshot's
    poweredOn,    \* was_powered_on of each snapshot
    attachments,  \* whether the machine's NetworkAttachmentDefinitions and hooks are there
    strategy,     \* the machine's: "none" (it isn't there), "always" or "halted"
    instance,     \* its instance: "none", "pending", "running" or "ending"
    disk,         \* what the guest has written
    snaps,        \* the VirtualMachineSnapshots: "none", "pending" or "ready"
    content,      \* what they have of the disk
    restore,      \* the VirtualMachineRestore: "none", "pending" or "complete"
    mark, wasUp   \* history: the disk when create() of a snapshot returned, and
                  \* whether the machine was one to run when it was called

client == <<steady, call, todo, cur, poweredOn, mark, wasUp>>
machine == <<attachments, strategy, instance, disk>>
storage == <<snaps, content, restore>>
vars == <<client, machine, storage>>

Init ==
    /\ steady \in BOOLEAN
    /\ call = "none" /\ todo = <<>> /\ cur \in Snapshots
    /\ poweredOn = [s \in Snapshots |-> FALSE]
    /\ attachments = FALSE /\ strategy = "none" /\ instance = "none" /\ disk = 0
    /\ snaps = [s \in Snapshots |-> "none"] /\ content = [s \in Snapshots |-> 0]
    /\ restore = "none"
    /\ mark = [s \in Snapshots |-> 0] /\ wasUp = [s \in Snapshots |-> FALSE]

IsPoweredOn == instance = "running"

-----------------------------------------------------------------------------
\* The methods, by their steps.

Create == <<"attach", "define">>

\* A slip: the attachments go before the instance that uses them.
DetachFirst == <<"delete", "detach", "gone">>

Destroy == <<"delete", "gone", "detach">>

PowerOn == <<"start", "ready">>
PowerOff == <<"stop", "gone">>
Reboot == <<"restart">>

\* A slip: not waiting until the snapshot is taken.
SnapAndGo == <<"note", "snap", "took">>

Snap == <<"note", "snap", "taken", "took">>

\* A slip: restoring whether or not the machine is on.
RevertOnly == <<"restore", "restored", "boot">>

Revert == <<"check", "restore", "restored", "boot">>

\* The steps a step turns into: those of power_off() and power_on() if need be.
\* A slip: whether it's to boot is asked again rather than remembered.
AsItIs(s) == IsPoweredOn

AsItWas(s) == poweredOn[s]

Sub(step) ==
    IF step = "check" /\ IsPoweredOn THEN PowerOff
    ELSE IF step = "boot" /\ AsItWas(cur) THEN PowerOn
    ELSE <<>>

-----------------------------------------------------------------------------
\* The user.  A snapshot is created once, reverted, and destroyed before the
\* machine.

Settled == steady => (strategy = "always" => instance = "running")

Calls(name, steps) == call = "none" /\ call' = name /\ todo' = steps

CallCreate ==
    /\ strategy = "none" /\ ~attachments
    /\ Calls("create", Create)
    /\ UNCHANGED <<steady, cur, poweredOn, mark, wasUp, machine, storage>>

CallDestroy ==
    /\ strategy # "none" /\ \A s \in Snapshots : snaps[s] = "none"
    /\ Calls("destroy", Destroy)
    /\ UNCHANGED <<steady, cur, poweredOn, mark, wasUp, machine, storage>>

CallPower ==
    /\ \/ strategy = "halted" /\ Calls("power", PowerOn)
       \/ IsPoweredOn /\ (Calls("power", PowerOff) \/ Calls("power", Reboot))
    /\ UNCHANGED <<steady, cur, poweredOn, mark, wasUp, machine, storage>>

CallSnapshot(s) ==
    /\ strategy # "none" /\ snaps[s] = "none" /\ Settled
    /\ Calls("snapshot", Snap)
    /\ cur' = s
    /\ wasUp' = [wasUp EXCEPT ![s] = strategy = "always"]
    /\ UNCHANGED <<steady, poweredOn, mark, machine, storage>>

CallRevert(s) ==
    /\ snaps[s] # "none" /\ Settled
    /\ \/ Calls("revert", Revert)
       \/ Calls("revert", Revert \o <<"drop">>)
    /\ cur' = s
    /\ UNCHANGED <<steady, poweredOn, mark, wasUp, machine, storage>>

\* Steps.  "gone", "ready", "taken" and "restored" wait for the cluster.
Does(step) == todo # <<>> /\ Head(todo) = step

Goes ==
    /\ todo' = Sub(Head(todo)) \o Tail(todo)
    /\ call' = IF todo' = <<>> THEN "none" ELSE call
    /\ UNCHANGED <<steady, cur, wasUp>>

\* Attachments and hooks are made before the machine and removed after it.
Attach ==
    /\ Does("attach") \/ Does("detach")
    /\ Goes
    /\ attachments' = Does("attach")
    /\ UNCHANGED <<poweredOn, mark, strategy, instance, disk, storage>>

\* kubectl create and delete of the machine, virtctl start and stop.
Order ==
    /\ \/ Does("define") /\ strategy' = "always"
       \/ Does("start") /\ strategy = "halted" /\ strategy' = "always"
       \/ Does("stop") /\ strategy' = "halted"
       \/ Does("delete") /\ strategy' = "none"
    /\ Goes
    /\ UNCHANGED <<poweredOn, mark, attachments, instance, disk, storage>>

\* virtctl start says no to a machine that starts by itself: CalledProcessError.
Refused ==
    /\ Does("start") /\ strategy # "halted"
    /\ call' = "raised" /\ todo' = <<>>
    /\ UNCHANGED <<steady, cur, poweredOn, mark, wasUp, machine, storage>>

Restart ==
    /\ Does("restart") /\ Goes
    /\ instance' = IF instance = "none" THEN "none" ELSE "ending"
    /\ UNCHANGED <<poweredOn, mark, attachments, strategy, disk, storage>>

\* kubectl wait, and what only looks.
Waits ==
    /\ \/ Does("gone") /\ instance = "none"
       \/ Does("ready") /\ IsPoweredOn
       \/ Does("taken") /\ snaps[cur] = "ready"
       \/ Does("check") \/ Does("boot")
    /\ Goes
    /\ UNCHANGED <<poweredOn, mark, machine, storage>>

Note ==
    /\ Does("note") /\ Goes
    /\ poweredOn' = [poweredOn EXCEPT ![cur] = IsPoweredOn]
    /\ UNCHANGED <<mark, machine, storage>>

Took ==
    /\ Does("took") /\ Goes
    /\ mark' = [mark EXCEPT ![cur] = disk]
    /\ UNCHANGED <<poweredOn, machine, storage>>

MakeSnapshot ==
    /\ Does("snap") \/ Does("drop")
    /\ Goes
    /\ snaps' = [snaps EXCEPT ![cur] = IF Does("snap") THEN "pending" ELSE "none"]
    /\ UNCHANGED <<poweredOn, mark, machine, content, restore>>

\* The restore is made, and deleted when it's complete.
MakeRestore ==
    /\ \/ Does("restore") /\ restore' = "pending"
       \/ Does("restored") /\ restore = "complete" /\ restore' = "none"
    /\ Goes
    /\ UNCHANGED <<poweredOn, mark, machine, snaps, content>>

-----------------------------------------------------------------------------
\* The cluster.

\* The instance follows the strategy, but not while the disk is restored.
Reconcile ==
    /\ \/ /\ strategy = "always" /\ instance = "none" /\ restore # "pending"
          /\ instance' = "pending"
       \/ instance = "pending" /\ strategy = "always" /\ instance' = "running"
       \/ strategy # "always" /\ instance \in {"pending", "running"} /\ instance' = "ending"
       \/ instance = "ending" /\ instance' = "none"
    /\ UNCHANGED <<client, attachments, strategy, disk, storage>>

\* A guest that shuts itself down, or crashes.
GuestEnds ==
    /\ ~steady /\ IsPoweredOn
    /\ instance' = "ending"
    /\ UNCHANGED <<client, attachments, strategy, disk, storage>>

GuestWrites ==
    /\ IsPoweredOn /\ disk < MaxWrites
    /\ disk' = disk + 1
    /\ UNCHANGED <<client, attachments, strategy, instance, storage>>

TakeSnapshot(s) ==
    /\ snaps[s] = "pending"
    /\ snaps' = [snaps EXCEPT ![s] = "ready"]
    /\ content' = [content EXCEPT ![s] = disk]
    /\ UNCHANGED <<client, machine, restore>>

RestoreDisk ==
    /\ restore = "pending" /\ instance = "none" /\ snaps[cur] = "ready"
    /\ restore' = "complete"
    /\ disk' = content[cur]
    /\ UNCHANGED <<client, attachments, strategy, instance, snaps, content>>

User ==
    \/ CallCreate \/ CallDestroy \/ CallPower
    \/ \E s \in Snapshots : CallSnapshot(s) \/ CallRevert(s)

Step ==
    \/ Attach \/ Order \/ Refused \/ Restart \/ Waits \/ Note \/ Took \/ MakeSnapshot
    \/ MakeRestore

Cluster == Reconcile \/ RestoreDisk \/ \E s \in Snapshots : TakeSnapshot(s)

Next == User \/ Step \/ Cluster \/ GuestEnds \/ GuestWrites

Spec == Init /\ [][Next]_vars

\* Methods go on when they can, and so do the cluster's controllers.
FairSpec ==
    /\ Spec
    /\ WF_vars(Step)
    /\ WF_vars(Reconcile) /\ WF_vars(RestoreDisk)
    /\ \A s \in Snapshots : WF_vars(TakeSnapshot(s))

-----------------------------------------------------------------------------
StepNames == {"attach", "define", "delete", "gone", "detach", "start", "ready", "stop", "restart",
              "note", "snap", "taken", "took", "check", "restore", "restored", "boot", "drop"}

\* The type invariant: what the client and the cluster can be at, with a restore
\* only ever there while the revert() that made it runs.
TypeOK ==
    /\ steady \in BOOLEAN
    /\ call \in {"none", "create", "destroy", "power", "snapshot", "revert", "raised"}
    /\ todo \in Seq(StepNames) /\ (call \in {"none", "raised"} => todo = <<>>)
    /\ cur \in Snapshots
    /\ {poweredOn, wasUp} \subseteq [Snapshots -> BOOLEAN]
    /\ attachments \in BOOLEAN
    /\ strategy \in {"none", "always", "halted"}
    /\ instance \in {"none", "pending", "running", "ending"}
    /\ snaps \in [Snapshots -> {"none", "pending", "ready"}]
    /\ {content, mark} \subseteq [Snapshots -> 0 .. MaxWrites] /\ disk \in 0 .. MaxWrites
    /\ restore \in {"none", "pending", "complete"} /\ (restore # "none" => call = "revert")

\* An instance never outlives, or comes before, the attachments it has its
\* interfaces from: create() makes them first, destroy() removes them last.
AttachedWhileUp ==
    /\ TypeOK
    /\ instance # "none" => attachments

\* "Until it's taken, what the machine writes may end up in it": nothing that the
\* guest writes after create() of a snapshot returned is in the snapshot.
NothingLater ==
    \A s \in Snapshots :
        snaps[s] # "none" /\ ~(call = "snapshot" /\ cur = s) =>
            snaps[s] = "ready" /\ content[s] <= mark[s]

\* "so reverting boots the machine again": one that was to run when its snapshot
\* was taken, and no other, is to run once revert() returned.
RevertBoots ==
    [][call = "revert" /\ call' = "none" => (strategy = "always") = wasUp[cur]]_vars

\* The same of steady machines: what was_powered_on remembers is worth something
\* however often the machine was stopped, started, reverted and restored since.
SteadyRevertBoots ==
    [][steady /\ call = "revert" /\ call' = "none" =>
        (strategy = "always") = wasUp[cur]]_vars

\* Steady machines: a revert() ends, as it gives the cluster a machine that is
\* stopped and stays so until its disk is restored.
RevertEnds == steady /\ call = "revert" ~> call = "none"
=============================================================================
