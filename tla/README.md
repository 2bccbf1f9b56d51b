# SUSA in TLA+

SUSA is a Python library for working with machines: it makes networks, volumes, machines and communicators, each a
`Resource` with `create()` and `destroy()`, on libvirt or on KubeVirt. It's a thin layer: most of what it does is one
command of another program (`virsh`, `kubectl`, `podman`, `ip`, `ssh`, a shell). What is hard to get right in it is what
happens between those commands: other processes, guests and controllers go on, any of them may fail, and the process
itself may be killed. That is what these modules are about. `src/` below is the repository.

Theorems are in the modules named `...Proofs` (`tlapm PartsProofs.tla`); everything else is model-checked on the instances
of the `.cfg` files, e.g. with `tlc -config Parts.cfg MCParts`. `PROJECT.json` lists the runs, and for each definition of the modules the
lines of `src/` it stands for.

## Inventory

| Component | State | Operations | What is hard |
|---|---|---|---|
| Subnet reservations (`utilities/networking.py`) | `TAKEN` and `FILES` of a process, `index` of a reservation, the kernel's record locks, the host's routes | `create`, `destroy` | processes interleave; POSIX locks belong to a process and a file, not to a descriptor; crashes |
| Sessions and resources (`recipes`, `core/resource.py`) | `_made`, `_created` | `create`, `destroy`, `Reference.resolve`, `Recipe.make` | failures and interrupts at any point; rounds |
| Shell communicator (`shell.py`, `login.py`, `ssh.py`, ...) | the stream, what was typed and not yet read | `create` with `attach`, `run`, `destroy` | machines that boot, lost input, late answers, timeouts |
| Commands on this system (`core/communicator.py`, `Guard`) | process, guard, pipes | `HostAsyncCommand`, `AsyncCommandRunner.run`, `pings` | full pipes, processes left behind, SIGKILL |
| Unix communicator (`unix.py`) | FIFO, output and status files on the machine; temporary files of transfers | `run`, `start`, `read`, `write`, `poll`, `kill`, `wait`, `close`; `upload`, `download`, `upload_single`, `download_single` | background processes that inherit descriptors, polling; commands that fail half-way |
| Libvirt container and defaults (`podman/container.py`, `core/variable.py`) | container, guard, directory, stack of defaults, environment | `create`, `destroy`, `Variable.get/set` | overlap, SIGKILL, removal in the background |
| Saved states (`libvirt/state.py`, `machine.py`, `volume.py`) | the resources that are kept, the directory, domains and volumes | `save`, `create`, `destroy` | guests go on between commands, commands fail |
| Libvirt network models (`network_model.py`) | the `<ip>` element and its DHCP hosts | `ip`, `interface` | free IPs as the network changes and fills up |
| Libvirt machine models (`machine_model.py`) | disks and PCI slots | `disk`, `usb`, `interface` | names past "z", two slots |
| KubeVirt machines and snapshots (`kubevirt/machine.py`) | `was_powered_on`; the cluster's objects | `create`, `destroy`, `power_*`, `reboot`, snapshot `create`, `revert`, `destroy` | controllers and guests act on their own |
| KubeVirt networks and sniffers (`network.py`, `node_pod.py`) | pods, bridges and addresses of a node | `create`, `destroy` | CNI acts later, failures, kills |
| Waiting for machines (`core/machine.py`, `generic.py`, `stream.py`) | a deadline, a console | `wait_until_booted`, `wait_until`, `ping`, `wait_until_quiet` | one deadline for everything |
| Default session (`environment.py`) | the cached session, the cached default | `session`, `default` | calls from within itself, exceptions through nested calls |
| Groups of snapshots (`core/machine.py`, `LVSnapshot`) | the snapshots | `create`, `revert`, `destroy` | machines run and talk meanwhile; groups nest, and fail half-way |
| KubeVirt machine models (`kubevirt/machine_model.py`) | networks, volumes, hooks, and what is numbered by them | `network`, `interface`, `volume`, `disk`, `hook`, `name` | names by the lengths of lists |
| Files of streams, keys, models' XML and manifests, recipes' schema, plugins, scripts | | | |

They interact through resources: a session creates a reservation, a network on its subnet, a volume, a machine and a
communicator, in that order, and destroys them in reverse. `SubnetReservation.LOCK` and libvirt's `URI` are `Variable`s,
which containers set. `ShellCommunicator` runs a client (`ssh`) through a communicator of this system (`HostCommand`) or
of another machine (`UnixCommand`). Guards are shared by commands and containers. There are no callbacks or threads but
for those that read a command's output.

## What each component has to get right

- Reservations: nobody else has the same /24, none overlaps a route, a free one is found, `destroy()` never fails.
- Sessions: a fault of one object loses no other; nothing is destroyed twice, or before what refers to it.
- Shells: `run()` returns that command's output and exit code; attaching works in the end; timeouts are recovered from.
- Commands: all of the output, no deadlock, and nothing that survives the call or this process.
- Unix commands: `run()` ends, the end of output isn't reported before it's there, the end of input is seen when it's closed.
- Transfers: one that returns moved its files; one that fails on the way of the data changed none.
- The default session: one, for everybody; one that fails to be cooked destroys what it created, as far as that can be.
- Groups: states that fit together, and the machines as they were.
- Containers: the default is one that runs, for this process and those it starts, and nothing is left behind.
- Saved states: memories fit volumes, also after failures; a failing `create()` cleans up.
- Models: names, slots and IPs are free.
- KubeVirt: a revert gives back what was; pods, bridges and attachments last as long as what they're for.
- Booting: whoever is told "booted", or of a timeout, is told so for a reason.

## Modules

| Module | Models | How |
|---|---|---|
| `SubnetTable` | the promise of reservations | a table of which reservation has which /24 |
| `SubnetReservation` | `networking.py:79-161` | a step per system call that others can see: `ReadRoutes`, `OpenLockFile`, `PassOver`/`Reserve`/`GiveUp` (the loop), `UnlockByte`, `Forget`; the kernel's `Lock`, `Unlock`, `DropAll`; `Kill`, `Restart` |
| `SubnetReservationProofs`, `PartsProofs`, `UnixCommandProofs`, `HostCommandProofs`, `ContainerProofs`, `KVMachineProofs`, `ShellProofs`, `SavedStateProofs` | | theorems of the modules they're named after, see below |
| `Session` | `session.py:43-63`, `Reference.resolve`, `Recipe.make` | a step per call of a resource; `CreateFails`, `DestroyFails`, `Interrupt`, `DestroyInterrupted` |
| `DefaultSession` | `environment.py:14-35`, `Session.create`, `HOST` | a stack of the calls of `session()` under way, each with what it created; an exception in one of them destroys that one by one (`DestroyLast`) until it leaves the call (`Unwound`) or a `destroy()` raises (`DestroyFails`); `halfway` and `stuck` only remember whose `create()` and `destroy()` failed |
| `CommandRunner` | the promise of `CommandRunner.run` (`communicator.py:41-50`) | which call is at work, and what became of each |
| `Shell` | `shell.py:15-160`, `OutputStream.read_until` and `wait_until_quiet` | the client by what it waits for (`pc`), the terminal and the shell by `wire`, `tty` and `out`; `calm` and `lost` only remember what properties need |
| `HostCommand` | `communicator.py:95-200`, `Guard`, `pings` | one command, with its group, its pipe and its guard |
| `UnixCommand` | `unix.py:44-54, 141-257` | a step per command of the communicator, and one per descriptor that a background process closes |
| `FileTransfer` | `unix.py:60-138` | a call is the sequence of the effects of its commands, and is cut short by `Fail` |
| `Container` | `container.py:28-128`, `Variable`, `Guard` | a step per command; one stack and one environment variable stand for the three that are set together |
| `SavedState` | `state.py`, `LVMachine` and `LVVolume` `create`, `destroy`, `save`, `restore` | where a method is (`step`, `index`): a step per `virsh` command, in a loop over the resources, e.g. `Look`, `Memorizes`, `Copies`, `Resumes`, `Pickle` for `save()`; `Undefine` asks whether a machine is on and powers it off in two |
| `KVMachine` | `kubevirt/machine.py:26-161` | a method is a sequence of steps, one per `kubectl` or `virtctl` command; and KubeVirt's controllers |
| `KVNetwork` | `kubevirt/network.py`, `node_pod.py` | the same, and CNI's bridge plugin; any step may fail, with its effect or without (`Fault`), and its process be killed (`Kill`); `broken` only remembers which steps of which methods failed |
| `NetworkModel` | `network_model.py:12-98` | addresses are numbers, netmasks are sizes |
| `SnapshotGroup` | `core/machine.py:58-75`, `libvirt/machine.py:39-50` | a step per `virsh` command; a machine is whether it's on, and how many messages it sent and got |
| `KVMachineModel` | `kubevirt/machine_model.py:17-41, 77-155` | names are pairs of a kind and a number; the calls made are kept, to be compared with |
| `MachineDevices` | `machine_model.py:134-177, 257-278` | letters are numbers, slots are a sequence |
| `BootWait` | `machine.py:158-179`, `wait_until`, `Deadline`, `ping`, `wait_until_quiet` | a clock that ticks only while the program waits |
| `Parts` | the nine components that are small and share nothing: `Session`, `DefaultSession`, `FileTransfer`, `SnapshotGroup`, `BootWait`, `KVNetwork`, `MachineDevices`, `KVMachineModel`, `NetworkModel` | an instance of each; a behaviour is one of a single part, as interleaving them would show nothing |
| `MC*` | instances for TLC | `MCParts` is one of `Parts` |

What isn't in `src/` is external: the kernel's locks, processes and pipes, terminals and shells, podman, libvirt,
KubeVirt, CNI, guests and users. They're modelled from how the code uses them, with as much freedom as it has to cope
with: `Shell.Arrive` may lose input before the shell is set up, since `attach()` is written for that.

Each of these modules is composed of the code's own steps and the external ones in `Next`. In comments, "a slip" marks an
alternative form of a definition that a plausible mistake would give (a dropped guard, a swapped order). They aren't part
of the specifications: replacing the definition after it by the slip makes TLC refute a property, which shows that the
property depends on that code.

### Refinements

- `SubnetReservation` implements `SubnetTable`: `has[r]` is `index[r]` while `r` is reserved.
- `Shell` and `HostCommand` implement `CommandRunner`: what a caller of `run()` can tell is that its call was made, and
  then that it returned the whole answer of its own command, or was late. Attempts to attach, streams, terminals, pipes
  and guards are stutters. `Shell` says what became of each of its calls; `HostCommand` has one. `Shell` does so when
  only the last of its calls ignores interrupts.

All three are checked by runs and proved.

`UnixCommand` isn't shown to: its `run()` is what returns the output of its own command by having a file for it, and
what can be wrong there (the end of the output, the end of the input, waiting forever) has its own properties.

## Runs

Bounds are the constants named `Max...` and the sizes of sets, and are in the `.cfg` files. `CHECK_DEADLOCK FALSE` is
where the system may stop: a process that is dead, a program that is done, bounds that are used up.

| Run | Bounds, and why they're enough | Shows |
|---|---|---|
| `SubnetReservation_crash` | two processes, three reservations of one lock file (which has two names) and one of another, two /24s: one process with two reservations in a file and another competing for the same bytes, more reservations than subnets, any routes | `TypeOK`, `Exclusive`, `Locked`, `DestroyFindsItsEntries`; that `SubnetTable` is implemented; `FreeSubnetIsFound` |
| `Shell_attach` | three attempts, so that two leave something behind; a command that ends, one that only an interrupt ends, and at the end one that nothing ends | that `CommandRunner` is implemented; `InStep`, `CalmAttachSucceeds`, `RunEnds` |
| `HostCommand_calls` | more output than the pipe holds, two processes left behind | that `CommandRunner` is implemented; `LeavesNothing`, `CallEnds`, `GuardedStops` |
| `UnixCommand_streams` | two writes, three pieces of output, commands that read their input to its end and those that don't, used by `run()` and by others | `EndMeansAllRead`, `EndsOnlyWhenClosed`, `CloseIsSeen`, `CallsReturn` |
| `Container_defaults` | two containers, created again and again, nested and not, a process in a container and not | `DefaultIsLive`, `ChildrenAgree`, `NothingLeft`, `RemovedAfterwards` |
| `KVMachine_snapshots` | two snapshots (one is taken and reverted while the other is there), two writes (before and after one), machines that do anything at any time and steady ones | `AttachedWhileUp`, `NothingLater`, `SteadyRevertBoots`, `RevertEnds` |
| `SavedState_faults` | two machines, each after its volume, so that one is off or saved while the other runs, and one is kept while the other fails; two writes, one on each side of a save; three boots; two failures, of which one may be in destroying after the other | `Coherent`, `SavedTogether`, `GoesOn`, `SaveGivesBack`, `OneLeftAtMost` |
| `Parts` | `Session`: four objects, three of them resources, in two sessions, one of which refers forwards; three rounds, so that a third finds what two left; three faults. `DefaultSession`: three objects, any of which ask; three cookings nest, a fourth comes after a failure; two failures, so that a `create()` fails half-way and a `destroy()` after it, with another object still to be destroyed. `FileTransfer`: two files, two commands for the data; three calls, so that one follows two that failed. `SnapshotGroup`: two machines, two nested groups, a message from each, a failure. `BootWait`: a timeout of zero, one shorter, one as long and one longer than what pings and quiet take. `KVNetwork`: two networks with one address; two failures or kills, so that cleaning up after a failure fails too. `MachineDevices`: two letters and seven disks (names of one to three), two slots for three kinds of devices. `KVMachineModel`: four things added, two names each. `NetworkModel`: sizes 1, 2, 4 and 8, three interfaces, so that they fill up | `SessionLosesNothing`, `SessionInOrder`, `OneDefault`, `MovedOrUnchanged`, `GroupIsOne`, `BootedForAReason`, `NodeIsClean`, `DevicesDiffer`, `FreeIps`, each the conjunction of what a module's own comments state |

Where a run has both well-behaved and other users (`nested`, `steady`, `inTurn`, `odd`, `readsAll`, `how`, `talk`, `asks` and `refs`), a
variable that never changes says which; properties that only hold of the former have it as their premise, and everything
else is checked of both.

Four more runs end in a counterexample, and are about what the code doesn't do as it says:

- `SubnetReservation_stale`: routes are read before a byte is locked. A process killed in between, with its network up,
  frees the byte and leaves the route, and another process reserves that subnet (`networking.py:85, 119`).
- `UnixCommand_close`: closing the stream of a command that exited raises, as `kill` finds nothing to kill
  (`unix.py:205`). `ShellCommunicator.create` closes such a stream before it connects again.
- `KVMachine_starting`: `was_powered_on` of a machine that is still starting is false, so that reverting to the snapshot
  leaves it off (`machine.py:37`).
- `DefaultSession_nested`: `session()` is only cached when it returns. An object of its recipe that takes the default host
  as it's made (`ssh.py:44`) has the recipe cooked again in the middle of its cooking, until Python's recursion limit
  (`environment.py:14, 24`). `OneDefault` shows that nothing is left of all these
  but by a `create()` or `destroy()` that failed, and that other recipes are fine.

### Fairness

Safety needs none. Liveness has weak fairness of what goes on by itself: a process that isn't killed takes its next step
(`Step`, `Client`, `Python`, `Call`), readers read, guards wake up when their pipe closes, a terminal and a shell that
has something to read do so, KubeVirt's controllers reconcile. Nothing is assumed of calls, faults, kills, machines that
boot, or users. A command that may exit does in the end in `UnixCommand` and `HostCommand` (`CommandExits`, `Exits`), but there
is no bound on when; in `Shell` one may not. Timeouts are fair where the code has one: the timeout of `run()` in `Shell`
(`Late`), that of `pings` in `HostCommand`; `UnixCommand`'s (`TimesOut`) isn't, as its `run()`
makes its calls in turn and returns when the command exits, which nothing but its input may keep it from; `AsyncCommandRunner.run` is shown to end without one. `Shell` assumes of time
that a shell that is there does what it has to within `SETUP_ATTEMPT_TIMEOUT` and `RECOVERY_QUIET_TIME` (`Silent`): the
code's constants are chosen for that.

## What the properties leave out

These are behaviours of the code that the modules have, and that the properties above are written around. Each was met
while modelling; none contradicts what the repository says clearly enough to have a run of its own.

- `TAKEN` and `FILES` are keyed by name, locks by file: a process that names a lock file in two ways loses locks. The
  theorems assume `NoAliases`, and `MCSubnetReservation` has two names used by two processes.
- A `destroy()` that raises ends `Session.destroy()`; the rest stays in `_created` and nothing calls it again. In the
  default session nobody can: `session()` raised, so nobody has it. What that `destroy()` kept from being destroyed stays,
  and so does what a `create()` that raised had made by then (`session.py:52-63`); `OneDefault` says that nothing else does
  (`Left`).
- A `run()` whose command ignores the interrupt raises while that command still runs, and the next `run()` takes its
  output and marker for its own (`shell.py:146-152`; TLC shows this with two commands, the first of them obstinate, when
  `OwnAnswers` is stated without `lost`). In `Shell_attach` such a command comes last, and `InStep` and `OwnAnswers` say
  nothing once `run()` gave up on one (`lost`).
- Of the commands of `destroy()` in `SavedState` only powering off a machine that shut itself down fails (`Fault`); a
  state that failed there is destroyed again, or left. What any failing `destroy()` does to the rest is in `Session`.
- Machines of a state that were left behind are not booted by anyone (`PowerOn` is of those that are kept).
- A process killed between `Popen` and its `Guard` leaves the command running (`GuardedStops` begins with the guard).
  A kill during `podman run`, or between a container's directory and its guard, leaves the container or the directory
  (`RemovedAfterwards` excludes both).
- Writing to a `UnixCommand` that is gone waits for a reader forever. One that `run()` was late for goes on, with its
  files, as nothing kills it.
- `HostCommand` has no timeout of the reading after `wait()` (`communicator.py:117-118`), and no error of `pings` but its
  timeout; `UnixCommand` reads all that's there or none of it, and its commands end when they're killed.
- An interface that brings a PCI address with a slot that isn't one of the architecture's (5 on MIPS,
  `tests/libvirt/test_models.py:243-253`) keeps it, and takes none of those that `MachineDevices` gives out, which leaves
  it out.
- A transfer that fails leaves its temporary files on the machine; what it was to replace is as it was.
- Groups of snapshots whose machines send messages while they're taken are only a cut for messages of the machines that
  are taken later to those taken earlier; and the same while they're reverted (`talk`).
- Names that the user gives to networks and volumes of a `KVMachineModel` may be the ones it would give itself later, e.g.
  "net1".
- Containers that overlap without being nested restore each other's environment (`nested`).
- Two `KVNetwork`s with one `host_ip`, both created before either has a machine, both pass the check for it (`inTurn`).
- When the deletion of a pod fails, the pod stays; a failing `create()` or `destroy()` of a network that isn't followed by
  another leaves its bridge, and `KVSniffer.destroy()` deletes no pod when it can't end its client (`network.py:98-100`).
  Nothing tries again. `PodBroke`, `SnifferBroke` and `BridgeBroke` name the steps for which `NodeIsClean` allows this, by
  method; that any other failure is cleaned up after is what it says. `tcpdump` goes on when its client ends, until its pod
  is deleted (`DESIGN.md:67`).
- An IP reserved for a host by name, or for an interface given twice, counts as free (`odd`).
- A `KVSnapshot` of a machine whose guest shuts down, or that restarts, may leave it off or never end reverting (`steady`).

## Proofs

Each theorem holds for every value of the constants that meets the module's assumptions. Each module of proofs has an
inductive invariant `IInv` (that of `Parts` has one per component), the lemma that `Init` has it, a lemma per action or group of actions that it's kept, and from
these the theorems. None of the invariants that are proved is inductive by itself; what is added says where the code is,
and what follows from that.

**`SubnetReservationProofs`**, for any processes, reservations, files and names, ranges and routes: `TypeCorrect`
(`TypeOK`), `SubnetsExclusive` (`Exclusive`), `ReservationsStayLocked` (`Locked`), `DestroyNeverFails`
(`DestroyFindsItsEntries`), and `TableImplemented`: `Spec` implements `SubnetTable`. The assumptions are those on the types
of the constants, and `NoAliases`: a process has one name for a lock file. Other processes may have others.

That two reservations of two processes differ follows from their locks; of two in one process, for which the kernel's
locks are no obstacle, from `TAKEN`; that the locks are still there, from nothing having closed the file, which depends on
`TAKEN` having an entry for every reservation, and on none having been removed for another. So the inductive invariant is

    IInv == TypeOK /\ CurOK /\ OwnOnce /\ UpOK /\ DestroyFindsItsEntries /\ Locked

with `CurOK` (a process that is busy is so with a reservation of its own, which has or hasn't an index as fits the step),
`OwnOnce` (a process' reservations through one name have different indexes) and `UpOK` (networks are only up on
reservations). `Exclusive` follows: two owners can't both have the lock, and one owner's reservations, which by
`NoAliases` have one name, differ by `OwnOnce`. For the refinement `Reserve` is `Acquire`, `UnlockByte` and `Kill` are
`Release`, and everything else is a stutter.

**`PartsProofs`**, for any constants that the nine components' own `Assumptions` allow, which are mostly on types: all that
the run `Parts` checks. The bounds of the run are constants as well, so this is so for any number of objects, rounds, files,
machines, networks, disks, faults and so on. Each component has an inductive invariant of its own, of which the steps of
the others know nothing (`PartStays`):

| Theorem | Of | Its invariant, and why it's needed |
|---|---|---|
| `SessionFaultsAreTheirOwn` (`SessionLosesNothing`), `SessionGoesInReverse` (`SessionInOrder`) | `Session` | `SessionIInv`. `SessionMadeInOrder`: objects are made in the recipe's order, each after those it refers to, and those before the one `create()` is at are of this round although `_made` keeps older ones; so a reference that resolves does so to one of this round. `SessionCreatedInOrder`: `_created` has things of this round in that order, and before the one that is being destroyed; so what is popped is later than all that is left, and nothing is there twice |
| `DefaultIsOne` (`OneDefault`) | `DefaultSession` | `CookIInv`, of the stack of calls of `session()`. `CookStack`: each has created a prefix of the recipe in which nothing asks, they're different cookings, and none goes on once a session is cached. `CookThings`: what those calls and the cached session created is on the host, and what else is there was left by a `create()` or `destroy()` that failed; so nothing when they're gone and none did. `CookAnswers`: who has an answer has the cached one's. `CookNested`: if nothing asks there's one call at a time, and another only after a failure |
| `TransfersMove` (`MovedOrUnchanged`) | `FileTransfer` | `TransferIInv`. What is left of a call is the last effects of its method's plan (`TransferLeft`), and what temporary files, files and archive are is a function of how many were done (`UploadDid`, `DownloadDid`, ...): files only change once a temporary file has all of the data, and when nothing is left all have been moved. The plans have as many appends as there are pieces of data, and as many effects as there are files, for any number of each |
| `GroupStaysOne` (`GroupIsOne`) | `SnapshotGroup` | `GroupIInv`. `GroupUnderWay`: the commands left are those of the machines that the method hasn't got to (`GroupBack`, `GroupGone`). `GroupWhole`: which machines then have a snapshot at which level. `GroupQuiet`: if machines are quiet, snapshots are of when `create()` was called, and what is reverted is so again. `GroupUp`, `GroupUpFits`: if messages only go to machines before their sender, what a machine heard of another, now or when it was saved, the other had said by now or by when it was saved, in each case of which of the two the method has got to |
| `BootedMeansBooted` (`BootedForAReason`) | `BootWait` | `BootIInv`. `BootPhases`: what the clock may be in each phase, relative to the deadline, the ping's timeout and the interval; and that while it reads, the console was quiet since it was last heard of |
| `NodeStaysClean` (`NodeIsClean`) | `KVNetwork` | `KVNetIInv`. `KVNetFits`: for each network, what its method may have left to do, and which pods and bridge there are at that step, but for what a step that failed left. `KVNetAddresses`: with machines attached in turn, at most one network's bridge has yet to get its address, and once that network looked at the node no other bridge has it; which `OneBridgePerAddress` needs as CNI gives the address later |
| `DevicesStayApart` (`DevicesDiffer`) | `MachineDevices`, `KVMachineModel` | `DevicesIInv`: the k-th disk has the k-th suffix (`DevicesNamed`), and suffixes are words that ascend by length and then by letters, which is of numbers alone (`DevicesInOrder`). `KVModelIInv`: interfaces, disks and hooks have their users' names or the number of their place (`KVModelNets`, `KVModelDisks`, `KVModelHooks`), whichever name the machine had when they were added |
| `IpsAreFree` (`FreeIps`) | `NetworkModel` | `NetIInv`. `NetMacs`: in a network that isn't `odd`, each host that is reserved is of one interface, which has no other; so an IP that no host has is nobody's |

Disks' names, free IPs and plans are recursive functions or choices over all numbers. The library's induction theorems
can't be used (their parameter is an operator), so facts about every number are proved of the least one that lacks them
(`LeastOf`), from the well-foundedness of the naturals in its form for sets.

**`UnixCommandProofs`**, for any input and output: `AllIsRead` (`EndMeansAllRead`), `InputEndsWhenClosed`
(`EndsOnlyWhenClosed`). `Passed` says that from the making of the FIFO to the start of its holder the shell has it open,
and from then on the holder has, unless it was killed; so whoever sees the end does so after that. `Finished` says that
whoever knows of the exit code, knows it from the status, which is only there once the command, which alone writes, was
reaped: nothing was written between the poll that said so and the read that found nothing.

**`HostCommandProofs`**, for any output, capacity of the pipe and processes left behind: `NothingIsLeft` (`LeavesNothing`)
and `RunnerImplemented`: `Spec` implements `CommandRunner`. `Stages` says what a caller at each step has waited for,
`Killed` that a group whose guard is gone is empty and stays so, `EndSeen` that the end of the pipe is seen when it's
empty and nobody has it. `Conserved` says that what is written is in the pipe or read, and that a command which ended with
more to write was killed, which this process only asks for when it's late: so that an answer that isn't late is whole.

**`ContainerProofs`**, for any containers: `DefaultRuns` (`DefaultIsLive`), `EnvironmentAgrees` (`ChildrenAgree`),
`NothingIsLeft` (`NothingLeft`); from `NamesAssumption`, that what isn't a container's name isn't one. `Objects` and
`Guarded` say which parts of a container there are while this process is at which step, and that its guard only wakes for
its own `destroy()`; `Stacked`, of nested containers, that the stack has each container that entered its defaults once,
and that what it remembers is the one below; `SetWhileEntered`, of any, that at most one of them found the variable unset.

**`KVMachineProofs`**, for any snapshots and writes: `AlwaysAttached` (`AttachedWhileUp`), `NothingLaterIsTaken`
(`NothingLater`) and, of each step, `SteadyAreReverted` (`SteadyRevertBoots`). As methods are sequences of steps, `Left` says of each what it may have left and what it came to by
then; `Attached` that a machine, or an instance, is only there with its attachments; `Earlier` that what a snapshot has was
written by the time its `create()` returned, as the disk only goes back in a `revert()`. For the last theorem `IInv` isn't
enough, which says what steps a method may have left but not in which order; it takes `SInv` as well:

    SInv == InTurn /\ (steady => Remembered /\ Snapped /\ Switching /\ RevertedTo)

`InTurn` says which step of a `revert()` follows which. Of a steady machine, `Remembered` says that a snapshot that is there
remembers whether the machine was to run, and that one that isn't to run doesn't when no method does; `Snapped` that it
stays as it was while `create()` of a snapshot notes it; `Switching` and `RevertedTo` that every step that stops or starts
the machine finds it as the method left it, so that `virtctl start` is never refused.

**`ShellProofs`**, for any number of commands, whichever of them don't end by themselves or ignore interrupts, and any
number of attempts: `TypeCorrect` (`TypeOK`), `StaysInStep` (`InStep`), `AnswersAreOwn` (`OwnAnswers`), `CalmAttach` (`CalmAttachSucceeds`) and `RunnerImplemented`: `Spec` implements
`CommandRunner`, from `LastIgnores`, that only the last command ignores interrupts. That assumption can't be dropped (a
command that was given up on answers the next call); `AnswersAreOwn` says what is left without it.

    IInv == TypeOK /\ Started /\ Probing /\ Calm /\ Runs /\ Idle /\ Recovers /\ Answered /\ LostLast

`Started` says that a client which got past a marker has a shell, and `Probing` that until `create()` is done only its
own lines have been typed. `Calm` says for each step of `attach()` on a shell that loses nothing what that shell has read,
and that it answered once. `Runs` says the same of `run()`: its two lines are in `wire`, in `tty` or being run, and the
rest of its answer, in order, is in `buf` and `out`. A command that times out may be interrupted in any of these places,
with the first marker discarded or not; `Recovers` says that once the interrupt arrived only markers are left to be read,
and at most a command that ignores it still runs: when nothing arrives any more (`Silent`), `Idle` holds again, or the
command is `lost`. `Answered` says what became of each call, and `LostLast` that under `LastIgnores` a lost command is
the last one. That a stream with a marker has a first one (`Smallest`), which `Parse` takes, follows from the
well-foundedness of the naturals in its form for sets of them.

**`SavedStateProofs`**, for any resources in which each is there once and each machine comes after its volume
(`ResourcesAssumption`; `create()` couldn't create them in another order), machines that don't share a volume
(`DiskAssumption`; QEMU locks it), and any writes, boots and failures: `RunsOnItsVolume` (`Coherent`), `DirectoryIsWhole`
(`SavedTogether`), and of each step `CreatedAsTheyWere` (`GoesOn`), `SaveResumesAll` (`SaveGivesBack`) and `FailsClean`
(`OneLeftAtMost`).

    IInv == Coherent /\ Placed /\ KeptIsThere /\ OnlyKeptRun /\ Saving /\ Unmade /\ SavedTogether /\ Creating /\ FewLeft

`Placed` says which resource each step is at, and that those before it are kept; `KeptIsThere` and `OnlyKeptRun` that
what is kept has its volumes, and that no machine runs that isn't kept or about to be. `Saving` says for each resource how
far `save()` is with it: a machine it stopped has a memory in the directory which fits its volume until it goes on, and
fits the copy of that volume from when it's made. `Creating` says of a machine that isn't started yet that its volume, if
that was created, is what the directory has, and of one that is, that it's of the boot its memory is from. `Coherent`
needs both: a machine goes on in `save()` with the volume as it left it, and in `create()` with the one that was saved,
which `SavedTogether` says its memory fits. `FewLeft` counts: what is there, not kept and not in hand was left by a
command that failed, so there is none without failures, and at most one after one.

These invariants were checked by TLC on the instances of the runs before they were proved.

Each invariant and each property of a step that the passing runs check is proved. Only model-checked are the liveness
properties, which need fairness: that is out of the prover's reach. They are `FreeSubnetIsFound`, `RunEnds`, `CallEnds`,
`GuardedStops`, `CloseIsSeen`, `CallsReturn`, `RemovedAfterwards` and `RevertEnds`. So are the four counterexamples.

## Not modelled

- `OutputStreamFile` and streams that follow a file: reading what was written, without a state of their own.
- Models' XML and manifests, keys, KubeVirt's volumes and emulation, schemas and validation of recipes: pure functions, or
  single commands whose effect is another program's. What they number and name is modelled (`MachineDevices`,
  `KVMachineModel`, `NetworkModel`).
- A network model that is renamed, or given an address, after a machine model took it.
- The login dialogues of telnet, rlogin and serial: text that depends on the machine. `ssh`'s and `nsenter`'s options.
- Volumes' `commit()`, screenshots, serial ports and consoles: single commands.
- The pytest plugin, scripts and images: they only call what is modelled.
- Clocks, but for `BootWait`.

## Plan

1. Done: reservations with their abstract table; sessions; shells; commands; containers; saved states; KubeVirt's machines
   and networks; the models' allocations; waiting.
2. Done: the default session with objects that need it while it's made; groups of snapshots as a cut of machines that send
   each other messages; transfers; KubeVirt's machine models.
3. Done: an abstract `CommandRunner` that `Shell` and `HostCommand` implement.
4. Done: proofs for `SubnetReservation`, `Session`, `UnixCommand`, `HostCommand`, `Container` and `KVMachine`.
5. Done: proofs for `Shell`, with its implementation of `CommandRunner`, and for `SavedState`, for any resources in which
   each machine comes after its volume.
6. Done: `Parts` as a composition of its nine components, with all that its run checks proved of each.
7. Left: an abstract default for `Container`; libvirt's single commands (`commit()`, screenshots), if they get a state.
