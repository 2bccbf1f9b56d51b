--------------------------- MODULE SnapshotGroup ---------------------------
(***************************************************************************)
(* susa.core.machine.SnapshotGroup, of the snapshots of several libvirt    *)
(* machines: each method calls that of the snapshots one after another,    *)
(* destroy() in reverse, while the machines run and may send each other    *)
(* messages.  A snapshot has memory and disk, so that reverting to it      *)
(* takes the machine back to where it was, running or not; destroying one  *)
(* reverts to it, then deletes it.  Groups nest, as `with' has it; each    *)
(* virsh command may fail, which ends the method, and the `with'.          *)
(***************************************************************************)
EXTENDS Naturals, Sequences

CONSTANTS
    Size,       \* the machines of the group, in its order: 1 .. Size
    MaxDepth,   \* bound: how many groups are nested
    MaxSaid,    \* bound: how many messages each machine sends
    MaxFaults,  \* bound: how many commands fail
    None        \* no snapshot

Machine == 1 .. Size
Level == 1 .. MaxDepth

VARIABLES
    talk,    \* which messages there are while a method is at work, which never changes:
             \* "none", or "upwards": only to machines that come before
    state,   \* [Machine -> whether it's on, and how many messages it sent and got]
    taken,   \* [Level -> [Machine -> the state its snapshot has, or None]]
    began,   \* [Level -> state when create() of the group that exists began, or None]
    depth,   \* how many groups were created and not destroyed
    method,  \* the last method called of a group
    todo,    \* its commands that are left: <<command, machine>>
    faults   \* how many commands failed

vars == <<talk, state, taken, began, depth, method, todo, faults>>

State == [on : BOOLEAN, said : 0 .. MaxSaid, heard : [Machine -> 0 .. MaxSaid]]

Assumptions == {Size, MaxDepth, MaxSaid, MaxFaults} \subseteq Nat /\ None \notin State

Fresh == [on |-> TRUE, said |-> 0, heard |-> [m \in Machine |-> 0]]

Init ==
    /\ talk \in {"none", "upwards"}
    /\ state = [m \in Machine |-> Fresh]
    /\ taken = [l \in Level |-> [m \in Machine |-> None]]
    /\ began = [l \in Level |-> None]
    /\ depth = 0 /\ method = "none" /\ todo = <<>> /\ faults = 0

Idle == todo = <<>>

-----------------------------------------------------------------------------
\* What machines and their users do, between the commands of a method as well.

Say(m) ==
    /\ Idle \/ talk # "none"
    /\ state[m].on /\ state[m].said < MaxSaid
    /\ state' = [state EXCEPT ![m].said = @ + 1]
    /\ UNCHANGED <<talk, taken, began, depth, method, todo, faults>>

\* All that m sent so far arrives at n.
Hear(n, m) ==
    /\ Idle \/ talk # "none"
    /\ talk = "upwards" => n < m
    /\ state[n].on /\ state[m].on
    /\ state' = [state EXCEPT ![n].heard[m] = state[m].said]
    /\ UNCHANGED <<talk, taken, began, depth, method, todo, faults>>

Power(m) ==
    /\ Idle
    /\ state' = [state EXCEPT ![m].on = ~@]
    /\ UNCHANGED <<talk, taken, began, depth, method, todo, faults>>

-----------------------------------------------------------------------------
\* The methods of a group.

Each(command) == [m \in Machine |-> <<command, m>>]

Create ==
    /\ Idle /\ depth < MaxDepth
    /\ method' = "create" /\ todo' = Each("create")
    /\ began' = [began EXCEPT ![depth + 1] = state]
    /\ taken' = [taken EXCEPT ![depth + 1] = [m \in Machine |-> None]]
    /\ UNCHANGED <<talk, state, depth, faults>>

\* Slips: destroying in the order of create(), and only deleting.
Forwards ==
    [k \in 1 .. 2 * Size |-> <<IF k % 2 = 1 THEN "revert" ELSE "delete", (k + 1) \div 2>>]

OnlyDelete == [k \in Machine |-> <<"delete", Size + 1 - k>>]

Reversed ==
    [k \in 1 .. 2 * Size |->
        <<IF k % 2 = 1 THEN "revert" ELSE "delete", Size - (k - 1) \div 2>>]

Destroy ==
    /\ Idle /\ depth > 0
    /\ method' = "destroy" /\ todo' = Reversed
    /\ UNCHANGED <<talk, state, taken, began, depth, faults>>

\* In the order of create(), which loses messages that go upwards.
Revert ==
    /\ Idle /\ depth > 0
    /\ talk # "upwards"
    /\ method' = "revert" /\ todo' = Each("revert")
    /\ UNCHANGED <<talk, state, taken, began, depth, faults>>

\* The group that a command is of: create() makes the next one.
Current == IF method = "create" THEN depth + 1 ELSE depth

DepthAfter ==
    CASE method = "create" -> depth + 1
      [] method = "destroy" -> depth - 1
      [] OTHER -> depth

\* Only groups that exist, or are being created, have a beginning.
Remembered ==
    [l \in Level |-> IF l > depth' /\ todo' = <<>> THEN None ELSE began[l]]

\* snapshot-create, snapshot-revert or snapshot-delete of the next machine.
Command ==
    /\ ~Idle
    /\ LET command == Head(todo)[1]
           m == Head(todo)[2]
       IN /\ taken' = CASE command = "create" -> [taken EXCEPT ![Current][m] = state[m]]
                        [] command = "delete" -> [taken EXCEPT ![Current][m] = None]
                        [] OTHER -> taken
          /\ state' = IF command = "revert"
                        THEN [state EXCEPT ![m] = taken[Current][m]]
                        ELSE state
    /\ todo' = Tail(todo)
    /\ depth' = IF Tail(todo) = <<>> THEN DepthAfter ELSE depth
    /\ began' = Remembered
    /\ UNCHANGED <<talk, method, faults>>

\* The next command fails: create() leaves the snapshots it took, destroy() those that
\* are left; neither is called again.
Fail ==
    /\ ~Idle /\ faults < MaxFaults
    /\ faults' = faults + 1
    /\ todo' = <<>>
    /\ depth' = IF method = "destroy" THEN depth - 1 ELSE depth
    /\ began' = Remembered
    /\ UNCHANGED <<talk, state, taken, method>>

Next ==
    \/ \E m \in Machine : Say(m) \/ Power(m)
    \/ \E n, m \in Machine : n # m /\ Hear(n, m)
    \/ Create \/ Destroy \/ Revert \/ Command \/ Fail

-----------------------------------------------------------------------------
TypeOK ==
    /\ talk \in {"none", "upwards"}
    /\ state \in [Machine -> State] /\ began \in [Level -> [Machine -> State] \cup {None}]
    /\ taken \in [Level -> [Machine -> State \cup {None}]]
    /\ depth \in 0 .. MaxDepth /\ method \in {"none", "create", "destroy", "revert"}
    /\ todo \in Seq({"create", "revert", "delete"} \X Machine)
    /\ faults \in 0 .. MaxFaults

\* A group that exists has a snapshot of each of its machines, whatever failed in groups
\* inside of it, so that destroy() and revert() have something to go back to.
GroupIsWhole ==
    /\ \A l \in 1 .. depth, m \in Machine :
           Idle \/ l < depth \/ method # "destroy" => taken[l][m] # None
    /\ Idle /\ faults = 0 =>
           \A l \in Level, m \in Machine : l > depth => taken[l][m] = None

\* Nothing got what was never sent: although the machines run while they are saved and
\* reverted one after another, their states fit together after destroy() of a group, if
\* messages only go to machines that come before their sender in the group: these are
\* saved first and reverted last.  (For any others there's no such promise, and revert()
\* only makes it to machines that are quiet.)
OneCut ==
    /\ TypeOK
    /\ Idle /\ faults = 0 =>
           \A n, m \in Machine : state[n].heard[m] <= state[m].said

\* A revert() or destroy() that returns took all machines back to where they were when
\* create() was called, powered on or not, if they were quiet meanwhile, whatever was
\* created, reverted and failed in groups inside of it.
AllAsBefore ==
    method \in {"revert", "destroy"} /\ ~Idle /\ todo' = <<>> /\ faults' = faults
        /\ talk = "none" => state' = began[depth]
=============================================================================
