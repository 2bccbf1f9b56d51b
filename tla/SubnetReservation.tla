------------------------- MODULE SubnetReservation -------------------------
(***************************************************************************)
(* susa.utilities.networking.SubnetReservation: processes reserve /24      *)
(* subnets for the networks they make, each by a POSIX record lock on the  *)
(* subnet's byte of a lock file.  Several processes run, each with several *)
(* reservations; any of them may be killed at any step.                    *)
(*                                                                         *)
(* create() is three kinds of steps: the routes are read (a subprocess),   *)
(* then the lock file is opened, then the subnets are tried one by one.    *)
(* destroy() is two: the byte is unlocked, then the process' own tables    *)
(* are updated and the file is closed if no reservation is left in it.     *)
(*                                                                         *)
(* The kernel (external): a record lock belongs to a process and a file,   *)
(* whatever name and descriptor it was taken through; a process' own lock  *)
(* never stops it; closing ANY descriptor of a file drops every lock the   *)
(* process has on the file; so does the process' death.                    *)
(***************************************************************************)
EXTENDS Integers

CONSTANTS
    Proc,        \* the processes (each single threaded)
    Res,         \* the SubnetReservation objects
    Path,        \* the names given for lock files
    File,        \* the files behind the names
    Owner,       \* [Res -> Proc]: the process a reservation is made in
    PathOf,      \* [Res -> Path]: self.lock
    FileOf,      \* [Path -> File]
    FirstOf,     \* [Res -> Nat]: the first /24 of self.subnets
    LastOf,      \* [Res -> Nat]: the last one
    LastSubnet,  \* the last /24 number (16777215 for IPv4)
    Killable,    \* the processes that may be killed
    None         \* no subnet, no reservation, no process

Subnet == 0 .. LastSubnet

ASSUME OwnerAssumption == Owner \in [Res -> Proc]
ASSUME NameAssumption ==
    /\ PathOf \in [Res -> Path]
    /\ FileOf \in [Path -> File]
ASSUME RangeAssumption ==
    /\ LastSubnet \in Nat
    /\ FirstOf \in [Res -> Subnet]
    /\ LastOf \in [Res -> Subnet]
ASSUME NoneAssumption == None \notin Subnet /\ None \notin Proc /\ None \notin Res
ASSUME KillableAssumption == Killable \subseteq Proc

VARIABLES
    pc,       \* [Proc -> what the process is doing]
    cur,      \* [Proc -> the reservation it is creating or destroying]
    used,     \* [Proc -> the /24s its last read of the routes overlapped]
    cursor,   \* [Proc -> the next /24 that create() tries]
    index,    \* [Res -> self.index], None while not reserved
    taken,    \* [Proc -> SubnetReservation.TAKEN]
    files,    \* [Proc -> the keys of SubnetReservation.FILES]
    locks,    \* the kernel's: [File -> [Subnet -> the process locking the byte]]
    up,       \* the reservations whose user has the network up on the host
    foreign   \* the /24s that the host's other routes overlap

vars == <<pc, cur, used, cursor, index, taken, files, locks, up, foreign>>

LockFile(r) == FileOf[PathOf[r]]

\* "ip route show table all": a network that is up has a route.
Routes == {index[r] : r \in up} \cup foreign

-----------------------------------------------------------------------------
\* The kernel's side of fcntl.lockf(LOCK_EX | LOCK_NB), LOCK_UN and close().

CanLock(p, f, i) == locks[f][i] \in {None, p}

Lock(p, f, i) == locks' = [locks EXCEPT ![f][i] = p]

Unlock(f, i) == locks' = [locks EXCEPT ![f][i] = None]

DropAll(p, where) ==
    locks' = [f \in File |-> [i \in Subnet |->
                IF f \in where /\ locks[f][i] = p THEN None ELSE locks[f][i]]]

-----------------------------------------------------------------------------
Init ==
    /\ pc = [p \in Proc |-> "idle"]
    /\ cur = [p \in Proc |-> None]
    /\ used = [p \in Proc |-> {}]
    /\ cursor = [p \in Proc |-> 0]
    /\ index = [r \in Res |-> None]
    /\ taken = [p \in Proc |-> {}]
    /\ files = [p \in Proc |-> {}]
    /\ locks = [f \in File |-> [i \in Subnet |-> None]]
    /\ up = {}
    /\ foreign \in SUBSET Subnet

\* create(): the assertion, then the routes are read, with nothing locked yet.
ReadRoutes(p, r) ==
    /\ pc[p] = "idle"
    /\ Owner[r] = p
    /\ index[r] = None
    /\ used' = [used EXCEPT ![p] = Routes]
    /\ cur' = [cur EXCEPT ![p] = r]
    /\ pc' = [pc EXCEPT ![p] = "open"]
    /\ UNCHANGED <<cursor, index, taken, files, locks, up, foreign>>

\* Slips: starting one before the first subnet, or one after.
StartBefore(r) == FirstOf[r] - 1
StartAfter(r) == FirstOf[r] + 1

Start(r) == FirstOf[r]

\* lock_file(): opened once per process and name.  The loop starts after it.
OpenLockFile(p) ==
    /\ pc[p] = "open"
    /\ files' = [files EXCEPT ![p] = @ \cup {PathOf[cur[p]]}]
    /\ cursor' = [cursor EXCEPT ![p] = Start(cur[p])]
    /\ pc' = [pc EXCEPT ![p] = "scan"]
    /\ UNCHANGED <<cur, used, index, taken, locks, up, foreign>>

\* A slip: relying on the kernel alone.
SkipsUsed(p, i) == i \in used[p]

\* The two reasons to skip a subnet that don't ask the kernel.
Skips(p, i) == <<PathOf[cur[p]], i>> \in taken[p] \/ i \in used[p]

Scanning(p) == pc[p] = "scan" /\ cursor[p] <= LastOf[cur[p]]

\* The next turn of the loop, the subnet being skipped or lockf failing.
PassOver(p) ==
    /\ Scanning(p)
    /\ \/ Skips(p, cursor[p])
       \/ ~CanLock(p, LockFile(cur[p]), cursor[p])
    /\ cursor' = [cursor EXCEPT ![p] = @ + 1]
    /\ UNCHANGED <<pc, cur, used, index, taken, files, locks, up, foreign>>

\* lockf succeeds: what follows is seen by nobody else until create() returns.
Reserve(p) ==
    /\ Scanning(p)
    /\ ~Skips(p, cursor[p])
    /\ CanLock(p, LockFile(cur[p]), cursor[p])
    /\ Lock(p, LockFile(cur[p]), cursor[p])
    /\ taken' = [taken EXCEPT ![p] = @ \cup {<<PathOf[cur[p]], cursor[p]>>}]
    /\ index' = [index EXCEPT ![cur[p]] = cursor[p]]
    /\ pc' = [pc EXCEPT ![p] = "idle"]
    /\ UNCHANGED <<cur, used, cursor, files, up, foreign>>

\* RuntimeError: the file stays open, whether or not anything is reserved in it.
GiveUp(p) ==
    /\ pc[p] = "scan"
    /\ cursor[p] > LastOf[cur[p]]
    /\ pc' = [pc EXCEPT ![p] = "idle"]
    /\ UNCHANGED <<cur, used, cursor, index, taken, files, locks, up, foreign>>

\* destroy(): the byte is free for others before the process forgets it.
UnlockByte(p, r) ==
    /\ pc[p] = "idle"
    /\ Owner[r] = p
    /\ index[r] # None
    /\ r \notin up
    /\ Unlock(LockFile(r), index[r])
    /\ cur' = [cur EXCEPT ![p] = r]
    /\ pc' = [pc EXCEPT ![p] = "unlocked"]
    /\ UNCHANGED <<used, cursor, index, taken, files, up, foreign>>

\* A slip: every destroy() closes the file.
Always(left, name) == TRUE

NoneLeft(left, name) == \A t \in left : t[1] # name

\* The rest of destroy().  Closing the file drops all locks p has on it.
Forget(p) ==
    /\ pc[p] = "unlocked"
    /\ LET r == cur[p]
           left == taken[p] \ {<<PathOf[r], index[r]>>}
       IN /\ taken' = [taken EXCEPT ![p] = left]
          /\ index' = [index EXCEPT ![r] = None]
          /\ IF NoneLeft(left, PathOf[r])
               THEN /\ files' = [files EXCEPT ![p] = @ \ {PathOf[r]}]
                    /\ DropAll(p, {LockFile(r)})
               ELSE UNCHANGED <<files, locks>>
    /\ pc' = [pc EXCEPT ![p] = "idle"]
    /\ UNCHANGED <<cur, used, cursor, up, foreign>>

-----------------------------------------------------------------------------
\* The user of a reservation, as README.md nests them: the network is created
\* after the reservation and destroyed before it.
NetworkUp(p, r) ==
    /\ pc[p] = "idle"
    /\ Owner[r] = p
    /\ index[r] # None
    /\ r \notin up
    /\ up' = up \cup {r}
    /\ UNCHANGED <<pc, cur, used, cursor, index, taken, files, locks, foreign>>

NetworkDown(p, r) ==
    /\ pc[p] = "idle"
    /\ Owner[r] = p
    /\ r \in up
    /\ up' = up \ {r}
    /\ UNCHANGED <<pc, cur, used, cursor, index, taken, files, locks, foreign>>

\* SIGKILL, then a new process in its place: the kernel drops the locks and the
\* tables are gone, but the networks it made (libvirt's) are still there.
Kill(p) ==
    /\ p \in Killable
    /\ pc[p] # "dead"
    /\ pc' = [pc EXCEPT ![p] = "dead"]
    /\ cur' = [cur EXCEPT ![p] = None]
    /\ used' = [used EXCEPT ![p] = {}]
    /\ cursor' = [cursor EXCEPT ![p] = 0]
    /\ index' = [r \in Res |-> IF Owner[r] = p THEN None ELSE index[r]]
    /\ taken' = [taken EXCEPT ![p] = {}]
    /\ files' = [files EXCEPT ![p] = {}]
    /\ DropAll(p, File)
    /\ up' = {r \in up : Owner[r] # p}
    /\ foreign' = foreign \cup {index[r] : r \in {s \in up : Owner[s] = p}}

Restart(p) ==
    /\ pc[p] = "dead"
    /\ pc' = [pc EXCEPT ![p] = "idle"]
    /\ UNCHANGED <<cur, used, cursor, index, taken, files, locks, up, foreign>>

Step(p) ==
    \/ OpenLockFile(p)
    \/ PassOver(p)
    \/ Reserve(p)
    \/ GiveUp(p)
    \/ Forget(p)

Next == \E p \in Proc :
    \/ Step(p)
    \/ \E r \in Res : ReadRoutes(p, r)
    \/ \E r \in Res : UnlockByte(p, r)
    \/ \E r \in Res : NetworkUp(p, r)
    \/ \E r \in Res : NetworkDown(p, r)
    \/ Kill(p)
    \/ Restart(p)

Spec == Init /\ [][Next]_vars

\* A call that was made goes on: nothing in create() or destroy() waits.
FairSpec == Spec /\ \A p \in Proc : WF_vars(Step(p))
-----------------------------------------------------------------------------
\* r is reserved: create() returned and destroy() has not begun.
Reserved(r) ==
    /\ index[r] # None
    /\ ~(pc[Owner[r]] = "unlocked" /\ cur[Owner[r]] = r)

\* A process never names one lock file in two ways.
NoAliases ==
    \A r, s \in Res :
        Owner[r] = Owner[s] /\ LockFile(r) = LockFile(s) => PathOf[r] = PathOf[s]

TypeOK ==
    /\ pc \in [Proc -> {"idle", "open", "scan", "unlocked", "dead"}]
    /\ cur \in [Proc -> Res \cup {None}]
    /\ used \in [Proc -> SUBSET Subnet]
    /\ cursor \in [Proc -> Nat]
    /\ index \in [Res -> Subnet \cup {None}]
    /\ taken \in [Proc -> SUBSET (Path \X Subnet)]
    /\ files \in [Proc -> SUBSET Path]
    /\ locks \in [File -> [Subnet -> Proc \cup {None}]]
    /\ up \subseteq Res
    /\ foreign \subseteq Subnet

\* "reserved across processes by locking its byte": no two reservations made
\* through one lock file, by one process or by two, have the same /24.
Exclusive ==
    \A r, s \in Res :
        /\ r # s
        /\ LockFile(r) = LockFile(s)
        /\ Reserved(r)
        /\ Reserved(s)
        => index[r] # index[s]

\* The kernel still has the lock of every reservation: whatever the process
\* destroyed and closed since, it didn't release it on the way.
Locked ==
    \A r \in Res : Reserved(r) => locks[LockFile(r)][index[r]] = Owner[r]

\* destroy() never fails half way with a KeyError: FILES[self.lock] and the
\* TAKEN entry it removes are there whatever order reservations are destroyed in.
DestroyFindsItsEntries ==
    \A r \in Res :
        index[r] # None => /\ PathOf[r] \in files[Owner[r]]
                           /\ <<PathOf[r], index[r]>> \in taken[Owner[r]]

\* "overlapping none of the host's routes", at the step that reserves: although
\* the routes were read before anything was locked, no route came since then.
\* Broken when a process is killed after its network came up, as that frees the
\* byte and leaves the route, both after another process read the routes.
ClearOfRoutes ==
    [][\A r \in Res : index[r] = None /\ index'[r] # None => index'[r] \notin Routes]_vars

\* A create() that starts with some subnet off the routes reserves one, unless
\* somebody locks that one in the meantime (or the process is killed): it never
\* raises "There's no free subnet left" past a subnet free all along.
FreeSubnetIsFound ==
    \A r \in Res, i \in Subnet :
        /\ pc[Owner[r]] = "open"
        /\ cur[Owner[r]] = r
        /\ FirstOf[r] <= i /\ i <= LastOf[r]
        /\ i \notin used[Owner[r]]
        ~> \/ index[r] # None
           \/ locks[LockFile(r)][i] # None
           \/ pc[Owner[r]] = "dead"

has == [r \in Res |-> IF Reserved(r) THEN index[r] ELSE None]

LockOf == [r \in Res |-> LockFile(r)]

Table == INSTANCE SubnetTable WITH has <- has, LockOf <- LockOf, Subnet <- Subnet

\* Processes, routes, descriptors and kernel locks together are a table in which
\* each step reserves a free /24, or frees those of one reservation or one
\* process, or changes nothing.
ImplementsTable == Table!TableSpec
=============================================================================
