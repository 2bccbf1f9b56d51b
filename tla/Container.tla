----------------------------- MODULE Container -----------------------------
(***************************************************************************)
(* Libvirt containers, and the defaults of this process and of those it    *)
(* starts, which are a container's from the end of its create() to its     *)
(* destroy().                                                              *)
(*                                                                         *)
(* A container enters three Variables (HOST, URI, SubnetReservation.LOCK)  *)
(* and three environment variables, always together: one stack and one     *)
(* environment variable stand for them, and a container's name for what it *)
(* puts there.  A Guard removes the container and its directory, once it's *)
(* released or this process is gone.  Each container may be created again  *)
(* after it's destroyed, under its same name.                              *)
(***************************************************************************)
EXTENDS Naturals, Sequences, SequencesExt

CONSTANTS
    Containers,
    Unset,       \* the environment variable isn't there
    Outer,       \* what this process was started with, if that was in a container
    NotYet       \* Variable._default wasn't called yet

ASSUME NamesAssumption ==
    /\ Unset \notin Containers /\ Outer \notin Containers /\ NotYet \notin Containers
    /\ Unset # Outer /\ NotYet \notin {Unset, Outer}

VARIABLES
    nested,     \* whether containers are destroyed in the reverse order, as `with` does;
                \* it never changes
    this,       \* this process: "up" or "dead"
    pc, cur,    \* what its thread does, with which container
    directory,  \* of each container: whether self.directory is set
    guard,      \* its guard: "none", "waiting", "removing" or "gone"
    released,   \* whether the pipe the guard reads is closed
    starting,   \* whether a `podman run` of it is under way
    running,    \* whether podman has the container
    onDisk,     \* whether its directory exists
    entered,    \* whether its ExitStack holds the defaults
    previous,   \* what environment() restores
    values,     \* Variable._values
    default,    \* what Variable._default() returned, as it's cached
    env, env0   \* the environment, now and at first

object == <<directory, previous, entered>>
podman == <<starting, running, onDisk>>
guards == <<guard, released>>
defaults == <<values, env>>
vars == <<nested, this, pc, cur, object, podman, guards, defaults, default, env0>>

None == [c \in Containers |-> FALSE]

Init ==
    /\ nested \in BOOLEAN
    /\ this = "up" /\ pc = "idle" /\ cur \in Containers
    /\ directory = None /\ entered = None
    /\ guard = [c \in Containers |-> "none"] /\ released = None
    /\ starting = None /\ running = None /\ onDisk = None
    /\ env0 \in {Unset, Outer} /\ env = env0
    /\ previous = [c \in Containers |-> Unset]
    /\ values = <<>> /\ default = NotYet

At(step) == this = "up" /\ pc = step

-----------------------------------------------------------------------------
\* create().

MakeDirectory(c) ==
    /\ At("idle") /\ ~directory[c]
    /\ directory' = [directory EXCEPT ![c] = TRUE]
    /\ onDisk' = [onDisk EXCEPT ![c] = TRUE]
    /\ pc' = "guard" /\ cur' = c
    /\ UNCHANGED
        <<nested, this, previous, entered, starting, running, guards, defaults, default,
          env0>>

MakeGuard ==
    /\ At("guard")
    /\ guard' = [guard EXCEPT ![cur] = "waiting"]
    /\ released' = [released EXCEPT ![cur] = FALSE]
    /\ pc' = "image"
    /\ UNCHANGED <<nested, this, cur, object, podman, defaults, default, env0>>

\* The image is there, or was built.
Run ==
    /\ At("image")
    /\ starting' = [starting EXCEPT ![cur] = TRUE]
    /\ pc' = "run"
    /\ UNCHANGED <<nested, this, cur, object, running, onDisk, guards, defaults, default, env0>>

RunReturns ==
    /\ At("run") /\ ~starting[cur]
    /\ pc' = IF running[cur] THEN "boot" ELSE "idle"
    /\ UNCHANGED <<nested, this, cur, object, podman, guards, defaults, default, env0>>

\* The build fails, the socket doesn't come in time, or inspect fails: create()
\* raises, and leaves what there is for destroy() or the guard.
Raise ==
    /\ At("image") \/ At("boot")
    /\ pc' = "idle"
    /\ UNCHANGED <<nested, this, cur, object, podman, guards, defaults, default, env0>>

\* A slip: what the environment had isn't kept.
NotSaved == Unset

Saved == env

EnterDefaults ==
    /\ At("boot")
    /\ values' = Append(values, cur)
    /\ previous' = [previous EXCEPT ![cur] = Saved]
    /\ env' = cur
    /\ entered' = [entered EXCEPT ![cur] = TRUE]
    /\ pc' = "idle"
    /\ UNCHANGED <<nested, this, cur, directory, podman, guards, default, env0>>

-----------------------------------------------------------------------------
\* destroy(), which may follow a create() that raised.

\* A slip: the oldest value is what a block's end takes out.
PopOldest(s) == Tail(s)

\* list.pop(), whoever's value that is.
Pop(s) == Front(s)

\* A slip: the environment variable is deleted, whatever it was before.
Delete(c) == Unset

Restore(c) == previous[c]

CloseDefaults(c) ==
    /\ At("idle") /\ directory[c]
    /\ nested /\ entered[c] => c = Last(values)
    /\ IF entered[c]
       THEN values' = Pop(values) /\ env' = Restore(c)
       ELSE UNCHANGED defaults
    /\ entered' = [entered EXCEPT ![c] = FALSE]
    /\ pc' = "release" /\ cur' = c
    /\ UNCHANGED <<nested, this, directory, previous, podman, guards, default, env0>>

Release ==
    /\ At("release")
    /\ released' = [released EXCEPT ![cur] = TRUE]
    /\ pc' = "join"
    /\ UNCHANGED <<nested, this, cur, object, podman, guard, defaults, default, env0>>

\* A slip: the guard isn't waited for.
GuardTold == released[cur]

GuardGone == guard[cur] = "gone"

Joined ==
    /\ At("join") /\ GuardGone
    /\ directory' = [directory EXCEPT ![cur] = FALSE]
    /\ pc' = "idle"
    /\ UNCHANGED <<nested, this, cur, previous, entered, podman, guards, defaults, default, env0>>

-----------------------------------------------------------------------------
\* Variable.get, whenever nothing was set.

NothingSet == values = <<>>

GetDefault ==
    /\ At("idle") /\ NothingSet /\ default = NotYet
    /\ default' = env
    /\ UNCHANGED <<nested, this, pc, cur, object, podman, guards, defaults, env0>>

-----------------------------------------------------------------------------
\* podman, the guards, and the end of this process.

\* The container mounts its directory, so it needs it.
RunStarts(c) ==
    /\ starting[c] /\ onDisk[c] /\ ~running[c]
    /\ starting' = [starting EXCEPT ![c] = FALSE]
    /\ running' = [running EXCEPT ![c] = TRUE]
    /\ UNCHANGED <<nested, this, pc, cur, object, onDisk, guards, defaults, default, env0>>

RunFails(c) ==
    /\ starting[c]
    /\ starting' = [starting EXCEPT ![c] = FALSE]
    /\ UNCHANGED <<nested, this, pc, cur, object, running, onDisk, guards, defaults, default, env0>>

\* podman rm --force --ignore
GuardRemoves(c) ==
    /\ guard[c] = "waiting" /\ released[c]
    /\ running' = [running EXCEPT ![c] = FALSE]
    /\ guard' = [guard EXCEPT ![c] = "removing"]
    /\ UNCHANGED
        <<nested, this, pc, cur, object, starting, onDisk, released, defaults, default,
          env0>>

\* A slip: the guard only removes the container.
NotEmptied(c) == onDisk' = onDisk

\* rm -r
Emptied(c) == onDisk' = [onDisk EXCEPT ![c] = FALSE]

GuardCleans(c) ==
    /\ guard[c] = "removing"
    /\ Emptied(c)
    /\ guard' = [guard EXCEPT ![c] = "gone"]
    /\ UNCHANGED
        <<nested, this, pc, cur, object, starting, running, released, defaults, default,
          env0>>

\* SIGKILL: the pipes of the guards close. A `podman run` goes on without it.
Die ==
    /\ this = "up"
    /\ this' = "dead"
    /\ released' = [c \in Containers |-> TRUE]
    /\ UNCHANGED <<nested, pc, cur, object, podman, guard, defaults, default, env0>>

Guards(c) == GuardRemoves(c) \/ GuardCleans(c)
Podman(c) == RunStarts(c) \/ RunFails(c)

Next ==
    \/ \E c \in Containers : MakeDirectory(c) \/ CloseDefaults(c)
    \/ MakeGuard \/ Run \/ RunReturns \/ Raise \/ EnterDefaults
    \/ Release \/ Joined \/ GetDefault \/ Die
    \/ \E c \in Containers : Podman(c) \/ Guards(c)

Spec == Init /\ [][Next]_vars

\* The guards and podman go on by themselves; nothing is asked of this process.
FairSpec == Spec /\ \A c \in Containers : WF_vars(Guards(c)) /\ WF_vars(Podman(c))

-----------------------------------------------------------------------------
TypeOK ==
    /\ nested \in BOOLEAN
    /\ this \in {"up", "dead"}
    /\ pc \in {"idle", "guard", "image", "run", "boot", "release", "join"}
    /\ cur \in Containers
    /\ \A flags \in {directory, entered, released, starting, running, onDisk} :
           flags \in [Containers -> BOOLEAN]
    /\ guard \in [Containers -> {"none", "waiting", "removing", "gone"}]
    /\ previous \in [Containers -> Containers \cup {Unset, Outer}]
    /\ values \in Seq(Containers)
    /\ default \in Containers \cup {Unset, Outer, NotYet}
    /\ env \in Containers \cup {Unset, Outer} /\ env0 \in {Unset, Outer}

\* Nested containers: while one is the default, it's there: not before it has
\* booted, and no longer once its removal begins.
DefaultIsLive == nested /\ this = "up" /\ values # <<>> => running[Last(values)]

\* Nested containers: "So do those of processes started meanwhile": at any moment
\* a process that is started gets the same default, from its environment.  And what
\* is cached for when nothing is set is never a container's, although its place, the
\* environment, is where they put theirs.  However containers overlap, restoring a
\* variable that wasn't set before finds it set: `del os.environ[name]' never raises, and
\* destroy() gets to the guard.
ChildrenAgree ==
    /\ nested => /\ env = IF values = <<>> THEN env0 ELSE Last(values)
                 /\ default \in {NotYet, env0}
    /\ \A c \in Containers : entered[c] /\ previous[c] = Unset => env # Unset

\* However containers overlap, one that was destroyed left nothing, so create() may
\* use its name again (and the variables keep their types).
NothingLeft ==
    /\ TypeOK
    /\ \A c \in Containers :
           this = "up" /\ ~directory[c] => ~running[c] /\ ~starting[c] /\ ~onDisk[c]

\* "It's removed when this process ends, even when it's killed": wherever that was
\* then was, but for between a directory and its guard, and during `podman run`.
RemovedAfterwards ==
    \A c \in Containers :
        this = "dead" /\ pc \notin {"guard", "run"} ~> ~running[c] /\ ~onDisk[c]
=============================================================================
