---------------------------- MODULE HostCommand ----------------------------
(***************************************************************************)
(* Commands on this system: HostAsyncCommand and its Guard, a process that *)
(* kills the command's process group once it is released, or once this     *)
(* process is gone; and the two ways they are waited for:                  *)
(* AsyncCommandRunner.run, which reads the output in the background, and   *)
(* pings, which reads it afterwards.                                       *)
(*                                                                         *)
(* One command is run.  Its output goes through a pipe, which holds        *)
(* Capacity; while it's full the command waits.  The command may start     *)
(* others, in its group, that outlive it and hold the pipe open.           *)
(***************************************************************************)
EXTENDS Integers

CONSTANTS
    Output,      \* how much the command writes before it exits
    Capacity,    \* how much fits in the pipe
    MaxOthers    \* bound: how many processes the command leaves in its group

ASSUME SizeAssumption == Output \in Nat /\ Capacity \in Nat \ {0} /\ MaxOthers \in Nat

VARIABLES
    this,      \* this process: "up" or "dead"
    pc, how,   \* what it does, by "run" or by "pings"
    late,      \* whether the wait timed out
    main,      \* the command: "none", "running", "zombie" or "reaped"
    others,    \* how many other processes of its group there are
    todo,      \* what it has left to write
    pipe,      \* what is in the pipe
    got,       \* what was read
    ended,     \* whether the reader saw the pipe's end
    guard,     \* the guard: "none", "waiting" or "gone"
    released   \* whether the pipe that the guard reads is closed

vars == <<this, pc, how, late, main, others, todo, pipe, got, ended, guard, released>>

Init ==
    /\ this = "up" /\ pc = "idle" /\ how \in {"run", "pings"} /\ late = FALSE
    /\ main = "none" /\ others = 0
    /\ todo = Output /\ pipe = 0 /\ got = 0 /\ ended = FALSE
    /\ guard = "none" /\ released = FALSE

Running == main = "running"

\* A slip: the output is only read after the command exited, by run() as well.
ReadsAfter == pc = "collect"

\* run() has its readers from before the wait.
Reads == IF how = "run" THEN pc \notin {"idle", "spawned"} ELSE pc = "collect"

-----------------------------------------------------------------------------
\* This process.

Popen ==
    /\ this = "up" /\ pc = "idle"
    /\ main' = "running"
    /\ pc' = "spawned"
    /\ UNCHANGED <<this, how, late, others, todo, pipe, got, ended, guard, released>>

MakeGuard ==
    /\ this = "up" /\ pc = "spawned"
    /\ guard' = "waiting"
    /\ pc' = "wait"
    /\ UNCHANGED <<this, how, late, main, others, todo, pipe, got, ended, released>>

\* A slip: the exit code is all that is waited for.
Forgotten == "collect"

Exited == "release"

WaitReturns ==
    /\ this = "up" /\ pc = "wait" /\ main = "zombie"
    /\ main' = "reaped"
    /\ pc' = Exited
    /\ UNCHANGED <<this, how, late, others, todo, pipe, got, ended, guard, released>>

WaitTimesOut ==
    /\ this = "up" /\ pc = "wait" /\ ~late
    /\ late' = TRUE
    /\ pc' = "release"
    /\ UNCHANGED <<this, how, main, others, todo, pipe, got, ended, guard, released>>

\* Guard.release: from kill(), or after the command was waited for.
Release ==
    /\ this = "up" /\ pc = "release"
    /\ released' = TRUE
    /\ pc' = "join"
    /\ UNCHANGED <<this, how, late, main, others, todo, pipe, got, ended, guard>>

\* run() raises after kill(); pings waits again, and reads what there is.
Joined ==
    /\ this = "up" /\ pc = "join" /\ guard = "gone"
    /\ pc' = IF ~late \/ main = "reaped" THEN "collect"
             ELSE IF how = "run" THEN "raised"
             ELSE "wait"
    /\ UNCHANGED <<this, how, late, main, others, todo, pipe, got, ended, guard, released>>

Read ==
    /\ this = "up" /\ Reads /\ pipe > 0
    /\ pipe' = pipe - 1
    /\ got' = got + 1
    /\ UNCHANGED <<this, pc, how, late, main, others, todo, ended, guard, released>>

\* The pipe ends when none of the group has it open.
ReadEnd ==
    /\ this = "up" /\ Reads /\ pipe = 0 /\ ~Running /\ others = 0
    /\ ~ended
    /\ ended' = TRUE
    /\ UNCHANGED <<this, pc, how, late, main, others, todo, pipe, got, guard, released>>

\* A slip: taking what the reader has so far.
SoFar == TRUE

AllRead == ended

Collect ==
    /\ this = "up" /\ pc = "collect" /\ AllRead
    /\ pc' = "done"
    /\ UNCHANGED <<this, how, late, main, others, todo, pipe, got, ended, guard, released>>

\* The pipes it had close; init reaps the command.
Die ==
    /\ this = "up" /\ pc # "idle"
    /\ this' = "dead"
    /\ released' = TRUE
    /\ UNCHANGED <<pc, how, late, main, others, todo, pipe, got, ended, guard>>

-----------------------------------------------------------------------------
\* The command and what it starts, and the guard.

Fits == pipe < Capacity

Writes ==
    /\ Running /\ todo > 0 /\ this = "up" /\ Fits
    /\ todo' = todo - 1
    /\ pipe' = pipe + 1
    /\ UNCHANGED <<this, pc, how, late, main, others, got, ended, guard, released>>

\* SIGPIPE: nobody is left to read.
BreaksPipe ==
    /\ Running /\ todo > 0 /\ this = "dead"
    /\ main' = "zombie"
    /\ UNCHANGED <<this, pc, how, late, others, todo, pipe, got, ended, guard, released>>

Exits ==
    /\ Running /\ todo = 0
    /\ main' = "zombie"
    /\ UNCHANGED <<this, pc, how, late, others, todo, pipe, got, ended, guard, released>>

Forks ==
    /\ Running /\ others < MaxOthers
    /\ others' = others + 1
    /\ UNCHANGED <<this, pc, how, late, main, todo, pipe, got, ended, guard, released>>

OtherExits ==
    /\ others > 0
    /\ others' = others - 1
    /\ UNCHANGED <<this, pc, how, late, main, todo, pipe, got, ended, guard, released>>

\* A slip: only the command is killed, not its group.
KillOne == others' = others

KillGroup == others' = 0

\* sh -c "read _; kill -KILL -<pid>": a group whose leader was reaped still is one.
GuardKills ==
    /\ guard = "waiting" /\ released
    /\ guard' = "gone"
    /\ main' = IF Running THEN "zombie" ELSE main
    /\ KillGroup
    /\ UNCHANGED <<this, pc, how, late, todo, pipe, got, ended, released>>

Python == Popen \/ MakeGuard \/ WaitReturns \/ Release \/ Joined \/ Collect

Next ==
    \/ Python \/ WaitTimesOut \/ Read \/ ReadEnd \/ Die
    \/ Writes \/ BreaksPipe \/ Exits \/ Forks \/ OtherExits \/ GuardKills

Spec == Init /\ [][Next]_vars

\* This process, its reader, the command and the guard each go on while they can.
\* Only pings is promised a timeout; and nothing makes what was left behind exit.
FairSpec ==
    /\ Spec
    /\ WF_vars(Python)
    /\ WF_vars(Read \/ ReadEnd)
    /\ WF_vars(Writes \/ BreaksPipe \/ Exits)
    /\ WF_vars(GuardKills)
    /\ WF_vars(how = "pings" /\ WaitTimesOut)

-----------------------------------------------------------------------------
TypeOK ==
    /\ this \in {"up", "dead"}
    /\ pc \in {"idle", "spawned", "wait", "release", "join", "collect", "done", "raised"}
    /\ how \in {"run", "pings"} /\ late \in BOOLEAN
    /\ main \in {"none", "running", "zombie", "reaped"}
    /\ others \in 0 .. MaxOthers
    /\ todo \in 0 .. Output /\ pipe \in 0 .. Capacity /\ got \in 0 .. Output
    /\ ended \in BOOLEAN
    /\ guard \in {"none", "waiting", "gone"} /\ released \in BOOLEAN

\* "killing it kills what it started too", and "its own end what it left behind":
\* once run() or pings stopped waiting, nothing of the command is left.
LeavesNothing ==
    /\ TypeOK
    /\ pc \in {"collect", "done", "raised"} => ~Running /\ others = 0

At == IF pc \in {"idle", "done", "raised"} THEN 0 ELSE 1

Returned ==
    CASE pc \notin {"done", "raised"} -> <<"none">>
      [] pc \in {"done", "raised"} /\ late -> <<"late">>
      [] OTHER -> <<"read", got>>

Runner == INSTANCE CommandRunner WITH
    Calls <- 1,
    AnswerOf <- [c \in {1} |-> <<"read", Output>>],
    TimedOut <- <<"late">>,
    NoAnswer <- <<"none">>,
    at <- At,
    results <- [c \in {1} |-> Returned]

\* Pipes, readers and the guard together are a runner: a run() or pings that wasn't
\* late returns all that the command wrote, however much that is and whoever else had
\* the pipe open.
ImplementsRunner == Runner!RunnerSpec

\* run() returns however much the command writes, without needing a timeout; pings
\* returns by its timeout at the latest.
CallEnds == pc = "wait" ~> pc \in {"done", "raised"} \/ this = "dead"

\* "Commands stop when this process ends, even when it's killed": once it has its
\* guard, a command and all of its group end with this process.
GuardedStops == this = "dead" /\ guard # "none" ~> ~Running /\ others = 0
=============================================================================
