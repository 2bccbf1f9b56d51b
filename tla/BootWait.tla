----------------------------- MODULE BootWait ------------------------------
(***************************************************************************)
(* susa.core.machine's wait_until_booted: a machine is booted once it      *)
(* answers a ping and its console is quiet, all by one deadline.  With     *)
(* wait_until, ping and OutputStream.wait_until_quiet that it calls.       *)
(*                                                                         *)
(* Time is discrete: it passes (Tick) only while the program sleeps or     *)
(* waits, and what happens at one instant may come in any order.  What the *)
(* console writes waits in the pipe until it's read, all at once.          *)
(***************************************************************************)
EXTENDS Naturals

CONSTANTS
    Timeouts,      \* the timeouts to try
    QuietTimes,    \* the quiet_times to try
    PingTimeout,   \* what ping() waits for a reply
    Interval,      \* between the tests of wait_until
    MaxTime        \* bound: the clock

Assumptions ==
    /\ Timeouts \subseteq Nat /\ QuietTimes \subseteq Nat \ {0}
    /\ PingTimeout \in Nat \ {0} /\ Interval \in Nat \ {0} /\ MaxTime \in Nat

VARIABLES
    now,        \* the clock
    end,        \* the deadline
    quietTime,
    phase,      \* "test", "ping", "sleep", "listen", "read"; then "booted",
                \* "timeout" or "error"
    until,      \* when what it sleeps or waits for ends
    up,         \* whether the machine answers pings
    written,    \* whether the console's pipe has anything in it
    ended,      \* whether the console's client has ended
    noise,      \* history: when the console last wrote
    reply       \* history: when the reply came

world == <<up, written, ended, noise>>
vars == <<now, end, quietTime, phase, until, world, reply>>

Init ==
    /\ now = 0 /\ end \in Timeouts /\ quietTime \in QuietTimes
    /\ phase = "test" /\ until = 0
    /\ up = FALSE /\ written = FALSE /\ ended = FALSE /\ noise = 0 /\ reply = 0

Done == {"booted", "timeout", "error"}

Remaining == IF now < end THEN end - now ELSE 0

Passed == Remaining = 0

\* A slip: any time will do.
SomeTime == Remaining > 0

Enough == Remaining >= quietTime

-----------------------------------------------------------------------------
\* wait_until's loop, with ping() as its test.

PingUntil == now + PingTimeout

Test ==
    /\ phase = "test"
    /\ phase' = IF Passed THEN "timeout" ELSE "ping"
    /\ until' = PingUntil
    /\ UNCHANGED <<now, end, quietTime, world, reply>>

Replied ==
    /\ phase = "ping" /\ up
    /\ phase' = "listen" /\ reply' = now
    /\ UNCHANGED <<now, end, quietTime, until, world>>

\* No reply: ping is killed at its timeout, or ends before it.
Unanswered ==
    /\ phase = "ping" /\ (~up \/ now = until)
    /\ phase' = "sleep" /\ until' = now + Interval
    /\ UNCHANGED <<now, end, quietTime, world, reply>>

\* An exit code of an actual error: CalledProcessError.
PingFails ==
    /\ phase = "ping" /\ phase' = "error"
    /\ UNCHANGED <<now, end, quietTime, until, world, reply>>

Slept ==
    /\ phase = "sleep" /\ now = until
    /\ phase' = "test"
    /\ UNCHANGED <<now, end, quietTime, until, world, reply>>

-----------------------------------------------------------------------------
\* wait_until_quiet's loop, with what remains of the deadline.

ListenUntil == now + quietTime

Listen ==
    /\ phase = "listen"
    /\ phase' = IF Enough THEN "read" ELSE "timeout"
    /\ until' = ListenUntil
    /\ UNCHANGED <<now, end, quietTime, world, reply>>

AfterOutput == "listen"

\* read() returns with output, at once or as soon as there's any, or at the end of
\* quiet_time without it; or there's no more to come: EOFError.
Heard ==
    /\ phase = "read" /\ written
    /\ phase' = AfterOutput /\ written' = FALSE
    /\ UNCHANGED <<now, end, quietTime, until, up, ended, noise, reply>>

Quiet ==
    /\ phase = "read" /\ ~written /\ ~ended /\ now = until
    /\ phase' = "booted"
    /\ UNCHANGED <<now, end, quietTime, until, world, reply>>

ConsoleEnded ==
    /\ phase = "read" /\ ~written /\ ended
    /\ phase' = "timeout"
    /\ UNCHANGED <<now, end, quietTime, until, world, reply>>

-----------------------------------------------------------------------------
\* The machine and time.

ComesUp ==
    /\ ~up /\ up' = TRUE
    /\ UNCHANGED <<now, end, quietTime, phase, until, written, ended, noise, reply>>

Writes ==
    /\ ~ended /\ written' = TRUE /\ noise' = now
    /\ UNCHANGED <<now, end, quietTime, phase, until, up, ended, reply>>

ConsoleEnds ==
    /\ ~ended /\ ended' = TRUE
    /\ UNCHANGED <<now, end, quietTime, phase, until, up, written, noise, reply>>

Waiting ==
    \/ phase \in {"ping", "sleep"} /\ now < until
    \/ phase = "read" /\ ~written /\ ~ended /\ now < until

Tick ==
    /\ Waiting /\ now < MaxTime
    /\ now' = now + 1
    /\ UNCHANGED <<end, quietTime, phase, until, world, reply>>

Next ==
    /\ phase \notin Done
    /\ \/ Test \/ Replied \/ Unanswered \/ PingFails \/ Slept
       \/ Listen \/ Heard \/ Quiet \/ ConsoleEnded
       \/ ComesUp \/ Writes \/ ConsoleEnds \/ Tick

Spec == Init /\ [][Next]_vars

-----------------------------------------------------------------------------
\* The type invariant: what it sleeps or waits for is never over before it's seen.
TypeOK ==
    /\ now \in 0 .. MaxTime /\ end \in Timeouts /\ quietTime \in QuietTimes
    /\ phase \in {"test", "ping", "sleep", "listen", "read"} \cup Done
    /\ until \in Nat /\ (phase \in {"ping", "sleep", "read"} => now <= until)
    /\ {up, written, ended} \subseteq BOOLEAN
    /\ {noise, reply} \subseteq 0 .. now

Latest(a, b) == IF a < b THEN b ELSE a

\* Who is told that a machine booted can rely on it: it answered a ping, then its
\* console wrote nothing for quiet_time, and all of it by the deadline.
BootedMeansQuiet ==
    phase = "booted" => up /\ Latest(noise, reply) + quietTime <= now /\ now <= end

\* Nobody is told of a timeout that needn't be: when a machine that answered is
\* given up on, its console wouldn't have been quiet for long enough by the
\* deadline even if it didn't write again.
GivenUpForAReason ==
    phase = "timeout" /\ ~ended =>
        \/ now >= end
        \/ up /\ Latest(noise, reply) + quietTime > end

\* The wait goes on past the deadline for no longer than a ping and a sleep.
EndsInTime == phase \notin Done => now <= end + PingTimeout + Interval
=============================================================================
