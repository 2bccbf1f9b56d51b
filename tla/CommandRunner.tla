--------------------------- MODULE CommandRunner ---------------------------
(***************************************************************************)
(* What susa.core.communicator.CommandRunner promises whoever calls run(): *)
(* calls are made one after another, and each returns the whole answer of  *)
(* its own command or raises a TimeoutError.  Nothing is said of streams,  *)
(* terminals or processes; modules Shell and HostCommand are shown to      *)
(* implement this.                                                         *)
(***************************************************************************)
EXTENDS Naturals

CONSTANTS
    Calls,     \* how many calls are made, in turn: 1 .. Calls
    AnswerOf,  \* [1 .. Calls -> what the command of a call writes, and its exit code]
    TimedOut,  \* of a call that raised
    NoAnswer   \* of a call that wasn't made, or is still at work

VARIABLES
    at,        \* the call at work, 0 if none is
    results    \* [1 .. Calls -> what became of it]

RunnerInit ==
    /\ at = 0
    /\ results = [c \in 1 .. Calls |-> NoAnswer]

Call(c) ==
    /\ at = 0
    /\ \A d \in 1 .. Calls : results[d] = NoAnswer <=> d >= c
    /\ at' = c
    /\ UNCHANGED results

Returns(result) ==
    /\ at # 0
    /\ results' = [results EXCEPT ![at] = result]
    /\ at' = 0

RunnerNext ==
    \/ \E c \in 1 .. Calls : Call(c)
    \/ at # 0 /\ Returns(AnswerOf[at])
    \/ Returns(TimedOut)

RunnerSpec == RunnerInit /\ [][RunnerNext]_<<at, results>>
=============================================================================
