---------------------------- MODULE UnixCommand ----------------------------
(***************************************************************************)
(* susa.communicators.unix.UnixCommand: a command started in the           *)
(* background of a shell, on a machine that is reached only by running one *)
(* shell command at a time.  Its input is a FIFO that a process, the       *)
(* holder, keeps open until it's closed; its output goes to a file that is *)
(* read by polling; a waiter writes its exit code to another.              *)
(*                                                                         *)
(* Each call of the communicator is a step; what it started in the         *)
(* background goes on by itself meanwhile.  This module keeps track of who *)
(* has which end of the FIFO open, as the input ends when nobody has it    *)
(* open for writing.                                                       *)
(***************************************************************************)
EXTENDS Integers

CONSTANTS
    Input,      \* bound: how many times the input is written
    Output      \* bound: how much the command writes

ASSUME SizeAssumption == Input \in Nat /\ Output \in Nat

VARIABLES
    how,       \* who uses the command, which never changes: "run" for UnixCommunicator.run,
               \* "streams" for a caller of start()
    readsAll,  \* whether the command reads its input to the end before it exits, which
               \* never changes
    pc,        \* the call that is at work, or "idle"
    sent,      \* how many writes were made
    offset,    \* UnixOutputStream.offset
    finished,  \* read(): the local variable
    eof,       \* whether a read() raised EOFError
    exitCode,  \* whether self.exit_code is set
    \* the machine
    waiter,    \* the subshell: "none", "forked", "quiet", "waiting" or "gone"
    command,   \* "none", "forked", "bound", "running", "exited" or "reaped"
    holder,    \* "none", "forked", "bound" or "killed"
    shellEnds, \* whether the shell has descriptors 4 and 5
    fifo,      \* what is in the FIFO
    sawEnd,    \* whether the command saw its input end
    written,   \* the length of the output file
    status     \* whether the status file has the exit code

vars == <<how, readsAll, pc, sent, offset, finished, eof, exitCode,
          waiter, command, holder, shellEnds, fifo, sawEnd, written, status>>
client == <<how, readsAll, pc, sent, offset, finished, eof, exitCode>>
machine == <<waiter, command, holder, shellEnds, fifo, sawEnd, written, status>>

Init ==
    /\ how \in {"run", "streams"} /\ readsAll \in BOOLEAN
    /\ pc = "new" /\ sent = 0 /\ offset = 0 /\ finished = FALSE /\ eof = FALSE
    /\ exitCode = FALSE
    /\ waiter = "none" /\ command = "none" /\ holder = "none" /\ shellEnds = FALSE
    /\ fifo = 0 /\ sawEnd = FALSE /\ written = 0 /\ status = FALSE

\* A slip: the command, too, has descriptor 4 ("4>&-" left out).
KeepsInput == command \in {"forked", "bound", "running"}

CommandHasInput == command \in {"forked", "bound"}

\* A slip: the holder doesn't have it as its output (">&4" left out).
HoldsWhileForked == holder = "forked"

Held == holder \in {"forked", "bound"}

\* Who has the FIFO open for writing: descriptor 4 is inherited until "4>&-".
HasWriter == shellEnds \/ waiter \in {"forked", "quiet"} \/ CommandHasInput \/ Held

HasReader ==
    \/ shellEnds
    \/ waiter \in {"forked", "quiet"}
    \/ command \in {"forked", "bound", "running"}

-----------------------------------------------------------------------------
\* UnixCommand.__init__, a communicator call at a time.

\* mkfifo && exec 3<> 4> 5< 3<&-
OpenFifo ==
    /\ pc = "new"
    /\ shellEnds' = TRUE
    /\ pc' = "background"
    /\ UNCHANGED <<how, readsAll, sent, offset, finished, eof, exitCode,
                   waiter, command, holder, fifo, sawEnd, written, status>>

Background ==
    /\ pc = "background"
    /\ waiter' = "forked" /\ command' = "forked"
    /\ pc' = "started"
    /\ UNCHANGED <<how, readsAll, sent, offset, finished, eof, exitCode,
                   holder, shellEnds, fifo, sawEnd, written, status>>

\* "echo $( (...) & )" returns once nobody holds its output any more.
CommandStarted == waiter # "forked" /\ command # "forked"

Hold ==
    /\ pc = "started"
    /\ CommandStarted
    /\ holder' = "forked"
    /\ pc' = "holding"
    /\ UNCHANGED <<how, readsAll, sent, offset, finished, eof, exitCode,
                   waiter, command, shellEnds, fifo, sawEnd, written, status>>

\* exec 4>&- 5<&-
CloseEnds ==
    /\ pc = "holding"
    /\ holder # "forked"
    /\ shellEnds' = FALSE
    /\ pc' = "idle"
    /\ UNCHANGED <<how, readsAll, sent, offset, finished, eof, exitCode,
                   waiter, command, holder, fifo, sawEnd, written, status>>

-----------------------------------------------------------------------------
\* A slip: the input is closed after the command was waited for.
WaitsFirst(step) ==
    how = "run" =>
        step = CASE ~exitCode -> "wait"
                 [] exitCode /\ holder # "killed" -> "close"
                 [] OTHER -> "read"

\* UnixCommunicator.run: stdin.close(), wait(), read_all().
InOrder(step) ==
    how = "run" =>
        step = CASE holder # "killed" -> "close"
                 [] holder = "killed" /\ ~exitCode -> "wait"
                 [] OTHER -> "read"

\* The command's streams.

\* UnixInputStream.write: the shell opens the FIFO, which waits for a reader.
Write ==
    /\ pc = "idle" /\ how = "streams" /\ sent < Input /\ holder # "killed"
    /\ pc' = "write"
    /\ UNCHANGED <<how, readsAll, sent, offset, finished, eof, exitCode, machine>>

Written ==
    /\ pc = "write" /\ HasReader
    /\ fifo' = fifo + 1
    /\ sent' = sent + 1
    /\ pc' = "idle"
    /\ UNCHANGED <<how, readsAll, offset, finished, eof, exitCode,
                   waiter, command, holder, shellEnds, sawEnd, written, status>>

\* UnixInputStream.close: nothing the second time.
CloseInput ==
    /\ pc = "idle" /\ InOrder("close")
    /\ holder' = "killed"
    /\ UNCHANGED <<client, waiter, command, shellEnds, fifo, sawEnd, written, status>>

\* poll(): the exit code, if it was written, which also closes the input.
PollStatus ==
    /\ exitCode' = (exitCode \/ status)
    /\ holder' = IF status THEN "killed" ELSE holder

Poll ==
    /\ pc = "idle" /\ InOrder("wait")
    /\ PollStatus
    /\ UNCHANGED <<how, readsAll, pc, sent, offset, finished, eof,
                   waiter, command, shellEnds, fifo, sawEnd, written, status>>

\* A slip: asking whether it finished after reading the output instead of before.
FinishedSince == status

FinishedBefore == finished

\* UnixOutputStream.read: poll first, then tail.
ReadPoll ==
    /\ pc = "idle" /\ ~eof /\ InOrder("read")
    /\ PollStatus
    /\ finished' = exitCode'
    /\ pc' = "tail"
    /\ UNCHANGED <<how, readsAll, sent, offset, eof,
                   waiter, command, shellEnds, fifo, sawEnd, written, status>>

SizeRead == written

ReadTail ==
    /\ pc = "tail"
    /\ offset' = SizeRead
    /\ pc' = IF written > offset THEN "idle" ELSE "tailed"
    /\ UNCHANGED <<how, readsAll, sent, finished, eof, exitCode, machine>>

\* No data: EOFError, or b"" (then the caller may read again).
ReadNothing ==
    /\ pc = "tailed"
    /\ eof' = FinishedBefore
    /\ pc' = "idle"
    /\ UNCHANGED <<how, readsAll, sent, offset, finished, exitCode, machine>>

\* run()'s deadline passes, in wait() or in read_all(): the command goes on.
TimesOut ==
    /\ pc = "idle" /\ how = "run" /\ holder = "killed" /\ ~eof
    /\ pc' = "raised"
    /\ UNCHANGED <<how, readsAll, sent, offset, finished, eof, exitCode, machine>>

\* AsyncCommandStream.close: the input, then kill, then wait.
CloseStream ==
    /\ pc = "idle" /\ how = "streams"
    /\ holder' = "killed"
    /\ pc' = "kill"
    /\ UNCHANGED <<how, readsAll, sent, offset, finished, eof, exitCode,
                   waiter, command, shellEnds, fifo, sawEnd, written, status>>

\* check("kill <pid>"), which fails once the waiter reaped it.
Kill ==
    /\ pc = "kill"
    /\ IF command = "reaped"
         THEN pc' = "failed" /\ command' = command
         ELSE pc' = "await" /\ command' = "exited"
    /\ UNCHANGED <<how, readsAll, sent, offset, finished, eof, exitCode,
                   waiter, holder, shellEnds, fifo, sawEnd, written, status>>

Await ==
    /\ pc = "await" /\ status
    /\ exitCode' = TRUE
    /\ pc' = "closed"
    /\ UNCHANGED <<how, readsAll, sent, offset, finished, eof, machine>>

-----------------------------------------------------------------------------
\* What runs in the background on the machine.

\* exec > /dev/null, then 4>&- 5<&-
WaiterStep ==
    /\ waiter \in {"forked", "quiet"}
    /\ waiter' = IF waiter = "forked" THEN "quiet" ELSE "waiting"
    /\ UNCHANGED <<client, command, holder, shellEnds, fifo, sawEnd, written, status>>

\* <&5 >out 2>err, then 4>&- 5<&- and exec
CommandStep ==
    /\ command \in {"forked", "bound"}
    /\ command' = IF command = "forked" THEN "bound" ELSE "running"
    /\ UNCHANGED <<client, waiter, holder, shellEnds, fifo, sawEnd, written, status>>

\* sleep >&4
HolderStep ==
    /\ holder = "forked"
    /\ holder' = "bound"
    /\ UNCHANGED <<client, waiter, command, shellEnds, fifo, sawEnd, written, status>>

CommandReads ==
    /\ command = "running"
    /\ \/ fifo > 0 /\ fifo' = fifo - 1 /\ sawEnd' = sawEnd
       \/ fifo = 0 /\ ~HasWriter /\ ~sawEnd /\ sawEnd' = TRUE /\ fifo' = fifo
    /\ UNCHANGED <<client, waiter, command, holder, shellEnds, written, status>>

CommandWrites ==
    /\ command = "running" /\ written < Output
    /\ written' = written + 1
    /\ UNCHANGED <<client, waiter, command, holder, shellEnds, fifo, sawEnd, status>>

CommandExits ==
    /\ command = "running"
    /\ readsAll => sawEnd
    /\ command' = "exited"
    /\ UNCHANGED <<client, waiter, holder, shellEnds, fifo, sawEnd, written, status>>

\* wait $!
Reap ==
    /\ waiter = "waiting" /\ command = "exited"
    /\ command' = "reaped"
    /\ UNCHANGED <<client, waiter, holder, shellEnds, fifo, sawEnd, written, status>>

\* echo $? > status
WriteStatus ==
    /\ waiter = "waiting" /\ command = "reaped"
    /\ status' = TRUE
    /\ waiter' = "gone"
    /\ UNCHANGED <<client, command, holder, shellEnds, fifo, sawEnd, written>>

Call ==
    \/ OpenFifo \/ Background \/ Hold \/ CloseEnds \/ Written \/ ReadTail \/ ReadNothing
    \/ Kill \/ Await

Caller == Write \/ CloseInput \/ Poll \/ ReadPoll \/ TimesOut \/ CloseStream

Machine ==
    \/ WaiterStep \/ CommandStep \/ HolderStep \/ CommandReads \/ CommandExits \/ Reap
    \/ WriteStatus

Next == Call \/ Caller \/ Machine \/ CommandWrites

Spec == Init /\ [][Next]_vars

\* A call that was made goes on, run() makes its own, and so does each process of the machine.
FairSpec ==
    /\ Spec
    /\ WF_vars(Call)
    /\ WF_vars(how = "run" /\ (CloseInput \/ Poll \/ ReadPoll))
    /\ WF_vars(WaiterStep \/ Reap \/ WriteStatus)
    /\ WF_vars(CommandStep \/ CommandReads)
    /\ WF_vars(CommandExits)
    /\ WF_vars(HolderStep)

-----------------------------------------------------------------------------
TypeOK ==
    /\ how \in {"run", "streams"} /\ readsAll \in BOOLEAN
    /\ pc \in {"new", "background", "started", "holding", "idle", "write", "tail", "tailed",
               "kill", "await", "failed", "closed", "raised"}
    /\ sent \in 0 .. Input /\ offset \in 0 .. Output
    /\ finished \in BOOLEAN /\ eof \in BOOLEAN /\ exitCode \in BOOLEAN
    /\ waiter \in {"none", "forked", "quiet", "waiting", "gone"}
    /\ command \in {"none", "forked", "bound", "running", "exited", "reaped"}
    /\ holder \in {"none", "forked", "bound", "killed"}
    /\ shellEnds \in BOOLEAN /\ sawEnd \in BOOLEAN /\ status \in BOOLEAN
    /\ fifo \in 0 .. Input /\ written \in 0 .. Output

\* EOFError is only raised once all that the command wrote was read: polling
\* before reading, what it writes right before it exits isn't missed.
EndMeansAllRead ==
    /\ TypeOK
    /\ eof => command = "reaped" /\ offset = written

\* "so that both have them however long they take to start": the command doesn't
\* see its input end before it's closed, whoever is slow to start.
EndsOnlyWhenClosed == sawEnd => holder = "killed"

\* A command waiting for the end of its input sees it once that is closed: none
\* of the processes that inherited the FIFO keeps it open.
CloseIsSeen ==
    holder = "killed" /\ command = "running" ~> sawEnd \/ command # "running"

\* No call waits for what never comes: run() returns or raises, whether or not the
\* command reads its input to the end, and a write() returns while the command, which
\* is what reads it, didn't exit.
CallsReturn ==
    /\ how = "run" ~> eof \/ pc = "raised"
    /\ pc = "write" ~> pc # "write" \/ command \in {"exited", "reaped"}

\* Closing the stream of a command (stdin.close(), kill(), wait()) never fails,
\* whenever the command exits: ShellCommunicator closes the stream of a client
\* that is gone, and goes on.
CloseSucceeds == pc # "failed"
=============================================================================
