------------------------------- MODULE Shell -------------------------------
(***************************************************************************)
(* susa.communicators.shell.ShellCommunicator: commands are typed at a     *)
(* shell's terminal, each followed by a line that prints its exit code in  *)
(* a marker.  create() attaches to a machine that may still be booting,    *)
(* run() types a command and reads until the marker, and interrupts the    *)
(* shell if that takes too long; destroy() hangs the shell up.             *)
(*                                                                         *)
(* What is typed goes over `wire' to the terminal's queue `tty', where the *)
(* shell reads it line by line; an interrupt acts when it arrives.  What   *)
(* the shell and its commands write comes back in `out', in order.         *)
(*                                                                         *)
(* Time: a shell that has started and has something to do does it within   *)
(* the 10 seconds of SETUP_ATTEMPT_TIMEOUT and the second of               *)
(* RECOVERY_QUIET_TIME.  A machine that is still starting, and a command,  *)
(* may take any time at all.                                               *)
(***************************************************************************)
EXTENDS Integers, Sequences, FiniteSets, SequencesExt

CONSTANTS
    Commands,     \* how many commands are run, in turn: 1 .. Commands
    Obstinate,    \* the ones that ignore SIGINT
    Endless,      \* the ones that don't end by themselves
    MaxAttempts   \* bound: CONNECT_TIMEOUT passes after this many attachments

Probe == 0       \* the command that attach() ends with: echo SUSA-READY
Command == 0 .. Commands
None == -1

ASSUME CommandsAssumption ==
    /\ Commands \in Nat
    /\ Obstinate \subseteq 1 .. Commands
    /\ Endless \subseteq 1 .. Commands
ASSUME AttemptsAssumption == MaxAttempts \in Nat \ {0}

VARIABLES
    \* ShellCommunicator
    pc, cmd,      \* what it is doing, and the command that run() is at
    buf,          \* the result that read_until is building
    results,      \* [1 .. Commands -> what run() returned, or raised]
    interrupt,    \* the argument of the next attach()
    attempts,     \* attach() calls so far
    \* the connection and the machine
    conn,         \* the stream: "none", "open", or "ended"
    wire, tty, out,
    phase,        \* the machine: "starting" or "shell"
    setup,        \* whether the shell ran SETUP: no echo, no prompts
    running, last,  \* the shell's: the command it runs, and the last one, $?
    wrote,        \* whether the running command wrote its output
    \* history
    calm,         \* since attach() began, the shell was there and lost no input
    lost          \* run() gave up on a command that is still running

client == <<pc, cmd, buf, results, interrupt, attempts>>
shell == <<phase, setup, running, last, wrote>>
history == <<calm, lost>>
vars == <<client, conn, wire, tty, out, shell, history>>

Mark == <<"mark", 0>>
Setup == <<"setup", 0>>
CtrlC == <<"int", 0>>
HangUp == <<"hangup", 0>>
Cmd(c) == <<"cmd", c>>
Out(c) == <<"out", c>>
Exit(c) == <<"exit", c>>
Noise == <<"noise", 0>>
HungUp == <<"hungup", 0>>

IsExit(token) == token[1] = "exit"
HasExit(s) == \E i \in DOMAIN s : IsExit(s[i])

\* output[: match.start()] and match[1], of the first match.
FirstExit(s) == SelectInSeq(s, IsExit)
Parse(s) == [stdout |-> SubSeq(s, 1, FirstExit(s) - 1), status |-> s[FirstExit(s)][2]]

Answer(c) == [stdout |-> <<Out(c)>>, status |-> c]
Unanswered == [stdout |-> <<>>, status |-> None]
TimedOut == [stdout |-> <<Noise>>, status |-> None]

Init ==
    /\ pc = "off" /\ cmd = 0 /\ buf = <<>> /\ interrupt = FALSE /\ attempts = 0
    /\ results = [c \in 1 .. Commands |-> Unanswered]
    /\ conn = "none" /\ wire = <<>> /\ tty = <<>> /\ out = <<>>
    /\ phase = "starting" /\ setup = FALSE /\ running = None /\ last = Probe /\ wrote = FALSE
    /\ calm = FALSE /\ lost = FALSE

-----------------------------------------------------------------------------
\* The terminal and the shell (external).

Echoes == IF setup THEN <<>> ELSE <<Noise>>

\* Programs that the machine and the shell start with may discard what is typed,
\* or the setup and not the marker on its line; so may a shell before its setup.
Arrive ==
    /\ conn = "open" /\ wire # <<>> /\ Head(wire) # CtrlC
    /\ wire' = Tail(wire)
    /\ \/ /\ tty' = Append(tty, Head(wire))
          /\ out' = out \o Echoes
          /\ calm' = calm
       \/ /\ ~setup
          /\ tty' \in {tty} \cup (IF Head(wire) = Setup THEN {Append(tty, Mark)} ELSE {})
          /\ out' = out \o Echoes
          /\ calm' = FALSE
    /\ UNCHANGED <<client, conn, shell, lost>>

MarksOf(lines) == [n \in 1 .. Cardinality({i \in DOMAIN lines : lines[i] = Mark}) |-> Mark]

\* ^C stops the command and discards what the shell didn't read yet, but for
\* markers at times.  It may kill a shell that is starting.
ArriveInterrupt ==
    /\ conn = "open" /\ wire # <<>> /\ Head(wire) = CtrlC
    /\ wire' = Tail(wire)
    /\ tty' \in {<<>>, MarksOf(tty)}
    /\ out' = out \o Echoes
    /\ IF running \in Command \ Obstinate
         THEN running' = None /\ last' = running
         ELSE UNCHANGED <<running, last>>
    /\ conn' \in (IF phase = "starting" THEN {"open", "ended"} ELSE {"open"})
    /\ UNCHANGED <<client, phase, setup, wrote, history>>

Start ==
    /\ conn = "open" /\ phase = "starting"
    /\ phase' = "shell"
    /\ out' = Append(out, Noise)
    /\ UNCHANGED <<client, conn, wire, tty, setup, running, last, wrote, history>>

\* What a booting machine writes (bound: once per read).
Boot ==
    /\ conn = "open" /\ phase = "starting" /\ out = <<>> /\ Noise \notin ToSet(buf)
    /\ out' = <<Noise>>
    /\ UNCHANGED <<client, conn, wire, tty, shell, history>>

\* A machine that isn't up yet: the client exits.
Refuse ==
    /\ conn = "open" /\ phase = "starting"
    /\ conn' = "ended"
    /\ UNCHANGED <<client, wire, tty, out, shell, history>>

ReadLine ==
    /\ conn = "open" /\ phase = "shell" /\ running = None /\ tty # <<>>
    /\ tty' = Tail(tty)
    /\ LET line == Head(tty) IN
         \/ line = Mark /\ out' = Append(out, Exit(last)) \o Echoes
                        /\ UNCHANGED <<setup, running, wrote, conn>>
         \/ line = Setup /\ setup' = TRUE /\ out' = Append(out, Exit(last))
                         /\ UNCHANGED <<running, wrote, conn>>
         \/ line[1] = "cmd" /\ running' = line[2] /\ wrote' = FALSE
                            /\ UNCHANGED <<setup, out, conn>>
         \/ line = HangUp /\ out' = Append(out, HungUp) /\ conn' = "ended"
                          /\ UNCHANGED <<setup, running, wrote>>
    /\ UNCHANGED <<client, wire, phase, last, history>>

CommandWrites ==
    /\ conn = "open" /\ running # None /\ ~wrote
    /\ wrote' = TRUE
    /\ out' = Append(out, Out(running))
    /\ UNCHANGED <<client, conn, wire, tty, phase, setup, running, last, history>>

CommandEnds ==
    /\ conn = "open" /\ running \in Command \ Endless /\ wrote
    /\ running' = None
    /\ last' = running
    /\ out' = out \o Echoes
    /\ UNCHANGED <<client, conn, wire, tty, phase, setup, wrote, history>>

\* What is left to do doesn't depend on how long a command or a boot takes.
Prompt ==
    /\ conn = "open" /\ phase = "shell"
    /\ \/ wire # <<>>
       \/ running = None /\ tty # <<>>
       \/ running = Probe

\* Nothing arrives for as long as the client waits.
Silent == out = <<>> /\ ~Prompt /\ conn = "open"

-----------------------------------------------------------------------------
Type(lines) == wire' = wire \o lines

Read ==
    /\ pc \in {"mark", "setup", "run", "recover"}
    /\ ~HasExit(buf)
    /\ \E n \in 1 .. Len(out) :
        /\ buf' = buf \o SubSeq(out, 1, n)
        /\ out' = SubSeq(out, n + 1, Len(out))
    /\ UNCHANGED <<pc, cmd, results, interrupt, attempts, conn, wire, tty, shell, history>>

\* wait_until_quiet reads, and drops, what still comes.
Drain ==
    /\ pc \in {"settle", "settled", "quiet"}
    /\ out # <<>>
    /\ out' = <<>>
    /\ UNCHANGED <<client, conn, wire, tty, shell, history>>

\* create(): open_stream, the first attempt not interrupting anything.
Connect ==
    /\ pc \in {"off", "reconnect"}
    /\ conn' = "open"
    /\ wire' = <<>> /\ tty' = <<>> /\ out' = <<>>
    /\ phase' \in {"starting", "shell"} /\ setup' = FALSE
    /\ running' = None /\ last' = Probe /\ wrote' = FALSE
    /\ interrupt' = FALSE
    /\ pc' = "attach"
    /\ UNCHANGED <<cmd, buf, results, attempts, history>>

NotYet == attempts < MaxAttempts

Attach ==
    /\ pc = "attach"
    /\ NotYet
    /\ attempts' = attempts + 1
    /\ Type(IF interrupt THEN <<CtrlC>> ELSE <<>>)
    /\ calm' = (conn = "open" /\ phase = "shell")
    /\ buf' = <<>>
    /\ pc' = "settle"
    /\ UNCHANGED <<cmd, results, interrupt, conn, tty, out, shell, lost>>

\* A slip: typing while what was typed before is still answered.
Unsettled == conn = "open"

Settled == Silent

TypeMark ==
    /\ pc = "settle" /\ Settled
    /\ Type(<<Mark>>)
    /\ buf' = <<>>
    /\ pc' = "mark"
    /\ UNCHANGED <<cmd, results, interrupt, attempts, conn, tty, out, shell, history>>

TypeSetup ==
    /\ pc = "mark" /\ HasExit(buf)
    /\ Type(<<Setup>>)
    /\ buf' = <<>>
    /\ pc' = "setup"
    /\ UNCHANGED <<cmd, results, interrupt, attempts, conn, tty, out, shell, history>>

SetUp ==
    /\ pc = "setup" /\ HasExit(buf)
    /\ pc' = "settled"
    /\ UNCHANGED <<cmd, buf, results, interrupt, attempts, conn, wire, tty, out, shell, history>>

Write(c) ==
    /\ cmd' = c
    /\ buf' = <<>>
    /\ Type(<<Cmd(c), Mark>>)
    /\ pc' = "run"

RunProbe ==
    /\ pc = "settled" /\ Settled
    /\ Write(Probe)
    /\ UNCHANGED <<results, interrupt, attempts, conn, tty, out, shell, history>>

\* A slip: any answer to the probe will do.
AnyAnswer(r) == TRUE

IsReady(r) == r.stdout = <<Out(Probe)>>

\* deadline.test, then the next attach() interrupts.
AttachFails(then) == then = IF NotYet THEN "attach" ELSE "raised"

Probed ==
    /\ pc = "run" /\ cmd = Probe /\ HasExit(buf)
    /\ IF IsReady(Parse(buf))
         THEN pc' = "idle" /\ interrupt' = interrupt
         ELSE AttachFails(pc') /\ interrupt' = TRUE
    /\ UNCHANGED <<cmd, buf, results, attempts, conn, wire, tty, out, shell, history>>

\* A TimeoutError in attach() itself: no marker came, or it never was quiet.
AttachTimesOut ==
    /\ \/ pc \in {"mark", "setup"} /\ ~HasExit(buf) /\ Silent
       \/ pc \in {"settle", "settled"} /\ conn = "open" /\ phase = "starting"
    /\ AttachFails(pc')
    /\ interrupt' = TRUE
    /\ UNCHANGED <<cmd, buf, results, attempts, conn, wire, tty, out, shell, history>>

\* EOFError or BrokenPipeError in create(): it closes the stream and connects again.
Ended ==
    /\ \/ pc \in {"attach", "settle", "mark", "setup", "settled"}
       \/ pc \in {"run", "recover", "quiet"} /\ cmd = Probe
    /\ conn = "ended" /\ out = <<>> /\ ~HasExit(buf)
    /\ pc' = IF NotYet THEN "reconnect" ELSE "closed"
    /\ conn' = "none"
    /\ UNCHANGED <<cmd, buf, results, interrupt, attempts, wire, tty, out, shell, history>>

-----------------------------------------------------------------------------
Run ==
    /\ pc = "idle" /\ cmd < Commands
    /\ Write(cmd + 1)
    /\ UNCHANGED <<results, interrupt, attempts, conn, tty, out, shell, history>>

Return ==
    /\ pc = "run" /\ cmd # Probe /\ HasExit(buf)
    /\ results' = [results EXCEPT ![cmd] = Parse(buf)]
    /\ pc' = "idle"
    /\ UNCHANGED <<cmd, buf, interrupt, attempts, conn, wire, tty, out, shell, history>>

\* A command is late whenever it likes; the probe, only on a machine that isn't
\* ready for it.
Late ==
    /\ pc = "run" /\ ~HasExit(buf) /\ out = <<>>
    /\ cmd = Probe => Silent
    /\ Type(<<CtrlC, Mark>>)
    /\ buf' = <<>>
    /\ pc' = "recover"
    /\ UNCHANGED <<cmd, results, interrupt, attempts, conn, tty, out, shell, history>>

\* A slip: taking the first marker for the last one.
NoQuiet == TRUE

Quiet == Silent

\* A slip: waiting for the marker without a timeout.
MarkerCame == HasExit(buf)

\* The marker came, or its TimeoutError is suppressed.
WaitedForMarker == HasExit(buf) \/ Silent

Recovered ==
    /\ pc = "recover" /\ WaitedForMarker
    /\ pc' = "quiet"
    /\ UNCHANGED <<cmd, buf, results, interrupt, attempts, conn, wire, tty, out, shell, history>>

\* run() raises; create() takes that for an attachment that failed.
RaiseTimeout ==
    /\ pc = "quiet" /\ Quiet
    /\ IF cmd = Probe
         THEN /\ AttachFails(pc') /\ interrupt' = TRUE
              /\ results' = results
         ELSE /\ pc' = "idle" /\ interrupt' = interrupt
              /\ results' = [results EXCEPT ![cmd] = TimedOut]
    /\ lost' = (lost \/ running # None)
    /\ UNCHANGED <<cmd, buf, attempts, conn, wire, tty, out, shell, calm>>

-----------------------------------------------------------------------------
\* destroy(): hang up, wait until the shell read that, close in any case.
Destroy ==
    /\ pc = "idle"
    /\ Type(<<HangUp>>)
    /\ pc' = "hangup"
    /\ UNCHANGED <<cmd, buf, results, interrupt, attempts, conn, tty, out, shell, history>>

Close ==
    /\ pc = "hangup"
    /\ \/ \E i \in DOMAIN out : out[i] = HungUp
       \/ conn = "ended"
       \/ Silent
    /\ pc' = "closed"
    /\ conn' = "none"
    /\ UNCHANGED <<cmd, buf, results, interrupt, attempts, wire, tty, out, shell, history>>

Client ==
    \/ Read \/ Drain \/ Connect \/ Attach \/ TypeMark \/ TypeSetup \/ SetUp \/ RunProbe
    \/ Probed \/ AttachTimesOut \/ Ended \/ Return \/ Recovered \/ RaiseTimeout \/ Close

Terminal == Arrive \/ ArriveInterrupt \/ ReadLine \/ CommandWrites \/ CommandEnds

\* What nothing obliges to happen: calls, timeouts, and what machines do.
Other == Run \/ Late \/ Destroy \/ Start \/ Boot \/ Refuse

Next == Client \/ Terminal \/ Other

Spec == Init /\ [][Next]_vars

\* The client goes on, what was typed arrives and is read, and time passes.
FairSpec == Spec /\ WF_vars(Client) /\ WF_vars(Terminal) /\ WF_vars(Late)

-----------------------------------------------------------------------------
Line == {Mark, Setup, CtrlC, HangUp} \cup {Cmd(c) : c \in Command}
Token == {Noise, HungUp} \cup {Out(c) : c \in Command} \cup {Exit(c) : c \in Command}
Result == [stdout : Seq(Token), status : Command \cup {None}]

TypeOK ==
    /\ pc \in {"off", "reconnect", "attach", "settle", "mark", "setup", "settled", "run", "idle",
               "recover", "quiet", "raised", "hangup", "closed"}
    /\ cmd \in Command
    /\ buf \in Seq(Token) /\ results \in [1 .. Commands -> Result]
    /\ interrupt \in BOOLEAN /\ attempts \in 0 .. MaxAttempts
    /\ conn \in {"none", "open", "ended"}
    /\ wire \in Seq(Line) /\ tty \in Seq(Line \ {CtrlC}) /\ out \in Seq(Token)
    /\ phase \in {"starting", "shell"} /\ setup \in BOOLEAN
    /\ running \in Command \cup {None} /\ last \in Command /\ wrote \in BOOLEAN
    /\ {calm, lost} \subseteq BOOLEAN

\* run() is at work from the moment it types its command.
At == IF pc \in {"run", "recover", "quiet"} THEN cmd ELSE 0

Runner == INSTANCE CommandRunner WITH
    Calls <- Commands,
    AnswerOf <- [c \in 1 .. Commands |-> Answer(c)],
    NoAnswer <- Unanswered,
    at <- At

\* Terminal, markers and interrupts together are a runner whose every run() returns the
\* output and the exit code of its own command, or raises, whatever timed out before it,
\* but for what follows a command that ignores the interrupt.
ImplementsRunner == Runner!RunnerSpec

\* Between calls, until run() gave up on a command that still runs, the shell is set up
\* and in step with the client: nothing typed is left to run, and no output or marker is
\* left to arrive.
InStep ==
    /\ TypeOK
    /\ pc = "idle" /\ ~lost =>
           /\ setup
           /\ wire = <<>> /\ tty = <<>> /\ out = <<>> /\ running = None

\* "So the output of commands is exactly what they wrote", and the shell "still usable"
\* after a run() that timed out: until one gave up on a command that still runs, no
\* run() returns what isn't its own command's.
OwnAnswers == ~lost => \A c \in 1 .. Commands : results[c] \in {Unanswered, Answer(c), TimedOut}

\* attach() succeeds on a shell that is there when it begins and loses no input,
\* whatever the attempts before it typed: they never make one another fail.
CalmAttachSucceeds ==
    [][pc' \in {"attach", "raised"} /\ pc \notin {"off", "reconnect"} => ~calm]_vars

\* A run() with a timeout returns or raises, whatever the command does, even never
\* end and ignore the interrupt.
RunEnds == pc = "run" /\ cmd # Probe ~> pc = "idle"
=============================================================================
