------------------------- MODULE HostCommandProofs -------------------------
(***************************************************************************)
(* What holds of HostCommand however much the command writes, fits in its  *)
(* pipe and is left in its group.                                          *)
(***************************************************************************)
EXTENDS HostCommand, TLAPS

\* Where the caller is: what it waited for.
Stages ==
    /\ pc = "idle" => main = "none"
    /\ main = "none" => pc = "idle"
    /\ main = "reaped" => pc \in {"release", "join", "collect", "done"}
    /\ pc \in {"release", "join", "collect", "done"} => late \/ main = "reaped"
    /\ pc = "raised" => late
    /\ pc \in {"collect", "done", "raised"} => guard = "gone"

\* Once the guard is gone so is the group, and nothing starts in it again.
Killed ==
    /\ main = "none" => others = 0
    /\ guard = "gone" => main \in {"zombie", "reaped"} /\ others = 0
    /\ guard # "none" => main # "none"

\* What was written is read, or in the pipe; and only a command that was killed has
\* more to write.
Conserved ==
    /\ todo + pipe + got = Output
    /\ released /\ this = "up" => late \/ main = "reaped"
    /\ this = "up" /\ ~late /\ main \in {"zombie", "reaped"} => todo = 0

\* The reader saw the pipe's end when nobody had it open.
EndSeen ==
    /\ ended => main \in {"zombie", "reaped"} /\ others = 0 /\ pipe = 0
    /\ pc = "done" => ended

IInv == TypeOK /\ Stages /\ Killed /\ Conserved /\ EndSeen

LEMMA InitIInv == Init => IInv
  <1> SUFFICES ASSUME Init PROVE IInv
    OBVIOUS
  <1>1. TypeOK
    <2>1. 0 \in 0 .. MaxOthers /\ Output \in 0 .. Output /\ 0 \in 0 .. Capacity /\ 0 \in 0 .. Output
      BY SizeAssumption
    <2> QED BY <2>1, Zenon DEF Init, TypeOK
  <1>2. Stages /\ Killed /\ EndSeen
    BY DEF Init, Stages, Killed, EndSeen
  <1>3. Conserved
    BY SizeAssumption DEF Init, Conserved
  <1> QED BY <1>1, <1>2, <1>3 DEF IInv

\* The caller: run() or pings.
LEMMA CallIInv ==
    ASSUME IInv, Popen \/ MakeGuard \/ WaitReturns \/ WaitTimesOut
                 \/ Release \/ Joined \/ Collect \/ Die
    PROVE  IInv'
  <1> USE DEF IInv
  <1>1. CASE Popen
    <2> USE <1>1, SizeAssumption DEF Popen
    <2>1. TypeOK'
      BY DEF TypeOK
    <2>2. Stages' /\ Killed' /\ EndSeen'
      BY DEF TypeOK, Stages, Killed, EndSeen
    <2>3. Conserved'
      BY DEF TypeOK, Stages, Conserved
    <2> QED BY <2>1, <2>2, <2>3
  <1>2. CASE MakeGuard
    <2> USE <1>2, SizeAssumption DEF MakeGuard
    <2>1. TypeOK'
      BY DEF TypeOK
    <2>2. Stages' /\ Killed' /\ EndSeen'
      BY DEF TypeOK, Stages, Killed, EndSeen
    <2>3. Conserved'
      BY DEF TypeOK, Stages, Conserved
    <2> QED BY <2>1, <2>2, <2>3
  <1>3. CASE WaitReturns
    <2> USE <1>3, SizeAssumption DEF WaitReturns, Exited
    <2>1. TypeOK'
      BY DEF TypeOK
    <2>2. Stages' /\ Killed' /\ EndSeen'
      BY DEF TypeOK, Stages, Killed, EndSeen
    <2>3. Conserved'
      BY DEF TypeOK, Stages, Conserved
    <2> QED BY <2>1, <2>2, <2>3
  <1>4. CASE WaitTimesOut
    <2> USE <1>4, SizeAssumption DEF WaitTimesOut
    <2>1. TypeOK'
      BY DEF TypeOK
    <2>2. Stages' /\ Killed' /\ EndSeen'
      BY DEF TypeOK, Stages, Killed, EndSeen
    <2>3. Conserved'
      BY DEF TypeOK, Stages, Conserved
    <2> QED BY <2>1, <2>2, <2>3
  <1>5. CASE Release
    <2> USE <1>5, SizeAssumption DEF Release
    <2>1. TypeOK'
      BY DEF TypeOK
    <2>2. Stages' /\ Killed' /\ EndSeen'
      BY DEF TypeOK, Stages, Killed, EndSeen
    <2>3. Conserved'
      BY DEF TypeOK, Stages, Conserved
    <2> QED BY <2>1, <2>2, <2>3
  <1>6. CASE Joined
    <2> USE <1>6, SizeAssumption DEF Joined
    <2>1. TypeOK'
      BY DEF TypeOK
    <2>2. Stages' /\ Killed' /\ EndSeen'
      BY DEF TypeOK, Stages, Killed, EndSeen
    <2>3. Conserved'
      BY DEF TypeOK, Stages, Conserved
    <2> QED BY <2>1, <2>2, <2>3
  <1>7. CASE Collect
    <2> USE <1>7, SizeAssumption DEF Collect, AllRead
    <2>1. TypeOK'
      BY DEF TypeOK
    <2>2. Stages' /\ Killed' /\ EndSeen'
      BY DEF TypeOK, Stages, Killed, EndSeen
    <2>3. Conserved'
      BY DEF TypeOK, Stages, Conserved
    <2> QED BY <2>1, <2>2, <2>3
  <1>8. CASE Die
    <2> USE <1>8, SizeAssumption DEF Die
    <2>1. TypeOK'
      BY DEF TypeOK
    <2>2. Stages' /\ Killed' /\ EndSeen'
      BY DEF TypeOK, Stages, Killed, EndSeen
    <2>3. Conserved'
      BY DEF TypeOK, Stages, Conserved
    <2> QED BY <2>1, <2>2, <2>3
  <1> QED BY <1>1, <1>2, <1>3, <1>4, <1>5, <1>6, <1>7, <1>8

\* The pipe, and its readers.
LEMMA PipeIInv ==
    ASSUME IInv, Read \/ ReadEnd \/ Writes
    PROVE  IInv'
  <1> USE DEF IInv
  <1>1. CASE Read
    <2> USE <1>1, SizeAssumption DEF Read, Reads
    <2>1. TypeOK'
      BY DEF TypeOK, Conserved
    <2>2. Stages' /\ Killed' /\ EndSeen'
      BY DEF TypeOK, Stages, Killed, EndSeen
    <2>3. Conserved'
      BY DEF TypeOK, Stages, Conserved
    <2> QED BY <2>1, <2>2, <2>3
  <1>2. CASE ReadEnd
    <2> USE <1>2, SizeAssumption DEF ReadEnd, Reads, Running
    <2>1. TypeOK'
      BY DEF TypeOK
    <2>2. Stages' /\ Killed' /\ EndSeen'
      BY DEF TypeOK, Stages, Killed, EndSeen
    <2>3. Conserved'
      BY DEF TypeOK, Stages, Conserved
    <2> QED BY <2>1, <2>2, <2>3
  <1>3. CASE Writes
    <2> USE <1>3, SizeAssumption DEF Writes, Running, Fits
    <2>1. TypeOK'
      BY DEF TypeOK
    <2>2. Stages' /\ Killed' /\ EndSeen'
      BY DEF TypeOK, Stages, Killed, EndSeen
    <2>3. Conserved'
      BY DEF TypeOK, Stages, Conserved
    <2> QED BY <2>1, <2>2, <2>3
  <1> QED BY <1>1, <1>2, <1>3

\* The command's group, and its guard.
LEMMA GroupIInv ==
    ASSUME IInv, BreaksPipe \/ Exits \/ Forks \/ OtherExits \/ GuardKills
    PROVE  IInv'
  <1> USE DEF IInv
  <1>1. CASE BreaksPipe
    <2> USE <1>1, SizeAssumption DEF BreaksPipe, Running
    <2>1. TypeOK'
      BY DEF TypeOK
    <2>2. Stages' /\ Killed' /\ EndSeen'
      BY DEF TypeOK, Stages, Killed, EndSeen
    <2>3. Conserved'
      BY DEF TypeOK, Stages, Conserved
    <2> QED BY <2>1, <2>2, <2>3
  <1>2. CASE Exits
    <2> USE <1>2, SizeAssumption DEF Exits, Running
    <2>1. TypeOK'
      BY DEF TypeOK
    <2>2. Stages' /\ Killed' /\ EndSeen'
      BY DEF TypeOK, Stages, Killed, EndSeen
    <2>3. Conserved'
      BY DEF TypeOK, Stages, Conserved
    <2> QED BY <2>1, <2>2, <2>3
  <1>3. CASE Forks
    <2> USE <1>3, SizeAssumption DEF Forks, Running
    <2>1. TypeOK'
      BY DEF TypeOK
    <2>2. Stages' /\ Killed' /\ EndSeen'
      BY DEF TypeOK, Stages, Killed, EndSeen
    <2>3. Conserved'
      BY DEF TypeOK, Stages, Conserved
    <2> QED BY <2>1, <2>2, <2>3
  <1>4. CASE OtherExits
    <2> USE <1>4, SizeAssumption DEF OtherExits
    <2>1. TypeOK'
      BY DEF TypeOK
    <2>2. Stages' /\ Killed' /\ EndSeen'
      BY DEF TypeOK, Stages, Killed, EndSeen
    <2>3. Conserved'
      BY DEF TypeOK, Stages, Conserved
    <2> QED BY <2>1, <2>2, <2>3
  <1>5. CASE GuardKills
    <2> USE <1>5, SizeAssumption DEF GuardKills, Running, KillGroup
    <2>1. TypeOK'
      BY DEF TypeOK
    <2>2. Stages' /\ Killed' /\ EndSeen'
      BY DEF TypeOK, Stages, Killed, EndSeen
    <2>3. Conserved'
      BY DEF TypeOK, Stages, Conserved
    <2> QED BY <2>1, <2>2, <2>3
  <1> QED BY <1>1, <1>2, <1>3, <1>4, <1>5

LEMMA NextIInv == IInv /\ [Next]_vars => IInv'
  <1> SUFFICES ASSUME IInv, [Next]_vars PROVE IInv'
    OBVIOUS
  <1>1. CASE UNCHANGED vars
    BY <1>1 DEF vars, IInv, TypeOK, Stages, Killed, Conserved, EndSeen
  <1> QED BY <1>1, CallIInv, PipeIInv, GroupIInv DEF Next, Python

LEMMA Inductive == Spec => []IInv
  BY InitIInv, NextIInv, PTL DEF Spec

-----------------------------------------------------------------------------
\* Whatever a command left running, and whenever it was killed, exited or timed out:
\* once run() or pings stopped waiting nothing of its group is left (communicator.py:95-127,
\* 144-200, networking.py:32-58, generic.py:47-61).
THEOREM NothingIsLeft == Spec => []LeavesNothing
  <1>1. IInv => LeavesNothing
    BY DEF IInv, Stages, Killed, Running, LeavesNothing
  <1> QED BY <1>1, Inductive, PTL

\* What a caller of run() can tell: nothing but that its call was made, and returned.
LEMMA InitRunner == Init => Runner!RunnerInit
  BY DEF Init, At, Returned, Runner!RunnerInit

LEMMA PopenCalls ==
    ASSUME IInv, Popen
    PROVE  Runner!Call(1)
  BY DEF IInv, Popen, At, Returned, Runner!Call

\* The answer is whole: all was written, and what was written was read.
LEMMA CollectReturns ==
    ASSUME IInv, Collect
    PROVE  Runner!Returns(IF late THEN <<"late">> ELSE <<"read", Output>>)
  <1> USE DEF IInv, Collect, AllRead
  <1>1. ~late => got = Output
    BY SizeAssumption DEF TypeOK, Stages, Conserved, EndSeen
  <1>2. At = 1 /\ At' = 0
    BY DEF At
  <1>3. Returned' = IF late THEN <<"late">> ELSE <<"read", Output>>
    BY <1>1, Zenon DEF Returned
  <1> QED BY <1>2, <1>3 DEF Runner!Returns

LEMMA JoinedReturns ==
    ASSUME IInv, Joined, pc' = "raised"
    PROVE  Runner!Returns(<<"late">>)
  BY DEF IInv, Joined, Stages, At, Returned, Runner!Returns

\* Every other step is the runner's own.
LEMMA InsideCall ==
    ASSUME IInv, [Next]_vars, ~Popen, ~Collect, ~(Joined /\ pc' = "raised")
    PROVE  UNCHANGED <<At, [c \in {1} |-> Returned]>>
  <1>1. At' = At
    BY DEF Next, Python, MakeGuard, WaitReturns, Exited, Release, Joined, WaitTimesOut, Read,
           ReadEnd, Die, Writes, BreaksPipe, Exits, Forks, OtherExits, GuardKills, vars, At
  <1>2. Returned' = Returned
    <2>1. CASE pc \in {"done", "raised"}
      <3>1. late' = late /\ pc' = pc
        BY <2>1 DEF Next, Python, MakeGuard, WaitReturns, Release, Joined, WaitTimesOut, Read,
           ReadEnd, Die, Writes, BreaksPipe, Exits, Forks, OtherExits, GuardKills, vars
      <3>2. ~late => got' = got
        BY <2>1 DEF Next, Python, MakeGuard, WaitReturns, Release, Joined, WaitTimesOut, Read,
           ReadEnd, Die, Writes, BreaksPipe, Exits, Forks, OtherExits, GuardKills, vars,
           IInv, TypeOK, Stages, EndSeen
      <3> QED BY <2>1, <3>1, <3>2 DEF Returned
    <2>2. CASE pc \notin {"done", "raised"}
      <3>1. pc' \notin {"done", "raised"}
        BY <2>2
        DEF Next, Python, MakeGuard, WaitReturns, Exited, Release, Joined, WaitTimesOut, Read,
            ReadEnd, Die, Writes, BreaksPipe, Exits, Forks, OtherExits, GuardKills, vars
      <3> QED BY <2>2, <3>1 DEF Returned
    <2> QED BY <2>1, <2>2
  <1> QED BY <1>1, <1>2

LEMMA StepIsRunners ==
    ASSUME IInv, [Next]_vars
    PROVE  [Runner!RunnerNext]_<<At, [c \in {1} |-> Returned]>>
  <1>1. CASE Popen
    BY <1>1, PopenCalls DEF Runner!RunnerNext
  <1>2. CASE Collect
    <2>1. At # 0
      BY <1>2 DEF Collect, At
    <2> QED BY <1>2, <2>1, CollectReturns DEF Runner!RunnerNext, Collect, At
  <1>3. CASE Joined /\ pc' = "raised"
    BY <1>3, JoinedReturns DEF Runner!RunnerNext
  <1> QED BY <1>1, <1>2, <1>3, InsideCall

\* AsyncCommandRunner.run and pings (the same lines) return all that the command wrote, or are
\* late, whoever else held the pipe open, whatever the pipe's capacity.
THEOREM RunnerImplemented == Spec => ImplementsRunner
  BY InitRunner, StepIsRunners, Inductive, PTL DEF Spec, ImplementsRunner, Runner!RunnerSpec
=============================================================================
