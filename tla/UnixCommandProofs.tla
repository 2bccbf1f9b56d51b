------------------------- MODULE UnixCommandProofs -------------------------
(***************************************************************************)
(* What holds of UnixCommand however much is written to it and by it.      *)
(***************************************************************************)
EXTENDS UnixCommand, TLAPS

\* What is in the FIFO was sent, and a write was begun only while one was left.
SentFirst ==
    /\ fifo <= sent
    /\ pc = "write" => sent < Input

\* While the FIFO is being passed on, the shell has it open, and the holder is there from
\* then on.
Passed ==
    /\ pc \in {"new", "background"} => command = "none" /\ waiter = "none"
    /\ pc \in {"new", "background", "started"} => holder = "none"
    /\ holder = "none" => pc \in {"new", "background", "started"}
    /\ pc \in {"background", "started", "holding"} => shellEnds

\* Who was told that the command finished, was told so after it did.
Finished ==
    /\ status => command = "reaped"
    /\ exitCode => status
    /\ pc \in {"tail", "tailed"} /\ finished => status
    /\ pc = "tailed" /\ finished => offset = written

IInv == TypeOK /\ SentFirst /\ Passed /\ Finished /\ EndMeansAllRead /\ EndsOnlyWhenClosed

LEMMA InitIInv == Init => IInv
  <1> SUFFICES ASSUME Init PROVE IInv
    OBVIOUS
  <1>1. TypeOK
    <2>1. 0 \in 0 .. Input /\ 0 \in 0 .. Output
      BY SizeAssumption
    <2> QED BY <2>1, Zenon DEF Init, TypeOK
  <1>2. SentFirst /\ Passed /\ Finished
    BY DEF Init, SentFirst, Passed, Finished
  <1>3. EndMeansAllRead /\ EndsOnlyWhenClosed
    BY <1>1 DEF Init, EndMeansAllRead, EndsOnlyWhenClosed
  <1> QED BY <1>1, <1>2, <1>3 DEF IInv

\* UnixCommand.__init__.
LEMMA StartIInv ==
    ASSUME IInv, OpenFifo \/ Background \/ Hold \/ CloseEnds
    PROVE  IInv'
  <1> USE DEF IInv
  <1>1. CASE OpenFifo
    <2> USE <1>1 DEF OpenFifo
    <2>1. TypeOK'
      BY DEF TypeOK
    <2>2. SentFirst' /\ Passed'
      BY DEF TypeOK, SentFirst, Passed
    <2>3. Finished'
      BY DEF TypeOK, Passed, Finished, EndMeansAllRead
    <2>4. EndMeansAllRead' /\ EndsOnlyWhenClosed'
      BY <2>1 DEF Finished, Passed, EndMeansAllRead, EndsOnlyWhenClosed
    <2> QED BY <2>1, <2>2, <2>3, <2>4
  <1>2. CASE Background
    <2> USE <1>2 DEF Background
    <2>1. TypeOK'
      BY DEF TypeOK
    <2>2. SentFirst' /\ Passed'
      BY DEF TypeOK, SentFirst, Passed
    <2>3. Finished'
      BY DEF TypeOK, Passed, Finished, EndMeansAllRead
    <2>4. EndMeansAllRead' /\ EndsOnlyWhenClosed'
      BY <2>1 DEF Finished, Passed, EndMeansAllRead, EndsOnlyWhenClosed
    <2> QED BY <2>1, <2>2, <2>3, <2>4
  <1>3. CASE Hold
    <2> USE <1>3 DEF Hold
    <2>1. TypeOK'
      BY DEF TypeOK
    <2>2. SentFirst' /\ Passed'
      BY DEF TypeOK, SentFirst, Passed
    <2>3. Finished'
      BY DEF TypeOK, Passed, Finished, EndMeansAllRead
    <2>4. EndMeansAllRead' /\ EndsOnlyWhenClosed'
      BY <2>1 DEF Finished, Passed, EndMeansAllRead, EndsOnlyWhenClosed
    <2> QED BY <2>1, <2>2, <2>3, <2>4
  <1>4. CASE CloseEnds
    <2> USE <1>4 DEF CloseEnds
    <2>1. TypeOK'
      <3>1. shellEnds' \in BOOLEAN
        OBVIOUS
      <3>2. pc' \in {"new", "background", "started", "holding", "idle", "write", "tail", "tailed",
                     "kill", "await", "failed", "closed", "raised"}
        OBVIOUS
      <3>3. /\ how' = how /\ readsAll' = readsAll /\ sent' = sent /\ offset' = offset
            /\ finished' = finished /\ eof' = eof /\ exitCode' = exitCode
            /\ waiter' = waiter /\ command' = command /\ holder' = holder
            /\ fifo' = fifo /\ sawEnd' = sawEnd /\ written' = written /\ status' = status
        OBVIOUS
      <3> QED BY <3>1, <3>2, <3>3, Zenon DEF TypeOK
    <2>2. SentFirst' /\ Passed'
      BY DEF TypeOK, SentFirst, Passed
    <2>3. Finished'
      BY DEF TypeOK, Passed, Finished, EndMeansAllRead
    <2>4. EndMeansAllRead' /\ EndsOnlyWhenClosed'
      BY <2>1 DEF Finished, Passed, EndMeansAllRead, EndsOnlyWhenClosed
    <2> QED BY <2>1, <2>2, <2>3, <2>4
  <1> QED BY <1>1, <1>2, <1>3, <1>4

\* Its input.
LEMMA InputIInv ==
    ASSUME IInv, Write \/ Written \/ CloseInput
    PROVE  IInv'
  <1> USE DEF IInv
  <1>1. CASE Write
    <2> USE <1>1 DEF Write, machine
    <2>1. TypeOK'
      BY DEF TypeOK
    <2>2. SentFirst' /\ Passed'
      BY DEF TypeOK, SentFirst, Passed
    <2>3. Finished'
      BY DEF TypeOK, Passed, Finished, EndMeansAllRead
    <2>4. EndMeansAllRead' /\ EndsOnlyWhenClosed'
      BY <2>1 DEF Finished, Passed, EndMeansAllRead, EndsOnlyWhenClosed
    <2> QED BY <2>1, <2>2, <2>3, <2>4
  <1>2. CASE Written
    <2> USE <1>2 DEF Written
    <2>1. TypeOK'
      BY SizeAssumption DEF TypeOK, SentFirst
    <2>2. SentFirst' /\ Passed'
      BY DEF TypeOK, SentFirst, Passed
    <2>3. Finished'
      BY DEF TypeOK, Passed, Finished, EndMeansAllRead
    <2>4. EndMeansAllRead' /\ EndsOnlyWhenClosed'
      BY <2>1 DEF Finished, Passed, EndMeansAllRead, EndsOnlyWhenClosed
    <2> QED BY <2>1, <2>2, <2>3, <2>4
  <1>3. CASE CloseInput
    <2> USE <1>3 DEF CloseInput, client
    <2>1. TypeOK'
      BY DEF TypeOK
    <2>2. SentFirst' /\ Passed'
      BY DEF TypeOK, SentFirst, Passed
    <2>3. Finished'
      BY DEF TypeOK, Passed, Finished, EndMeansAllRead
    <2>4. EndMeansAllRead' /\ EndsOnlyWhenClosed'
      BY <2>1 DEF Finished, Passed, EndMeansAllRead, EndsOnlyWhenClosed
    <2> QED BY <2>1, <2>2, <2>3, <2>4
  <1> QED BY <1>1, <1>2, <1>3

\* Its output: it was polled before it was found to be read.
LEMMA OutputIInv ==
    ASSUME IInv, Poll \/ ReadPoll \/ ReadTail \/ ReadNothing \/ TimesOut
    PROVE  IInv'
  <1> USE DEF IInv
  <1>1. CASE Poll
    <2> USE <1>1 DEF Poll, PollStatus
    <2>1. TypeOK'
      BY DEF TypeOK
    <2>2. SentFirst' /\ Passed'
      BY DEF TypeOK, SentFirst, Passed
    <2>3. Finished'
      BY DEF TypeOK, Passed, Finished, EndMeansAllRead
    <2>4. EndMeansAllRead' /\ EndsOnlyWhenClosed'
      BY <2>1 DEF Finished, Passed, EndMeansAllRead, EndsOnlyWhenClosed
    <2> QED BY <2>1, <2>2, <2>3, <2>4
  <1>2. CASE ReadPoll
    <2> USE <1>2 DEF ReadPoll, PollStatus
    <2>1. TypeOK'
      BY DEF TypeOK
    <2>2. SentFirst' /\ Passed'
      BY DEF TypeOK, SentFirst, Passed
    <2>3. Finished'
      BY DEF TypeOK, Passed, Finished, EndMeansAllRead
    <2>4. EndMeansAllRead' /\ EndsOnlyWhenClosed'
      BY <2>1 DEF Finished, Passed, EndMeansAllRead, EndsOnlyWhenClosed
    <2> QED BY <2>1, <2>2, <2>3, <2>4
  <1>3. CASE ReadTail
    <2> USE <1>3 DEF ReadTail, SizeRead, machine
    <2>1. TypeOK'
      BY DEF TypeOK
    <2>2. SentFirst' /\ Passed'
      BY DEF TypeOK, SentFirst, Passed
    <2>3. Finished'
      BY DEF TypeOK, Passed, Finished, EndMeansAllRead
    <2>4. EndMeansAllRead' /\ EndsOnlyWhenClosed'
      BY <2>1 DEF Finished, Passed, EndMeansAllRead, EndsOnlyWhenClosed
    <2> QED BY <2>1, <2>2, <2>3, <2>4
  <1>4. CASE ReadNothing
    <2> USE <1>4 DEF ReadNothing, FinishedBefore, machine
    <2>1. TypeOK'
      BY DEF TypeOK
    <2>2. SentFirst' /\ Passed'
      BY DEF TypeOK, SentFirst, Passed
    <2>3. Finished'
      BY DEF TypeOK, Passed, Finished, EndMeansAllRead
    <2>4. EndMeansAllRead' /\ EndsOnlyWhenClosed'
      BY <2>1 DEF Finished, Passed, EndMeansAllRead, EndsOnlyWhenClosed
    <2> QED BY <2>1, <2>2, <2>3, <2>4
  <1>5. CASE TimesOut
    <2> USE <1>5 DEF TimesOut, machine
    <2>1. TypeOK'
      BY DEF TypeOK
    <2>2. SentFirst' /\ Passed'
      BY DEF TypeOK, SentFirst, Passed
    <2>3. Finished'
      BY DEF TypeOK, Passed, Finished, EndMeansAllRead
    <2>4. EndMeansAllRead' /\ EndsOnlyWhenClosed'
      BY <2>1 DEF Finished, Passed, EndMeansAllRead, EndsOnlyWhenClosed
    <2> QED BY <2>1, <2>2, <2>3, <2>4
  <1> QED BY <1>1, <1>2, <1>3, <1>4, <1>5

\* AsyncCommandStream.close.
LEMMA CloseIInv ==
    ASSUME IInv, CloseStream \/ Kill \/ Await
    PROVE  IInv'
  <1> USE DEF IInv
  <1>1. CASE CloseStream
    <2> USE <1>1 DEF CloseStream
    <2>1. TypeOK'
      BY DEF TypeOK
    <2>2. SentFirst' /\ Passed'
      BY DEF TypeOK, SentFirst, Passed
    <2>3. Finished'
      BY DEF TypeOK, Passed, Finished, EndMeansAllRead
    <2>4. EndMeansAllRead' /\ EndsOnlyWhenClosed'
      BY <2>1 DEF Finished, Passed, EndMeansAllRead, EndsOnlyWhenClosed
    <2> QED BY <2>1, <2>2, <2>3, <2>4
  <1>2. CASE Kill
    <2> USE <1>2 DEF Kill
    <2>1. TypeOK'
      BY DEF TypeOK
    <2>2. SentFirst' /\ Passed'
      BY DEF TypeOK, SentFirst, Passed
    <2>3. Finished'
      BY DEF TypeOK, Passed, Finished, EndMeansAllRead
    <2>4. EndMeansAllRead' /\ EndsOnlyWhenClosed'
      BY <2>1 DEF Finished, Passed, EndMeansAllRead, EndsOnlyWhenClosed
    <2> QED BY <2>1, <2>2, <2>3, <2>4
  <1>3. CASE Await
    <2> USE <1>3 DEF Await, machine
    <2>1. TypeOK'
      BY DEF TypeOK
    <2>2. SentFirst' /\ Passed'
      BY DEF TypeOK, SentFirst, Passed
    <2>3. Finished'
      BY DEF TypeOK, Passed, Finished, EndMeansAllRead
    <2>4. EndMeansAllRead' /\ EndsOnlyWhenClosed'
      BY <2>1 DEF Finished, Passed, EndMeansAllRead, EndsOnlyWhenClosed
    <2> QED BY <2>1, <2>2, <2>3, <2>4
  <1> QED BY <1>1, <1>2, <1>3

\* What runs on the machine: the command, which is all that writes, is gone when
\* it's reaped.
LEMMA MachineIInv ==
    ASSUME IInv, WaiterStep \/ CommandStep \/ HolderStep \/ CommandExits \/ Reap \/ WriteStatus
                 \/ CommandWrites
    PROVE  IInv'
  <1> USE DEF IInv
  <1>1. CASE WaiterStep
    <2> USE <1>1 DEF WaiterStep, client
    <2>1. TypeOK'
      BY DEF TypeOK
    <2>2. SentFirst' /\ Passed'
      BY DEF TypeOK, SentFirst, Passed
    <2>3. Finished'
      BY DEF TypeOK, Passed, Finished, EndMeansAllRead
    <2>4. EndMeansAllRead' /\ EndsOnlyWhenClosed'
      BY <2>1 DEF Finished, Passed, EndMeansAllRead, EndsOnlyWhenClosed
    <2> QED BY <2>1, <2>2, <2>3, <2>4
  <1>2. CASE CommandStep
    <2> USE <1>2 DEF CommandStep, client
    <2>1. TypeOK'
      BY DEF TypeOK
    <2>2. SentFirst' /\ Passed'
      BY DEF TypeOK, SentFirst, Passed
    <2>3. Finished'
      BY DEF TypeOK, Passed, Finished, EndMeansAllRead
    <2>4. EndMeansAllRead' /\ EndsOnlyWhenClosed'
      BY <2>1 DEF Finished, Passed, EndMeansAllRead, EndsOnlyWhenClosed
    <2> QED BY <2>1, <2>2, <2>3, <2>4
  <1>3. CASE HolderStep
    <2> USE <1>3 DEF HolderStep, client
    <2>1. TypeOK'
      BY DEF TypeOK
    <2>2. SentFirst' /\ Passed'
      BY DEF TypeOK, SentFirst, Passed
    <2>3. Finished'
      BY DEF TypeOK, Passed, Finished, EndMeansAllRead
    <2>4. EndMeansAllRead' /\ EndsOnlyWhenClosed'
      BY <2>1 DEF Finished, Passed, EndMeansAllRead, EndsOnlyWhenClosed
    <2> QED BY <2>1, <2>2, <2>3, <2>4
  <1>4. CASE CommandExits
    <2> USE <1>4 DEF CommandExits, client
    <2>1. TypeOK'
      BY DEF TypeOK
    <2>2. SentFirst' /\ Passed'
      BY DEF TypeOK, SentFirst, Passed
    <2>3. Finished'
      BY DEF TypeOK, Passed, Finished, EndMeansAllRead
    <2>4. EndMeansAllRead' /\ EndsOnlyWhenClosed'
      BY <2>1 DEF Finished, Passed, EndMeansAllRead, EndsOnlyWhenClosed
    <2> QED BY <2>1, <2>2, <2>3, <2>4
  <1>5. CASE Reap
    <2> USE <1>5 DEF Reap, client
    <2>1. TypeOK'
      BY DEF TypeOK
    <2>2. SentFirst' /\ Passed'
      BY DEF TypeOK, SentFirst, Passed
    <2>3. Finished'
      BY DEF TypeOK, Passed, Finished, EndMeansAllRead
    <2>4. EndMeansAllRead' /\ EndsOnlyWhenClosed'
      BY <2>1 DEF Finished, Passed, EndMeansAllRead, EndsOnlyWhenClosed
    <2> QED BY <2>1, <2>2, <2>3, <2>4
  <1>6. CASE WriteStatus
    <2> USE <1>6 DEF WriteStatus, client
    <2>1. TypeOK'
      BY DEF TypeOK
    <2>2. SentFirst' /\ Passed'
      BY DEF TypeOK, SentFirst, Passed
    <2>3. Finished'
      BY DEF TypeOK, Passed, Finished, EndMeansAllRead
    <2>4. EndMeansAllRead' /\ EndsOnlyWhenClosed'
      BY <2>1 DEF Finished, Passed, EndMeansAllRead, EndsOnlyWhenClosed
    <2> QED BY <2>1, <2>2, <2>3, <2>4
  <1>7. CASE CommandWrites
    <2> USE <1>7 DEF CommandWrites, client
    <2>1. TypeOK'
      BY SizeAssumption DEF TypeOK
    <2>2. SentFirst' /\ Passed'
      BY DEF TypeOK, SentFirst, Passed
    <2>3. Finished'
      BY DEF TypeOK, Passed, Finished, EndMeansAllRead
    <2>4. EndMeansAllRead' /\ EndsOnlyWhenClosed'
      BY <2>1 DEF Finished, Passed, EndMeansAllRead, EndsOnlyWhenClosed
    <2> QED BY <2>1, <2>2, <2>3, <2>4
  <1> QED BY <1>1, <1>2, <1>3, <1>4, <1>5, <1>6, <1>7

\* Where the command sees its input end nobody has the FIFO open, so the holder, which
\* was there before the shell closed it, is gone.
LEMMA ReadsIInv ==
    ASSUME IInv, CommandReads
    PROVE  IInv'
  <1> USE DEF IInv, CommandReads, client
  <1>1. TypeOK'
    <2>1. fifo' \in 0 .. Input
      BY SizeAssumption DEF TypeOK
    <2>2. sawEnd' \in BOOLEAN
      BY Zenon DEF TypeOK
    <2>3. /\ how' = how /\ readsAll' = readsAll /\ pc' = pc /\ sent' = sent
          /\ offset' = offset /\ finished' = finished /\ eof' = eof
          /\ exitCode' = exitCode /\ waiter' = waiter /\ command' = command
          /\ holder' = holder /\ shellEnds' = shellEnds /\ written' = written
          /\ status' = status
      OBVIOUS
    <2> QED BY <2>1, <2>2, <2>3, Zenon DEF TypeOK
  <1>2. SentFirst' /\ Passed' /\ Finished'
    BY SizeAssumption DEF TypeOK, SentFirst, Passed, Finished
  <1>3. EndMeansAllRead'
    BY <1>1 DEF EndMeansAllRead
  <1>4. EndsOnlyWhenClosed'
    <2>1. CASE sawEnd' = sawEnd
      BY <2>1 DEF EndsOnlyWhenClosed
    <2>2. CASE ~HasWriter
      BY <2>2 DEF TypeOK, Passed, HasWriter, Held, EndsOnlyWhenClosed
    <2> QED BY <2>1, <2>2
  <1> QED BY <1>1, <1>2, <1>3, <1>4

LEMMA NextIInv == IInv /\ [Next]_vars => IInv'
  <1> SUFFICES ASSUME IInv, [Next]_vars PROVE IInv'
    OBVIOUS
  <1>1. CASE UNCHANGED vars
    BY <1>1
    DEF vars, IInv, TypeOK, SentFirst, Passed, Finished, EndMeansAllRead, EndsOnlyWhenClosed
  <1> QED
    BY <1>1, StartIInv, InputIInv, OutputIInv, CloseIInv, MachineIInv, ReadsIInv
    DEF Next, Call, Caller, Machine

-----------------------------------------------------------------------------
\* UnixOutputStream.read (unix.py:243-257) raises EOFError only when all that the command
\* wrote was read, however much it is and whenever it was written.
THEOREM AllIsRead == Spec => []EndMeansAllRead
  <1>1. IInv => EndMeansAllRead
    BY DEF IInv
  <1> QED BY <1>1, InitIInv, NextIInv, PTL DEF Spec

\* The command's input ends only when UnixInputStream.close (unix.py:227-231), or poll(),
\* killed its holder, in whichever order the shell, the waiter, the command and the holder
\* go on (unix.py:144-166, 207-212).
THEOREM InputEndsWhenClosed == Spec => []EndsOnlyWhenClosed
  <1>1. IInv => EndsOnlyWhenClosed
    BY DEF IInv
  <1> QED BY <1>1, InitIInv, NextIInv, PTL DEF Spec
=============================================================================
