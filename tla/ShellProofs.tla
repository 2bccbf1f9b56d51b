---------------------------- MODULE ShellProofs ----------------------------
(***************************************************************************)
(* What holds of Shell for every number of commands, whichever of them end *)
(* or ignore interrupts, and every number of attempts to attach.           *)
(***************************************************************************)
EXTENDS Shell, SequenceTheorems, FiniteSetTheorems, WellFoundedInduction, TLAPS

\* What was typed and not read by the shell, and what was written since the client
\* last typed: the one is turned into the other.
Typed == tty \o wire
Stream == buf \o out

Holds(s, lines) == \A i \in DOMAIN s : s[i] \in lines
OneExit(s) == \A i, j \in DOMAIN s : IsExit(s[i]) /\ IsExit(s[j]) => i = j

Attaching == {"attach", "settle", "mark", "setup", "settled"}
Working == {"run", "recover", "quiet"}

\* A marker comes from a shell, so that the client is past it only if there is one.
Started ==
    /\ pc \in Working \cup {"setup", "settled", "idle", "hangup"} => phase = "shell"
    /\ phase = "starting" =>
           ~HasExit(out) /\ (pc = "mark" => ~HasExit(buf)) /\ running = None /\ ~setup

\* Until create() is done, only it has typed.
Probing ==
    /\ pc \in Attaching \cup {"off", "reconnect", "raised"} => cmd = Probe
    /\ cmd = Probe /\ pc \notin {"hangup", "closed"} =>
           /\ ~lost
           /\ running \in {None, Probe}
           /\ Holds(tty, {Mark, Setup, Cmd(Probe)})
           /\ Holds(wire, {Mark, Setup, Cmd(Probe), CtrlC})

\* An attempt on a shell that is there: what it types is read, and answered once.
Calm ==
    calm =>
        /\ pc \notin {"off", "reconnect", "attach", "raised"}
        /\ cmd = Probe => pc \notin {"recover", "quiet"}
        /\ pc \in Attaching \/ (pc = "run" /\ cmd = Probe) => phase = "shell" /\ conn = "open"
        /\ pc = "mark" =>
               /\ running = None
               /\ \/ Typed = <<Mark>> /\ ~HasExit(Stream)
                  \/ Typed = <<>> /\ HasExit(Stream) /\ OneExit(Stream)
        /\ pc = "setup" =>
               /\ running = None
               /\ \/ Typed = <<Setup>> /\ ~HasExit(Stream)
                  \/ Typed = <<>> /\ HasExit(Stream) /\ setup
        /\ pc = "settled" \/ (pc = "run" /\ cmd = Probe) => setup

\* A command, on its way through a shell that is set up.
Stage(c) ==
    \/ Typed = <<Cmd(c), Mark>> /\ running = None /\ Stream = <<>>
    \/ Typed = <<Mark>> /\ running = c /\ ~wrote /\ Stream = <<>>
    \/ Typed = <<Mark>> /\ running = c /\ wrote /\ Stream = <<Out(c)>>
    \/ Typed = <<Mark>> /\ running = None /\ last = c /\ Stream = <<Out(c)>>
    \/ Typed = <<>> /\ running = None /\ Stream = <<Out(c), Exit(c)>>

\* The probe, at a shell that isn't: it is echoed before anything else.
Echoed ==
    /\ Holds(tty, {Mark, Cmd(Probe)}) /\ Holds(wire, {Mark, Cmd(Probe)})
    /\ \/ wire = <<Cmd(Probe), Mark>> /\ tty = <<>> /\ running = None /\ Stream = <<>>
       \/ Stream # <<>> /\ Stream[1] = Noise

Runs ==
    pc = "run" /\ ~lost =>
        /\ setup => Stage(cmd)
        /\ ~setup => cmd = Probe /\ Echoed

Idle ==
    pc = "idle" /\ ~lost =>
        setup /\ wire = <<>> /\ tty = <<>> /\ out = <<>> /\ running = None

\* Once the interrupt arrives only markers are left, and at most a command that ignores it.
Recovers ==
    pc \in {"recover", "quiet"} /\ ~lost /\ cmd # Probe =>
        /\ setup
        /\ running \in {None, cmd}
        /\ Holds(tty, {Cmd(cmd), Mark}) /\ Holds(wire, {Cmd(cmd), Mark, CtrlC})
        /\ \A i, j \in DOMAIN wire : i < j /\ wire[i] = CtrlC => wire[j] = Mark
        /\ CtrlC \notin ToSet(wire) =>
               /\ Holds(tty, {Mark}) /\ Holds(wire, {Mark})
               /\ running \in Obstinate \cup {None}

\* What became of each call.
Answered ==
    \A c \in 1 .. Commands :
        /\ c > cmd \/ (c = cmd /\ pc \in Working) => results[c] = Unanswered
        /\ ~lost /\ (c < cmd \/ (c = cmd /\ pc \notin Working)) => results[c] \in {Answer(c), TimedOut}

LastIgnores == \A c \in Obstinate : c = Commands

LostLast == LastIgnores /\ lost => cmd = Commands /\ pc \in {"idle", "hangup", "closed"}

IInv ==
    /\ TypeOK /\ Started /\ Probing /\ Calm /\ Runs /\ Idle /\ Recovers
    /\ Answered /\ LostLast

-----------------------------------------------------------------------------
\* Lines and tokens are what they look like.
LEMMA Lines ==
    /\ \A c \in Command : Cmd(c) \in Line \ {CtrlC} /\ Cmd(c) \notin {Mark, Setup, CtrlC, HangUp}
                          /\ Cmd(c)[1] = "cmd" /\ Cmd(c)[2] = c
    /\ {Mark, Setup, HangUp} \subseteq Line \ {CtrlC} /\ CtrlC \in Line
    /\ \A line \in {Mark, Setup, HangUp} : line[1] # "cmd"
    /\ Mark # Setup /\ Mark # HangUp /\ Setup # HangUp
    /\ CtrlC \notin {Mark, Setup, HangUp}
  BY SMTT(30) DEF Line, Mark, Setup, HangUp, CtrlC, Cmd

LEMMA Tokens ==
    /\ {Noise, HungUp} \subseteq Token /\ Noise # HungUp
    /\ \A c \in Command : {Out(c), Exit(c)} \subseteq Token /\ Out(c) # Exit(c)
    /\ \A c \in Command : Noise \notin {Out(c), Exit(c)} /\ HungUp \notin {Out(c), Exit(c)}
    /\ ~IsExit(Noise) /\ ~IsExit(HungUp)
    /\ \A c \in Command : ~IsExit(Out(c)) /\ IsExit(Exit(c)) /\ Exit(c)[2] = c
    /\ \A t \in Token : IsExit(t) => t[2] \in Command
  BY SMTT(30) DEF Token, Noise, HungUp, Out, Exit, IsExit

LEMMA CommandFacts ==
    /\ Command \subseteq Int /\ Probe \in Command /\ None \notin Command
    /\ Commands \in Nat /\ Obstinate \subseteq 1 .. Commands /\ Endless \subseteq 1 .. Commands
    /\ \A c \in Command : c # Probe <=> c \in 1 .. Commands
  BY CommandsAssumption DEF Command, Probe, None

\* What is read or written moves from one sequence to the next.
LEMMA Moved ==
    ASSUME NEW S, NEW s \in Seq(S), NEW t \in Seq(S), t # <<>>
    PROVE  Append(s, Head(t)) \o Tail(t) = s \o t
  <1>1. /\ Head(t) \in S /\ Tail(t) \in Seq(S)
        /\ Len(t) \in Nat \ {0} /\ Len(Tail(t)) = Len(t) - 1 /\ Head(t) = t[1]
        /\ \A i \in 1 .. Len(Tail(t)) : Tail(t)[i] = t[i + 1]
    BY HeadTailProperties, EmptySeq
  <1>2. /\ Append(s, Head(t)) \in Seq(S) /\ Len(Append(s, Head(t))) = Len(s) + 1
        /\ Len(s) \in Nat
        /\ \A i \in 1 .. Len(s) : Append(s, Head(t))[i] = s[i]
        /\ Append(s, Head(t))[Len(s) + 1] = t[1]
    BY <1>1, AppendProperties, LenProperties
  <1> DEFINE a == Append(s, Head(t)) \o Tail(t)
             b == s \o t
  <1>3. /\ a \in Seq(S) /\ Len(a) = Len(s) + Len(t)
        /\ \A i \in 1 .. Len(s) + Len(t) :
              a[i] = IF i <= Len(s) + 1 THEN Append(s, Head(t))[i] ELSE Tail(t)[i - (Len(s) + 1)]
    BY <1>1, <1>2, ConcatProperties
  <1>4. /\ b \in Seq(S) /\ Len(b) = Len(s) + Len(t)
        /\ \A i \in 1 .. Len(s) + Len(t) : b[i] = IF i <= Len(s) THEN s[i] ELSE t[i - Len(s)]
    BY ConcatProperties
  <1> HIDE DEF a, b
  <1>5. ASSUME NEW i \in 1 .. Len(s) + Len(t) PROVE a[i] = b[i]
    <2>1. CASE i <= Len(s)
      BY <2>1, <1>2, <1>3, <1>4
    <2>2. CASE i = Len(s) + 1
      BY <2>2, <1>1, <1>2, <1>3, <1>4
    <2>3. CASE i > Len(s) + 1
      <3>1. a[i] = Tail(t)[i - (Len(s) + 1)] /\ i - (Len(s) + 1) \in 1 .. Len(Tail(t))
        BY <2>3, <1>1, <1>2, <1>3
      <3>2. a[i] = t[(i - (Len(s) + 1)) + 1] /\ (i - (Len(s) + 1)) + 1 = i - Len(s)
        BY <3>1, <1>1, <1>2
      <3> QED BY <2>3, <3>2, <1>2, <1>4
    <2> QED BY <2>1, <2>2, <2>3, <1>1, <1>2
  <1> QED BY <1>3, <1>4, <1>5, SeqEqual DEF a, b

LEMMA Taken ==
    ASSUME NEW S, NEW s \in Seq(S), NEW t \in Seq(S), s # <<>>
    PROVE  Head(s \o t) = Head(s) /\ Tail(s) \o t = Tail(s \o t) /\ s \o t # <<>>
  <1>1. /\ Tail(s) \in Seq(S) /\ Len(s) \in Nat \ {0} /\ Len(Tail(s)) = Len(s) - 1
        /\ \A i \in 1 .. Len(Tail(s)) : Tail(s)[i] = s[i + 1]
    BY HeadTailProperties, EmptySeq
  <1>2. /\ s \o t \in Seq(S) /\ Len(s \o t) = Len(s) + Len(t) /\ Len(t) \in Nat
        /\ \A i \in 1 .. Len(s) + Len(t) : (s \o t)[i] = IF i <= Len(s) THEN s[i] ELSE t[i - Len(s)]
    BY ConcatProperties, LenProperties
  <1> DEFINE u == s \o t
  <1>3. s \o t # <<>>
    BY <1>1, <1>2, EmptySeq
  <1>4. /\ Tail(u) \in Seq(S) /\ Len(Tail(u)) = Len(s) + Len(t) - 1
        /\ \A i \in 1 .. Len(Tail(u)) : Tail(u)[i] = u[i + 1]
    BY <1>2, <1>3, HeadTailProperties
  <1>5. /\ Tail(s) \o t \in Seq(S) /\ Len(Tail(s) \o t) = Len(s) - 1 + Len(t)
        /\ \A i \in 1 .. Len(s) - 1 + Len(t) :
              (Tail(s) \o t)[i] = IF i <= Len(s) - 1 THEN Tail(s)[i] ELSE t[i - (Len(s) - 1)]
    BY <1>1, ConcatProperties
  <1>6. \A i \in 1 .. Len(s) - 1 + Len(t) : (Tail(s) \o t)[i] = Tail(u)[i]
    BY <1>1, <1>2, <1>4, <1>5
  <1>7. Tail(s) \o t = Tail(u)
    BY <1>1, <1>2, <1>4, <1>5, <1>6, SeqEqual
  <1>8. Head(u) = Head(s)
    BY <1>1, <1>2, <1>3
  <1> QED BY <1>3, <1>7, <1>8

LEMMA Split ==
    ASSUME NEW s \in Seq(Token), NEW t \in Seq(Token), NEW n \in 1 .. Len(t)
    PROVE  /\ SubSeq(t, 1, n) \in Seq(Token) /\ SubSeq(t, n + 1, Len(t)) \in Seq(Token)
           /\ (s \o SubSeq(t, 1, n)) \o SubSeq(t, n + 1, Len(t)) = s \o t
  <1>1. Len(t) \in Nat /\ n \in Int /\ \A i \in 1 .. Len(t) : t[i] \in Token
    BY LenProperties, ElementOfSeq
  <1>2. SubSeq(t, 1, n) \in Seq(Token) /\ SubSeq(t, n + 1, Len(t)) \in Seq(Token)
    BY <1>1, SubSeqProperties
  <1>3. SubSeq(t, 1, n) \o SubSeq(t, n + 1, Len(t)) = t
    BY <1>1, ConcatAdjacentSubSeq, SubSeqFull
  <1> DEFINE a == SubSeq(t, 1, n)
             b == SubSeq(t, n + 1, Len(t))
  <1>4. a \in Seq(Token) /\ b \in Seq(Token)
    BY <1>2
  <1> HIDE DEF a, b
  <1>5. ASSUME NEW u \in Seq(Token), NEW v \in Seq(Token) PROVE (s \o u) \o v = s \o (u \o v)
    BY ConcatAssociative, SMTT(30)
  <1>6. (s \o a) \o b = s \o (a \o b)
    BY <1>4, <1>5
  <1> QED BY <1>2, <1>3, <1>6 DEF a, b

LEMMA Wrote ==
    ASSUME NEW S, NEW s \in Seq(S), NEW t \in Seq(S), NEW x \in S
    PROVE  s \o Append(t, x) = Append(s \o t, x)
  <1>1. <<x>> \in Seq(S)
    OBVIOUS
  <1>2. s \o t \in Seq(S)
    BY ConcatProperties
  <1> QED BY <1>1, <1>2, AppendIsConcat, ConcatAssociative

LEMMA ShortSeqs ==
    ASSUME NEW S, NEW x \in S, NEW y \in S
    PROVE  /\ <<>> \in Seq(S) /\ <<x>> \in Seq(S) /\ <<x, y>> \in Seq(S)
           /\ Len(<<x>>) = 1 /\ Len(<<x, y>>) = 2 /\ Len(<<>>) = 0
           /\ Head(<<x>>) = x /\ Tail(<<x>>) = <<>>
           /\ Head(<<x, y>>) = x /\ Tail(<<x, y>>) = <<y>>
           /\ Append(<<>>, x) = <<x>> /\ Append(<<x>>, y) = <<x, y>>
  <1>1. /\ <<>> \in Seq(S) /\ <<x>> \in Seq(S) /\ <<x, y>> \in Seq(S)
        /\ Len(<<x>>) = 1 /\ Len(<<x, y>>) = 2 /\ Len(<<>>) = 0
    OBVIOUS
  <1>2. Head(<<x>>) = x /\ Head(<<x, y>>) = x
    OBVIOUS
  <1>3. Tail(<<x>>) = <<>>
    BY <1>1, HeadTailProperties, EmptySeq
  <1>4. Tail(<<x, y>>) = <<y>>
    <2>1. Tail(<<x, y>>) \in Seq(S) /\ Len(Tail(<<x, y>>)) = 1 /\ Tail(<<x, y>>)[1] = y
      BY <1>1, HeadTailProperties
    <2> QED BY <2>1, <1>1, SeqEqual
  <1>5. Append(<<>>, x) = <<x>>
    OBVIOUS
  <1>6. Append(<<x>>, y) = <<x, y>>
    <2>1. /\ Append(<<x>>, y) \in Seq(S) /\ Len(Append(<<x>>, y)) = 2
          /\ Append(<<x>>, y)[1] = x /\ Append(<<x>>, y)[2] = y
      BY <1>1, AppendProperties
    <2> DEFINE a == Append(<<x>>, y)
               b == <<x, y>>
    <2>2. b \in Seq(S) /\ Len(b) = 2 /\ b[1] = x /\ b[2] = y
      BY <1>1
    <2> HIDE DEF a, b
    <2>3. a \in Seq(S) /\ Len(a) = 2 /\ a[1] = x /\ a[2] = y
      BY <2>1 DEF a
    <2>4. a = b
      BY <2>2, <2>3, SeqEqual
    <2> QED BY <2>4 DEF a, b
  <1> QED BY <1>1, <1>2, <1>3, <1>4, <1>5, <1>6

\* What holds of the elements of sequences holds of what is made of them.
LEMMA HoldsConcat ==
    ASSUME NEW S, NEW s \in Seq(S), NEW t \in Seq(S), NEW L
    PROVE  Holds(s \o t, L) <=> Holds(s, L) /\ Holds(t, L)
  <1>1. /\ Len(s) \in Nat /\ Len(t) \in Nat
        /\ DOMAIN s = 1 .. Len(s) /\ DOMAIN t = 1 .. Len(t)
        /\ DOMAIN (s \o t) = 1 .. Len(s) + Len(t)
        /\ \A i \in 1 .. Len(s) + Len(t) : (s \o t)[i] = IF i <= Len(s) THEN s[i] ELSE t[i - Len(s)]
    BY ConcatProperties, LenProperties
  <1>2. ASSUME Holds(s, L), Holds(t, L), NEW i \in DOMAIN (s \o t) PROVE (s \o t)[i] \in L
    <2>1. CASE i <= Len(s)
      BY <2>1, <1>1, <1>2 DEF Holds
    <2>2. CASE i > Len(s)
      BY <2>2, <1>1, <1>2 DEF Holds
    <2> QED BY <2>1, <2>2, <1>1
  <1>3. ASSUME Holds(s \o t, L), NEW i \in DOMAIN s PROVE s[i] \in L
    BY <1>1, <1>3 DEF Holds
  <1>4. ASSUME Holds(s \o t, L), NEW i \in DOMAIN t PROVE t[i] \in L
    <2>1. i + Len(s) \in 1 .. Len(s) + Len(t) /\ ~(i + Len(s) <= Len(s)) /\ (i + Len(s)) - Len(s) = i
      BY <1>1
    <2> QED BY <2>1, <1>1, <1>4 DEF Holds
  <1> QED BY <1>2, <1>3, <1>4 DEF Holds

LEMMA HoldsTail ==
    ASSUME NEW S, NEW s \in Seq(S), s # <<>>, NEW L, Holds(s, L)
    PROVE  Head(s) \in L /\ Holds(Tail(s), L)
  <1>1. /\ Len(s) \in Nat \ {0} /\ DOMAIN s = 1 .. Len(s) /\ Head(s) = s[1]
        /\ DOMAIN Tail(s) = 1 .. Len(s) - 1
        /\ \A i \in 1 .. Len(s) - 1 : Tail(s)[i] = s[i + 1]
    BY HeadTailProperties, LenProperties, EmptySeq
  <1> QED BY <1>1 DEF Holds

LEMMA HoldsAppend ==
    ASSUME NEW S, NEW s \in Seq(S), NEW x \in S, NEW L
    PROVE  Holds(Append(s, x), L) <=> Holds(s, L) /\ x \in L
  <1>1. /\ Len(s) \in Nat /\ DOMAIN s = 1 .. Len(s) /\ DOMAIN Append(s, x) = 1 .. Len(s) + 1
        /\ \A i \in 1 .. Len(s) : Append(s, x)[i] = s[i]
        /\ Append(s, x)[Len(s) + 1] = x
    BY AppendProperties, LenProperties
  <1> QED BY <1>1 DEF Holds

LEMMA HoldsShort ==
    ASSUME NEW x, NEW y, NEW L
    PROVE  /\ Holds(<<>>, L) /\ (Holds(<<x>>, L) <=> x \in L)
           /\ Holds(<<x, y>>, L) <=> x \in L /\ y \in L
  BY DEF Holds

LEMMA ExitConcat ==
    ASSUME NEW s \in Seq(Token), NEW t \in Seq(Token)
    PROVE  HasExit(s \o t) <=> HasExit(s) \/ HasExit(t)
  <1> DEFINE L == {x \in Token : ~IsExit(x)}
  <1>1. \A u \in Seq(Token) : HasExit(u) <=> ~Holds(u, L)
    BY ElementOfSeq, LenProperties DEF HasExit, Holds
  <1>2. s \o t \in Seq(Token)
    BY ConcatProperties
  <1>3. Holds(s \o t, L) <=> Holds(s, L) /\ Holds(t, L)
    BY HoldsConcat
  <1> QED BY <1>1, <1>2, <1>3

LEMMA ExitShort ==
    ASSUME NEW x, NEW y
    PROVE  /\ ~HasExit(<<>>) /\ (HasExit(<<x>>) <=> IsExit(x))
           /\ HasExit(<<x, y>>) <=> IsExit(x) \/ IsExit(y)
  BY DEF HasExit

LEMMA ExitTail ==
    ASSUME NEW s \in Seq(Token), NEW n \in 1 .. Len(s), ~HasExit(s)
    PROVE  ~HasExit(SubSeq(s, 1, n)) /\ ~HasExit(SubSeq(s, n + 1, Len(s)))
  <1> DEFINE a == SubSeq(s, 1, n)
             b == SubSeq(s, n + 1, Len(s))
  <1>1. Len(s) \in Nat /\ \A i \in 1 .. Len(s) : s[i] \in Token
    BY LenProperties, ElementOfSeq
  <1>2. a \in Seq(Token) /\ b \in Seq(Token)
    BY <1>1, SubSeqProperties
  <1>3. a \o b = s
    BY <1>1, ConcatAdjacentSubSeq, SubSeqFull
  <1> HIDE DEF a, b
  <1>4. ~HasExit(a) /\ ~HasExit(b)
    BY <1>2, <1>3, ExitConcat
  <1> QED BY <1>4 DEF a, b

LEMMA MarksLeft ==
    ASSUME NEW s \in Seq(Line)
    PROVE  MarksOf(s) \in Seq(Line \ {CtrlC}) /\ Holds(MarksOf(s), {Mark})
  <1> DEFINE n == Cardinality({i \in DOMAIN s : s[i] = Mark})
  <1>1. n \in Nat
    <2>1. IsFiniteSet(1 .. Len(s))
      BY FS_Interval, LenProperties
    <2>2. {i \in DOMAIN s : s[i] = Mark} \subseteq 1 .. Len(s)
      BY LenProperties
    <2> QED BY <2>1, <2>2, FS_Subset, FS_CardinalityType
  <1>2. MarksOf(s) \in [1 .. n -> Line \ {CtrlC}]
    BY Lines DEF MarksOf
  <1>3. MarksOf(s) \in Seq(Line \ {CtrlC})
    <2>1. MarksOf(s) \in UNION {[1 .. k -> Line \ {CtrlC}] : k \in Nat}
      <3> HIDE DEF n
      <3> QED BY <1>1, <1>2
    <2> QED BY <2>1, SeqDef, Zenon
  <1> QED BY <1>3 DEF MarksOf, Holds

\* A set of naturals has a smallest one, so that the first of something can be spoken of.
LEMMA Smallest ==
    ASSUME NEW T, T \subseteq Nat, T # {}
    PROVE  \E m \in T : \A n \in T : m <= n
  <1> DEFINE R == OpToRel(<, Nat)
  <1>1. IsWellFoundedOn(R, Nat)
    BY NatLessThanWellFounded
  <1>2. \A x, y \in Nat : <<y, x>> \in R <=> y < x
    BY DEF OpToRel
  <1> HIDE DEF R
  <1>3. PICK m \in T : \A n \in T : ~(<<n, m>> \in R)
    BY <1>1, WFMin
  <1>4. ASSUME NEW n \in T PROVE m <= n
    <2>1. m \in Nat /\ n \in Nat
      OBVIOUS
    <2>2. ~(n < m)
      BY <2>1, <1>2, <1>3
    <2> QED BY <2>1, <2>2
  <1> QED BY <1>3, <1>4

\* What run() makes of what it read.
LEMMA ParseFacts ==
    ASSUME NEW s \in Seq(Token), HasExit(s)
    PROVE  /\ FirstExit(s) \in 1 .. Len(s) /\ IsExit(s[FirstExit(s)])
           /\ \A i \in 1 .. Len(s) : IsExit(s[i]) => FirstExit(s) <= i
           /\ Parse(s) \in Result
           /\ Parse(s).stdout = SubSeq(s, 1, FirstExit(s) - 1)
           /\ Parse(s).status = s[FirstExit(s)][2]
  <1> DEFINE I == {i \in 1 .. Len(s) : IsExit(s[i])}
  <1>1. Len(s) \in Nat /\ DOMAIN s = 1 .. Len(s) /\ \A i \in 1 .. Len(s) : s[i] \in Token
    BY LenProperties, ElementOfSeq
  <1>2. I # {} /\ I \subseteq Nat
    BY <1>1 DEF HasExit
  <1>3. FirstExit(s) = Min(I)
    BY <1>2 DEF FirstExit, SelectInSeq
  <1>4. \E m \in I : \A n \in I : m <= n
    <2> HIDE DEF I
    <2> QED BY <1>2, Smallest
  <1>5. Min(I) \in I /\ \A n \in I : Min(I) <= n
    <2> HIDE DEF I
    <2> QED BY <1>4 DEF Min
  <1>6. /\ FirstExit(s) \in 1 .. Len(s) /\ IsExit(s[FirstExit(s)])
        /\ \A i \in 1 .. Len(s) : IsExit(s[i]) => FirstExit(s) <= i
    BY <1>3, <1>5
  <1>7. SubSeq(s, 1, FirstExit(s) - 1) \in Seq(Token)
    BY <1>1, <1>6, SubSeqProperties
  <1>8. s[FirstExit(s)][2] \in Command
    BY <1>1, <1>6, Tokens
  <1> QED BY <1>6, <1>7, <1>8 DEF Parse, Result

-----------------------------------------------------------------------------
\* Every step keeps the types.
LEMMA TypeKept ==
    ASSUME TypeOK, [Next]_vars
    PROVE  TypeOK'
  <1> USE DEF TypeOK
  <1>1. /\ Echoes \in Seq(Token)
        /\ \A s \in Seq(Token) : s \o Echoes \in Seq(Token)
    BY Tokens, ShortSeqs, ConcatProperties DEF Echoes
  <1>2. \A s \in Seq(Line), t \in Seq(Line) : s \o t \in Seq(Line)
    BY ConcatProperties
  <1>3. \A c \in Command : /\ <<Mark>> \in Seq(Line) /\ <<Setup>> \in Seq(Line)
                           /\ <<HangUp>> \in Seq(Line) /\ <<CtrlC>> \in Seq(Line)
                           /\ <<CtrlC, Mark>> \in Seq(Line) /\ <<Cmd(c), Mark>> \in Seq(Line)
                           /\ <<>> \in Seq(Line) /\ <<>> \in Seq(Token)
                           /\ <<>> \in Seq(Line \ {CtrlC})
    BY Lines, ShortSeqs
  <1>4. Probe \in Command /\ (cmd < Commands => cmd + 1 \in Command)
    BY CommandFacts DEF Command
  <1>5. TimedOut \in Result
    BY Tokens, ShortSeqs DEF TimedOut, Result
  <1>6. \A s \in Seq(Line) : s # <<>> => Head(s) \in Line /\ Tail(s) \in Seq(Line)
    BY HeadTailProperties
  <1>7. \A x \in Token : Append(out, x) \in Seq(Token) /\ <<x>> \in Seq(Token)
    BY AppendProperties, ShortSeqs
  <1>8. ASSUME Arrive PROVE TypeOK'
    <2>1. Head(wire) \in Line \ {CtrlC} /\ wire' \in Seq(Line)
      BY <1>8, <1>6 DEF Arrive
    <2>2. \A x \in Line \ {CtrlC} : Append(tty, x) \in Seq(Line \ {CtrlC})
      BY AppendProperties
    <2>3. tty' \in Seq(Line \ {CtrlC})
      <3>1. tty' = tty \/ tty' = Append(tty, Head(wire)) \/ tty' = Append(tty, Mark)
        BY <1>8 DEF Arrive
      <3>2. Mark \in Line \ {CtrlC}
        BY Lines
      <3> QED BY <2>1, <2>2, <3>1, <3>2
    <2> QED BY <1>8, <1>1, <2>1, <2>3 DEF Arrive, client, shell
  <1>9. ASSUME ArriveInterrupt PROVE TypeOK'
    <2>1. wire' \in Seq(Line)
      BY <1>9, <1>6 DEF ArriveInterrupt
    <2>2. tty \in Seq(Line)
      BY SeqMonotonic
    <2>3. tty' \in Seq(Line \ {CtrlC})
      <3>1. MarksOf(tty) \in Seq(Line \ {CtrlC})
        BY <2>2, MarksLeft
      <3>2. tty' = <<>> \/ tty' = MarksOf(tty)
        BY <1>9 DEF ArriveInterrupt
      <3> QED BY <3>1, <3>2, <1>3, <1>4
    <2>4. running' \in Command \cup {None} /\ last' \in Command
      BY <1>9 DEF ArriveInterrupt
    <2> QED BY <1>9, <1>1, <2>1, <2>3, <2>4 DEF ArriveInterrupt, client, history
  <1>10. ASSUME ReadLine PROVE TypeOK'
    <2>1. Head(tty) \in Line \ {CtrlC} /\ Tail(tty) \in Seq(Line \ {CtrlC})
      BY <1>10, HeadTailProperties DEF ReadLine
    <2>2. \A line \in Line : line[1] = "cmd" => line[2] \in Command
      BY Lines DEF Line, CtrlC
    <2>3. Append(out, Exit(last)) \in Seq(Token) /\ Append(out, HungUp) \in Seq(Token)
          /\ Append(out, Exit(last)) \o Echoes \in Seq(Token)
      BY <1>1, <1>7, Tokens
    <2>4. out' \in Seq(Token)
      BY <1>10, <2>3 DEF ReadLine
    <2>5. running' \in Command \cup {None} /\ setup' \in BOOLEAN /\ wrote' \in BOOLEAN
          /\ conn' \in {"none", "open", "ended"}
      BY <1>10, <2>1, <2>2 DEF ReadLine
    <2> QED BY <1>10, <2>1, <2>4, <2>5 DEF ReadLine, client, history
  <1>11. ASSUME CommandWrites PROVE TypeOK'
    BY <1>11, <1>7, Tokens DEF CommandWrites, client, history
  <1>12. ASSUME CommandEnds PROVE TypeOK'
    BY <1>12, <1>1 DEF CommandEnds, client, history
  <1>13. ASSUME Start PROVE TypeOK'
    BY <1>13, <1>7, Tokens DEF Start, client, history
  <1>14. ASSUME Boot PROVE TypeOK'
    BY <1>14, <1>7, Tokens DEF Boot, client, shell, history
  <1>15. ASSUME Refuse PROVE TypeOK'
    BY <1>15 DEF Refuse, client, shell, history
  <1>16. ASSUME Read PROVE TypeOK'
    <2>1. PICK n \in 1 .. Len(out) : /\ buf' = buf \o SubSeq(out, 1, n)
                                     /\ out' = SubSeq(out, n + 1, Len(out))
      BY <1>16 DEF Read
    <2>2. SubSeq(out, 1, n) \in Seq(Token) /\ SubSeq(out, n + 1, Len(out)) \in Seq(Token)
      BY Split
    <2>3. buf' \in Seq(Token) /\ out' \in Seq(Token)
      BY <2>1, <2>2, ConcatProperties
    <2> QED BY <1>16, <2>3 DEF Read, shell, history
  <1>17. ASSUME Drain PROVE TypeOK'
    BY <1>17, <1>3, <1>4 DEF Drain, client, shell, history
  <1>18. ASSUME Connect PROVE TypeOK'
    BY <1>18, <1>3, <1>4 DEF Connect, history
  <1>19. ASSUME Attach PROVE TypeOK'
    <2>1. wire' \in Seq(Line)
      BY <1>19, <1>2, <1>3, <1>4 DEF Attach, Type
    <2>2. attempts' \in 0 .. MaxAttempts
      BY <1>19, AttemptsAssumption DEF Attach, NotYet
    <2> QED BY <1>19, <1>3, <1>4, <2>1, <2>2 DEF Attach, shell
  <1>20. ASSUME TypeMark PROVE TypeOK'
    BY <1>20, <1>2, <1>3, <1>4 DEF TypeMark, Type, shell, history
  <1>21. ASSUME TypeSetup PROVE TypeOK'
    BY <1>21, <1>2, <1>3, <1>4 DEF TypeSetup, Type, shell, history
  <1>22. ASSUME SetUp PROVE TypeOK'
    BY <1>22 DEF SetUp, shell, history
  <1>23. ASSUME RunProbe PROVE TypeOK'
    BY <1>23, <1>2, <1>3, <1>4 DEF RunProbe, Write, Type, shell, history
  <1>24. ASSUME Probed PROVE TypeOK'
    BY <1>24 DEF Probed, AttachFails, shell, history
  <1>25. ASSUME AttachTimesOut PROVE TypeOK'
    BY <1>25 DEF AttachTimesOut, AttachFails, shell, history
  <1>26. ASSUME Ended PROVE TypeOK'
    BY <1>26 DEF Ended, shell, history
  <1>27. ASSUME Run PROVE TypeOK'
    BY <1>27, <1>2, <1>3, <1>4 DEF Run, Write, Type, shell, history
  <1>28. ASSUME Return PROVE TypeOK'
    BY <1>28, ParseFacts, CommandFacts DEF Return, shell, history
  <1>29. ASSUME Late PROVE TypeOK'
    BY <1>29, <1>2, <1>3, <1>4 DEF Late, Type, shell, history
  <1>30. ASSUME Recovered PROVE TypeOK'
    BY <1>30 DEF Recovered, shell, history
  <1>31. ASSUME RaiseTimeout PROVE TypeOK'
    BY <1>31, <1>5, CommandFacts DEF RaiseTimeout, AttachFails, shell
  <1>32. ASSUME Destroy PROVE TypeOK'
    BY <1>32, <1>2, <1>3, <1>4 DEF Destroy, Type, shell, history
  <1>33. ASSUME Close PROVE TypeOK'
    BY <1>33 DEF Close, shell, history
  <1>34. ASSUME UNCHANGED vars PROVE TypeOK'
    BY <1>34 DEF vars, client, shell, history
  <1> QED
    BY <1>8, <1>9, <1>10, <1>11, <1>12, <1>13, <1>14, <1>15, <1>16, <1>17, <1>18, <1>19,
       <1>20, <1>21, <1>22, <1>23, <1>24, <1>25, <1>26, <1>27, <1>28, <1>29, <1>30, <1>31,
       <1>32, <1>33, <1>34 DEF Next, Client, Terminal, Other

-----------------------------------------------------------------------------
LEMMA NothingAdded ==
    ASSUME NEW S, NEW s \in Seq(S), NEW t \in Seq(S)
    PROVE  /\ <<>> \o t = t /\ s \o <<>> = s
           /\ s \o t = <<>> <=> s = <<>> /\ t = <<>>
  <1>1. <<>> \o t = t /\ s \o <<>> = s
    BY ConcatEmptySeq
  <1>2. /\ s \o t \in Seq(S) /\ Len(s \o t) = Len(s) + Len(t)
        /\ Len(s) \in Nat /\ Len(t) \in Nat
    BY ConcatProperties, LenProperties
  <1>3. s \o t = <<>> <=> s = <<>> /\ t = <<>>
    BY <1>1, <1>2, EmptySeq
  <1> QED BY <1>1, <1>3

LEMMA TypedFacts ==
    ASSUME TypeOK
    PROVE  /\ Typed \in Seq(Line) /\ Stream \in Seq(Token)
           /\ tty \in Seq(Line)
           /\ Typed = <<>> <=> tty = <<>> /\ wire = <<>>
           /\ Stream = <<>> <=> buf = <<>> /\ out = <<>>
           /\ HasExit(Stream) <=> HasExit(buf) \/ HasExit(out)
           /\ \A L : Holds(Typed, L) <=> Holds(tty, L) /\ Holds(wire, L)
  <1>1. tty \in Seq(Line) /\ wire \in Seq(Line) /\ buf \in Seq(Token) /\ out \in Seq(Token)
    BY SeqMonotonic DEF TypeOK
  <1> QED BY <1>1, ConcatProperties, NothingAdded, ExitConcat, HoldsConcat DEF Typed, Stream

LEMMA HoldsMore ==
    ASSUME NEW s, NEW L, NEW K, Holds(s, L), L \subseteq K
    PROVE  Holds(s, K)
  BY DEF Holds

\* Where nothing but certain lines can be, the next one is one of them.
LEMMA NextLine ==
    ASSUME NEW s \in Seq(Line), s # <<>>, NEW L, Holds(s, L)
    PROVE  Head(s) \in L
  BY HoldsTail

LEMMA Echoing ==
    ASSUME NEW s \in Seq(Token)
    PROVE  /\ s \o Echoes \in Seq(Token)
           /\ HasExit(s \o Echoes) <=> HasExit(s)
           /\ OneExit(s) => OneExit(s \o Echoes)
           /\ setup => s \o Echoes = s
           /\ ~setup => s \o Echoes # <<>>
           /\ ~setup /\ s = <<>> => (s \o Echoes)[1] = Noise
           /\ s # <<>> => s \o Echoes # <<>> /\ (s \o Echoes)[1] = s[1]
  <1>1. Noise \in Token /\ ~IsExit(Noise) /\ <<Noise>> \in Seq(Token)
    BY Tokens, ShortSeqs
  <1>2. s \o <<>> = s
    BY NothingAdded
  <1>3. s \o <<Noise>> = Append(s, Noise)
    BY <1>1, AppendIsConcat
  <1>4. /\ Len(s) \in Nat /\ DOMAIN s = 1 .. Len(s)
        /\ Append(s, Noise) \in Seq(Token)
        /\ DOMAIN Append(s, Noise) = 1 .. Len(s) + 1 /\ Append(s, Noise) # <<>>
        /\ \A i \in 1 .. Len(s) : Append(s, Noise)[i] = s[i]
        /\ Append(s, Noise)[Len(s) + 1] = Noise
    BY <1>1, AppendProperties, LenProperties
  <1>5. HasExit(Append(s, Noise)) <=> HasExit(s)
    BY <1>1, <1>4 DEF HasExit
  <1>6. OneExit(s) => OneExit(Append(s, Noise))
    BY <1>1, <1>4 DEF OneExit
  <1>7. s # <<>> => Append(s, Noise)[1] = s[1]
    BY <1>4, EmptySeq
  <1>8. s = <<>> => Append(s, Noise)[1] = Noise
    BY <1>4, EmptySeq
  <1> QED BY <1>2, <1>3, <1>4, <1>5, <1>6, <1>7, <1>8 DEF Echoes

\* What is written reaches the end of the stream.
LEMMA Written ==
    ASSUME TypeOK, NEW x \in Token
    PROVE  /\ Append(out, x) \in Seq(Token)
           /\ buf \o Append(out, x) = Append(Stream, x)
           /\ buf \o (out \o Echoes) = Stream \o Echoes
           /\ buf \o (Append(out, x) \o Echoes) = Append(Stream, x) \o Echoes
  <1>1. /\ buf \in Seq(Token) /\ out \in Seq(Token) /\ Echoes \in Seq(Token)
        /\ Append(out, x) \in Seq(Token)
    BY Tokens, ShortSeqs, AppendProperties DEF TypeOK, Echoes
  <1>2. buf \o Append(out, x) = Append(Stream, x)
    BY <1>1, Wrote DEF Stream
  <1>3. ASSUME NEW s \in Seq(Token), NEW t \in Seq(Token), NEW u \in Seq(Token)
        PROVE  s \o (t \o u) = (s \o t) \o u
    BY ConcatAssociative, SMTT(30)
  <1>4. buf \o (out \o Echoes) = (buf \o out) \o Echoes
    BY <1>1, <1>3
  <1>5. buf \o (Append(out, x) \o Echoes) = (buf \o Append(out, x)) \o Echoes
    BY <1>1, <1>3
  <1> QED BY <1>1, <1>2, <1>4, <1>5 DEF Stream

LEMMA AppendFacts ==
    ASSUME NEW s \in Seq(Token), NEW x \in Token
    PROVE  /\ Append(s, x) \in Seq(Token) /\ Append(s, x) # <<>>
           /\ HasExit(Append(s, x)) <=> HasExit(s) \/ IsExit(x)
           /\ ~HasExit(s) => OneExit(Append(s, x))
           /\ s # <<>> => Append(s, x)[1] = s[1]
  <1>1. /\ Len(s) \in Nat /\ DOMAIN s = 1 .. Len(s)
        /\ Append(s, x) \in Seq(Token) /\ Append(s, x) # <<>>
        /\ DOMAIN Append(s, x) = 1 .. Len(s) + 1
        /\ \A i \in 1 .. Len(s) : Append(s, x)[i] = s[i]
        /\ Append(s, x)[Len(s) + 1] = x
    BY AppendProperties, LenProperties
  <1>2. HasExit(Append(s, x)) <=> HasExit(s) \/ IsExit(x)
    BY <1>1 DEF HasExit
  <1>3. ~HasExit(s) => OneExit(Append(s, x))
    BY <1>1 DEF HasExit, OneExit
  <1>4. s # <<>> => Append(s, x)[1] = s[1]
    BY <1>1, EmptySeq
  <1> QED BY <1>1, <1>2, <1>3, <1>4

\* After a first exit code in a sequence with one there is no other.
LEMMA NoneAfter ==
    ASSUME NEW s \in Seq(Token), NEW t \in Seq(Token), OneExit(s \o t), HasExit(s)
    PROVE  ~HasExit(t)
  <1>1. /\ Len(s) \in Nat /\ Len(t) \in Nat
        /\ DOMAIN s = 1 .. Len(s) /\ DOMAIN t = 1 .. Len(t)
        /\ DOMAIN (s \o t) = 1 .. Len(s) + Len(t)
        /\ \A i \in 1 .. Len(s) + Len(t) : (s \o t)[i] = IF i <= Len(s) THEN s[i] ELSE t[i - Len(s)]
    BY ConcatProperties, LenProperties
  <1>2. PICK i \in 1 .. Len(s) : IsExit(s[i])
    BY <1>1 DEF HasExit
  <1>3. ASSUME NEW j \in 1 .. Len(t), IsExit(t[j]) PROVE FALSE
    <2>1. /\ Len(s) + j \in 1 .. Len(s) + Len(t) /\ ~(Len(s) + j <= Len(s))
          /\ (Len(s) + j) - Len(s) = j /\ i \in 1 .. Len(s) + Len(t) /\ i <= Len(s)
      BY <1>1, <1>2
    <2>2. IsExit((s \o t)[Len(s) + j]) /\ IsExit((s \o t)[i])
      BY <2>1, <1>1, <1>2, <1>3
    <2> QED BY <2>1, <2>2, <1>1 DEF OneExit
  <1> QED BY <1>1, <1>3 DEF HasExit

\* Silence at a shell: all that was typed was read, or a command is at work.
LEMMA Silence ==
    ASSUME Silent, phase = "shell"
    PROVE  /\ wire = <<>> /\ out = <<>> /\ conn = "open" /\ running # Probe
           /\ running = None => tty = <<>>
  BY DEF Silent, Prompt

\* Nothing of the client's changes, so neither does what became of its calls.
LEMMA ClientStays ==
    ASSUME Answered, LostLast, UNCHANGED <<client, lost>>
    PROVE  Answered' /\ LostLast'
  BY DEF Answered, LostLast, LastIgnores, client, Working

-----------------------------------------------------------------------------
\* The terminal and the shell.

\* A line that arrives is where it was in what is typed, and echoed.
LEMMA ArriveKeeps ==
    ASSUME IInv, Arrive, TypeOK'
    PROVE  IInv'
  <1> USE DEF IInv
  <1> DEFINE h == Head(wire)
  <1>1. /\ TypeOK /\ conn = "open" /\ wire # <<>> /\ h # CtrlC /\ wire' = Tail(wire)
        /\ out' = out \o Echoes
        /\ UNCHANGED <<client, lost, conn, phase, setup, running, last, wrote>>
    BY DEF Arrive, shell
  <1>2. UNCHANGED <<pc, cmd, buf, results>>
    BY <1>1 DEF client
  <1>3. \/ tty' = Append(tty, h) /\ calm' = calm
        \/ ~setup /\ calm' = FALSE /\ (tty' = tty \/ (h = Setup /\ tty' = Append(tty, Mark)))
    BY DEF Arrive
  <1>4. /\ wire \in Seq(Line) /\ tty \in Seq(Line) /\ Tail(wire) \in Seq(Line) /\ h \in Line
        /\ Mark \in Line /\ out \in Seq(Token)
    BY <1>1, TypedFacts, HeadTailProperties, Lines DEF TypeOK
  <1>5. HasExit(out') <=> HasExit(out)
    BY <1>1, <1>4, Echoing
  <1>6. Stream' = Stream \o Echoes
    BY <1>1, <1>2, Written, Tokens DEF Stream
  <1>7. tty' = Append(tty, h) => Typed' = Typed
    <2>1. Append(tty, h) \o Tail(wire) = tty \o wire
      BY <1>1, <1>4, Moved
    <2> QED BY <2>1, <1>1 DEF Typed
  <1>8. Started'
    BY <1>1, <1>2, <1>5 DEF Started, Attaching, Working
  <1>9. ASSUME NEW L, Holds(wire, L), Holds(tty, L \ {CtrlC})
        PROVE  /\ Holds(wire', L) /\ h \in L \ {CtrlC}
               /\ Mark \in L => Holds(tty', L \ {CtrlC})
    <2>1. Holds(Tail(wire), L) /\ h \in L \ {CtrlC}
      BY <1>1, <1>4, <1>9, HoldsTail
    <2>2. Holds(Append(tty, h), L \ {CtrlC})
      BY <1>4, <1>9, <2>1, HoldsAppend
    <2>3. Mark \in L => Holds(Append(tty, Mark), L \ {CtrlC})
      BY <1>4, <1>9, HoldsAppend, Lines
    <2> QED BY <1>1, <1>3, <1>9, <2>1, <2>2, <2>3
  <1>10. Probing'
    <2>1. ASSUME cmd = Probe, pc \notin {"hangup", "closed"}
          PROVE  /\ Holds(tty', {Mark, Setup, Cmd(Probe)})
                 /\ Holds(wire', {Mark, Setup, Cmd(Probe), CtrlC})
      <3> DEFINE L == {Mark, Setup, Cmd(Probe), CtrlC}
      <3>1. L \ {CtrlC} = {Mark, Setup, Cmd(Probe)}
        BY Lines, CommandFacts
      <3>2. Holds(tty, L \ {CtrlC}) /\ Holds(wire, L)
        BY <2>1, <3>1 DEF Probing
      <3>3. Holds(wire', L) /\ Holds(tty', L \ {CtrlC})
        <4> HIDE DEF L
        <4>1. Mark \in L
          BY DEF L
        <4> QED BY <3>2, <4>1, <1>9
      <3> QED BY <3>1, <3>3
    <2> QED BY <2>1, <1>1, <1>2 DEF Probing
  <1>11. Calm'
    <2>1. ASSUME calm' PROVE calm /\ Typed' = Typed
      BY <2>1, <1>3, <1>7
    <2>2. /\ HasExit(Stream') <=> HasExit(Stream)
          /\ OneExit(Stream) => OneExit(Stream')
      BY <1>1, <1>6, TypedFacts, Echoing
    <2> QED BY <2>1, <2>2, <1>1, <1>2 DEF Calm, Attaching
  <1>12. Runs'
    <2> SUFFICES ASSUME pc = "run", ~lost
                 PROVE  (setup => Stage(cmd)') /\ (~setup => cmd = Probe /\ Echoed')
      BY <1>1, <1>2 DEF Runs
    <2>1. ASSUME setup PROVE Stage(cmd)'
      <3>1. Stage(cmd) /\ Stream' = Stream /\ Typed' = Typed
        BY <2>1, <1>1, <1>3, <1>6, <1>7, TypedFacts, Echoing DEF Runs
      <3> QED BY <3>1, <1>1, <1>2 DEF Stage
    <2>2. ASSUME ~setup PROVE cmd = Probe /\ Echoed'
      <3> DEFINE L == {Mark, Cmd(Probe)}
      <3>1. cmd = Probe /\ Echoed
        BY <2>2 DEF Runs
      <3>2. L \ {CtrlC} = L
        BY Lines, CommandFacts
      <3>3. Holds(wire', L) /\ Holds(tty', L)
        <4>1. Holds(wire, L) /\ Holds(tty, L) /\ Mark \in L
          BY <3>1 DEF Echoed
        <4> HIDE DEF L
        <4> QED BY <4>1, <3>2, <1>9
      <3>4. Stream' # <<>> /\ Stream'[1] = Noise
        BY <2>2, <3>1, <1>1, <1>6, TypedFacts, Echoing DEF Echoed
      <3> QED BY <3>1, <3>3, <3>4 DEF Echoed
    <2> QED BY <2>1, <2>2
  <1>13. Idle'
    BY <1>1, <1>2 DEF Idle
  <1>14. Recovers'
    <2> SUFFICES ASSUME pc \in {"recover", "quiet"}, ~lost, cmd # Probe PROVE Recovers'
      BY <1>1, <1>2 DEF Recovers
    <2>1. setup /\ tty' = Append(tty, h)
      BY <1>3 DEF Recovers
    <2>2. Holds(wire', {Cmd(cmd), Mark, CtrlC}) /\ Holds(tty', {Cmd(cmd), Mark})
      <3> DEFINE L == {Cmd(cmd), Mark, CtrlC}
      <3>1. L \ {CtrlC} = {Cmd(cmd), Mark}
        BY <1>1, Lines DEF TypeOK
      <3>2. Holds(wire, L) /\ Holds(tty, L \ {CtrlC}) /\ Mark \in L
        BY <3>1 DEF Recovers
      <3>3. Holds(wire', L) /\ Holds(tty', L \ {CtrlC})
        <4> HIDE DEF L
        <4> QED BY <3>2, <1>9
      <3> QED BY <3>1, <3>3
    <2>3. /\ Len(wire) \in Nat /\ DOMAIN wire = 1 .. Len(wire)
          /\ DOMAIN wire' = 1 .. Len(wire) - 1 /\ wire[1] = h
          /\ \A i \in 1 .. Len(wire) - 1 : wire'[i] = wire[i + 1]
      BY <1>1, <1>4, HeadTailProperties, LenProperties
    <2>4. \A i, j \in DOMAIN wire' : i < j /\ wire'[i] = CtrlC => wire'[j] = Mark
      BY <2>3 DEF Recovers
    <2>5. CtrlC \notin ToSet(wire') => CtrlC \notin ToSet(wire)
      <3> SUFFICES ASSUME CtrlC \in ToSet(wire) PROVE CtrlC \in ToSet(wire')
        OBVIOUS
      <3>1. PICK i \in 1 .. Len(wire) : wire[i] = CtrlC
        BY <2>3 DEF ToSet
      <3>2. i - 1 \in 1 .. Len(wire) - 1 /\ wire'[i - 1] = CtrlC
        <4>1. i # 1
          BY <3>1, <2>3, <1>1
        <4>2. i - 1 \in 1 .. Len(wire) - 1 /\ (i - 1) + 1 = i
          BY <4>1, <2>3
        <4> QED BY <4>2, <3>1, <2>3
      <3> QED BY <3>2, <2>3 DEF ToSet
    <2>6. ASSUME CtrlC \notin ToSet(wire')
          PROVE  Holds(tty', {Mark}) /\ Holds(wire', {Mark}) /\ running \in Obstinate \cup {None}
      <3>1. Holds(tty, {Mark}) /\ Holds(wire, {Mark}) /\ running \in Obstinate \cup {None}
        BY <2>5, <2>6 DEF Recovers
      <3>2. {Mark} \ {CtrlC} = {Mark}
        BY Lines
      <3>3. Holds(tty', {Mark}) /\ Holds(wire', {Mark})
        BY <3>1, <3>2, <1>9
      <3> QED BY <3>1, <3>3
    <2> QED BY <2>1, <2>2, <2>4, <2>6, <1>1, <1>2 DEF Recovers
  <1>15. Answered' /\ LostLast'
    BY <1>1, ClientStays
  <1> QED BY <1>8, <1>10, <1>11, <1>12, <1>13, <1>14, <1>15

\* An interrupt that arrives leaves markers only, and at most a command that ignores it.
LEMMA InterruptKeeps ==
    ASSUME IInv, ArriveInterrupt, TypeOK'
    PROVE  IInv'
  <1> USE DEF IInv
  <1>1. /\ TypeOK /\ conn = "open" /\ wire # <<>> /\ Head(wire) = CtrlC /\ wire' = Tail(wire)
        /\ out' = out \o Echoes
        /\ UNCHANGED <<client, lost, calm, phase, setup, wrote>>
        /\ phase = "shell" => conn' = "open"
    BY DEF ArriveInterrupt, history
  <1>2. UNCHANGED <<pc, cmd, buf, results>>
    BY <1>1 DEF client
  <1>3. /\ running' = running \/ running' = None
        /\ running \in Command \ Obstinate => running' = None
    BY DEF ArriveInterrupt
  <1>4. /\ wire \in Seq(Line) /\ tty \in Seq(Line) /\ out \in Seq(Token)
        /\ DOMAIN wire = 1 .. Len(wire) /\ Len(wire) \in Nat \ {0} /\ wire[1] = CtrlC
        /\ DOMAIN wire' = 1 .. Len(wire) - 1
        /\ \A i \in 1 .. Len(wire) - 1 : wire'[i] = wire[i + 1]
    BY <1>1, TypedFacts, HeadTailProperties, LenProperties, EmptySeq DEF TypeOK
  <1>5. Holds(tty', {Mark})
    <2>1. tty' = <<>> \/ tty' = MarksOf(tty)
      BY DEF ArriveInterrupt
    <2>2. Holds(MarksOf(tty), {Mark})
      BY <1>4, MarksLeft
    <2>3. Holds(<<>>, {Mark})
      BY DEF Holds
    <2> QED BY <2>1, <2>2, <2>3
  <1>6. HasExit(out') <=> HasExit(out)
    BY <1>1, <1>4, Echoing
  <1>7. ASSUME NEW L, Holds(wire, L) PROVE CtrlC \in L /\ Holds(wire', L)
    BY <1>7, <1>1, <1>4, HoldsTail
  <1>8. Started'
    BY <1>1, <1>2, <1>3, <1>6 DEF Started, Attaching, Working
  <1>9. Probing'
    <2>1. ASSUME cmd = Probe, pc \notin {"hangup", "closed"}
          PROVE  /\ Holds(tty', {Mark, Setup, Cmd(Probe)})
                 /\ Holds(wire', {Mark, Setup, Cmd(Probe), CtrlC})
                 /\ running' \in {None, Probe}
      BY <2>1, <1>3, <1>5, <1>7, HoldsMore DEF Probing
    <2> QED BY <2>1, <1>1, <1>2 DEF Probing
  <1>10. ASSUME NEW L, Holds(Typed, L) PROVE CtrlC \in L
    BY <1>1, <1>7, <1>10, TypedFacts
  <1>11. Typed # <<>> /\ Typed # <<Mark>> /\ Typed # <<Setup>>
    <2>1. Typed # <<>>
      BY <1>1, TypedFacts
    <2>2. Holds(<<Mark>>, {Mark}) /\ Holds(<<Setup>>, {Setup})
      BY HoldsShort
    <2> QED BY <2>1, <2>2, <1>10, Lines
  <1>12. Calm'
    <2>1. ASSUME calm PROVE pc # "mark" /\ pc # "setup"
      BY <2>1, <1>11 DEF Calm
    <2> QED BY <2>1, <1>1, <1>2 DEF Calm, Attaching
  <1>13. Runs'
    <2> SUFFICES ASSUME pc = "run", ~lost PROVE FALSE
      BY <1>1, <1>2 DEF Runs
    <2>1. CASE setup
      <3>1. Stage(cmd)
        BY <2>1 DEF Runs
      <3>2. Typed # <<Cmd(cmd), Mark>>
        <4>1. Holds(<<Cmd(cmd), Mark>>, {Cmd(cmd), Mark})
          BY HoldsShort
        <4>2. CtrlC # Cmd(cmd) /\ CtrlC # Mark
          BY <1>1, Lines DEF TypeOK
        <4>3. Typed = <<Cmd(cmd), Mark>> => CtrlC \in {Cmd(cmd), Mark}
          BY <4>1, <1>10
        <4> QED BY <4>2, <4>3
      <3> QED BY <3>1, <3>2, <1>11 DEF Stage
    <2>2. CASE ~setup
      <3>1. Holds(wire, {Mark, Cmd(Probe)})
        BY <2>2 DEF Runs, Echoed
      <3> QED BY <3>1, <1>7, Lines, CommandFacts
    <2> QED BY <2>1, <2>2, <1>1 DEF TypeOK
  <1>14. Idle'
    BY <1>1, <1>2 DEF Idle
  <1>15. Recovers'
    <2> SUFFICES ASSUME pc \in {"recover", "quiet"}, ~lost, cmd # Probe PROVE Recovers'
      BY <1>1, <1>2 DEF Recovers
    <2>1. /\ setup /\ running \in {None, cmd} /\ Holds(wire, {Cmd(cmd), Mark, CtrlC})
          /\ \A i, j \in DOMAIN wire : i < j /\ wire[i] = CtrlC => wire[j] = Mark
      BY DEF Recovers
    <2>2. Holds(wire', {Mark})
      <3>1. ASSUME NEW i \in 1 .. Len(wire) - 1 PROVE wire[i + 1] = Mark
        <4>1. 1 \in DOMAIN wire /\ i + 1 \in DOMAIN wire /\ 1 < i + 1
          BY <1>4
        <4> QED BY <4>1, <2>1, <1>4
      <3> QED BY <3>1, <1>4 DEF Holds
    <2>3. running' \in {None, cmd} /\ running' \in Obstinate \cup {None}
      BY <2>1, <1>1, <1>3 DEF TypeOK
    <2>4. /\ Holds(tty', {Cmd(cmd), Mark}) /\ Holds(wire', {Cmd(cmd), Mark, CtrlC})
      BY <2>2, <1>5, HoldsMore
    <2>5. \A i, j \in DOMAIN wire' : i < j /\ wire'[i] = CtrlC => wire'[j] = Mark
      BY <2>2 DEF Holds
    <2> QED BY <2>1, <2>2, <2>3, <2>4, <2>5, <1>1, <1>2, <1>5 DEF Recovers
  <1>16. Answered' /\ LostLast'
    BY <1>1, ClientStays
  <1> QED BY <1>8, <1>9, <1>12, <1>13, <1>14, <1>15, <1>16

\* A machine that starts has no part in anything but attach().
LEMMA MachineKeeps ==
    ASSUME IInv, Start \/ Boot \/ Refuse, TypeOK'
    PROVE  IInv'
  <1> USE DEF IInv
  <1>1. /\ phase = "starting"
        /\ UNCHANGED <<client, lost, calm, wire, tty, setup, running>>
        /\ phase' = "shell" \/ (phase' = phase /\ (HasExit(out') => HasExit(out)))
    <2>1. HasExit(<<Noise>>) <=> IsExit(Noise)
      BY ExitShort
    <2> QED BY <2>1, Tokens DEF Start, Boot, Refuse, shell, history
  <1>2. UNCHANGED <<pc, cmd, buf, results>>
    BY <1>1 DEF client
  <1>3. pc \notin Working \cup {"setup", "settled", "idle", "hangup"}
    BY <1>1 DEF Started
  <1>4. Started'
    BY <1>1, <1>2, <1>3 DEF Started
  <1>5. Probing'
    BY <1>1, <1>2 DEF Probing
  <1>6. Calm'
    BY <1>1, <1>2, <1>3 DEF Calm, Attaching, Working
  <1>7. Runs' /\ Idle' /\ Recovers'
    BY <1>2, <1>3 DEF Runs, Idle, Recovers, Working
  <1>8. Answered' /\ LostLast'
    BY <1>1, ClientStays
  <1> QED BY <1>4, <1>5, <1>6, <1>7, <1>8

\* The shell reads the first of what is typed.
LEMMA ReadLineKeeps ==
    ASSUME IInv, ReadLine, TypeOK'
    PROVE  IInv'
  <1> USE DEF IInv
  <1> DEFINE h == Head(tty)
  <1>1. /\ TypeOK /\ conn = "open" /\ phase = "shell" /\ running = None /\ tty # <<>>
        /\ tty' = Tail(tty)
        /\ UNCHANGED <<client, wire, phase, last, lost, calm>>
    BY DEF ReadLine, history
  <1>2. UNCHANGED <<pc, cmd, buf, results>>
    BY <1>1 DEF client
  <1>3. /\ h = Mark => /\ out' = Append(out, Exit(last)) \o Echoes
                       /\ UNCHANGED <<setup, running, wrote, conn>>
        /\ h = Setup => setup' = TRUE /\ out' = Append(out, Exit(last)) /\ running' = running /\ conn' = conn
        /\ \A c \in Command : h = Cmd(c) =>
              running' = c /\ wrote' = FALSE /\ UNCHANGED <<setup, out, conn>>
    BY Lines DEF ReadLine
  <1>4. /\ wire \in Seq(Line) /\ tty \in Seq(Line) /\ out \in Seq(Token) /\ buf \in Seq(Token)
        /\ Exit(last) \in Token /\ IsExit(Exit(last))
    BY <1>1, TypedFacts, Tokens DEF TypeOK
  <1>5. Typed # <<>> /\ Head(Typed) = h /\ Typed' = Tail(Typed)
    <2>1. Head(tty \o wire) = h /\ Tail(tty) \o wire = Tail(tty \o wire) /\ tty \o wire # <<>>
      BY <1>1, <1>4, Taken
    <2> QED BY <2>1, <1>1 DEF Typed
  <1>6. ASSUME NEW L, Holds(tty, L) PROVE h \in L /\ Holds(tty', L)
    BY <1>1, <1>4, <1>6, HoldsTail
  <1>7. /\ h = Mark => Stream' = Append(Stream, Exit(last)) \o Echoes
        /\ h = Setup => Stream' = Append(Stream, Exit(last))
        /\ \A c \in Command : h = Cmd(c) => Stream' = Stream
    BY <1>2, <1>3, <1>4, Written DEF Stream
  <1>8. Started'
    BY <1>1, <1>2 DEF Started
  <1>9. Probing'
    <2> SUFFICES ASSUME cmd = Probe, pc \notin {"hangup", "closed"}
                 PROVE  /\ running' \in {None, Probe}
                        /\ Holds(tty', {Mark, Setup, Cmd(Probe)})
      BY <1>1, <1>2 DEF Probing
    <2>1. h \in {Mark, Setup, Cmd(Probe)} /\ Holds(tty', {Mark, Setup, Cmd(Probe)})
      BY <1>6 DEF Probing
    <2> QED BY <2>1, <1>1, <1>3, CommandFacts
  <1>10. ASSUME pc \in Attaching \cup {"run"}, cmd = Probe
         PROVE  conn' = conn /\ (setup => setup')
    <2>1. h \in {Mark, Setup, Cmd(Probe)}
      BY <1>10, <1>6 DEF Probing, Attaching
    <2> QED BY <2>1, <1>3, CommandFacts
  <1>11. Stream \in Seq(Token)
    BY <1>1, TypedFacts
  <1>12. Calm'
    <2> SUFFICES ASSUME calm PROVE Calm'
      BY <1>1 DEF Calm
    <2>1. ASSUME pc = "mark"
          PROVE  running' = None /\ Typed' = <<>> /\ HasExit(Stream') /\ OneExit(Stream')
      <3>1. Typed = <<Mark>> /\ ~HasExit(Stream)
        BY <2>1, <1>5 DEF Calm
      <3>2. h = Mark /\ Typed' = <<>>
        BY <3>1, <1>5, ShortSeqs
      <3>3. HasExit(Append(Stream, Exit(last))) /\ OneExit(Append(Stream, Exit(last)))
            /\ Append(Stream, Exit(last)) \in Seq(Token)
        BY <3>1, <1>4, <1>11, AppendFacts
      <3> QED BY <3>2, <3>3, <1>1, <1>3, <1>7, Echoing
    <2>2. ASSUME pc = "setup"
          PROVE  running' = None /\ Typed' = <<>> /\ HasExit(Stream') /\ setup'
      <3>1. Typed = <<Setup>>
        BY <2>2, <1>5 DEF Calm
      <3>2. h = Setup /\ Typed' = <<>>
        BY <3>1, <1>5, ShortSeqs
      <3>3. HasExit(Append(Stream, Exit(last)))
        BY <1>4, <1>11, AppendFacts
      <3> QED BY <3>2, <3>3, <1>1, <1>3, <1>7
    <2>3. ASSUME pc \in Attaching \/ (pc = "run" /\ cmd = Probe)
          PROVE  phase' = "shell" /\ conn' = "open" /\ (setup => setup')
      <3>1. cmd = Probe
        BY <2>3 DEF Probing
      <3> QED BY <3>1, <2>3, <1>1, <1>10
    <2>4. /\ pc' \notin {"off", "reconnect", "attach", "raised"}
          /\ cmd' = Probe => pc' \notin {"recover", "quiet"}
          /\ pc \in {"settled"} => pc \in Attaching
          /\ pc = "settled" \/ (pc = "run" /\ cmd = Probe) => setup
      BY <1>2 DEF Calm, Attaching
    <2> QED BY <2>1, <2>2, <2>3, <2>4, <1>2 DEF Calm
  <1>13. Runs'
    <2> SUFFICES ASSUME pc = "run", ~lost
                 PROVE  (setup' => Stage(cmd)') /\ (~setup' => cmd = Probe /\ Echoed')
      BY <1>1, <1>2 DEF Runs
    <2>1. CASE setup
      <3>1. cmd \in Command /\ cmd # None
        BY <1>1, CommandFacts DEF TypeOK
      <3>2. \/ Typed = <<Cmd(cmd), Mark>> /\ Stream = <<>>
            \/ Typed = <<Mark>> /\ last = cmd /\ Stream = <<Out(cmd)>>
        BY <2>1, <3>1, <1>1, <1>5 DEF Runs, Stage
      <3>3. CASE Typed = <<Cmd(cmd), Mark>> /\ Stream = <<>>
        <4>1. h = Cmd(cmd) /\ Typed' = <<Mark>>
          BY <3>3, <1>5, ShortSeqs
        <4>2. setup' /\ running' = cmd /\ ~wrote' /\ Stream' = <<>>
          BY <4>1, <3>1, <3>3, <2>1, <1>3, <1>7
        <4> QED BY <4>1, <4>2, <1>2 DEF Stage
      <3>4. CASE Typed = <<Mark>> /\ last = cmd /\ Stream = <<Out(cmd)>>
        <4>1. h = Mark /\ Typed' = <<>>
          BY <3>4, <1>5, ShortSeqs
        <4>2. setup' /\ running' = None /\ Stream' = Append(Stream, Exit(cmd)) \o Echoes
          BY <4>1, <3>4, <2>1, <1>1, <1>3, <1>7
        <4>3. Append(Stream, Exit(cmd)) = <<Out(cmd), Exit(cmd)>>
          BY <3>1, <3>4, ShortSeqs, Tokens
        <4>4. Stream' = <<Out(cmd), Exit(cmd)>>
          BY <4>2, <4>3, <2>1, <1>4, <1>11, <3>4, Echoing, AppendFacts
        <4> QED BY <4>1, <4>2, <4>4, <1>2 DEF Stage
      <3> QED BY <3>2, <3>3, <3>4
    <2>2. CASE ~setup
      <3>1. /\ cmd = Probe /\ Holds(tty, {Mark, Cmd(Probe)}) /\ Holds(wire, {Mark, Cmd(Probe)})
            /\ Stream # <<>> /\ Stream[1] = Noise
        BY <2>2, <1>1 DEF Runs, Echoed
      <3>2. h \in {Mark, Cmd(Probe)} /\ Holds(tty', {Mark, Cmd(Probe)})
        BY <3>1, <1>6
      <3>3. Append(Stream, Exit(last)) # <<>> /\ Append(Stream, Exit(last))[1] = Noise
            /\ Append(Stream, Exit(last)) \in Seq(Token)
        BY <3>1, <1>4, <1>11, AppendFacts
      <3>4. Stream' # <<>> /\ Stream'[1] = Noise
        BY <3>1, <3>2, <3>3, <1>7, Echoing, CommandFacts
      <3>5. setup' = setup
        BY <3>2, <1>3, CommandFacts
      <3> QED BY <3>1, <3>2, <3>4, <3>5, <2>2, <1>1 DEF Echoed
    <2> QED BY <2>1, <2>2, <1>1 DEF TypeOK
  <1>14. Idle'
    BY <1>1, <1>2 DEF Idle
  <1>15. Recovers'
    <2> SUFFICES ASSUME pc \in {"recover", "quiet"}, ~lost, cmd # Probe PROVE Recovers'
      BY <1>1, <1>2 DEF Recovers
    <2>1. cmd \in Command
      BY <1>1 DEF TypeOK
    <2>2. h \in {Cmd(cmd), Mark} /\ Holds(tty', {Cmd(cmd), Mark})
      BY <1>6 DEF Recovers
    <2>3. setup' = setup /\ running' \in {None, cmd} /\ (h = Mark => running' = None)
      BY <2>1, <2>2, <1>1, <1>3
    <2>4. CtrlC \notin ToSet(wire) => h = Mark /\ Holds(tty', {Mark})
      <3>1. ASSUME CtrlC \notin ToSet(wire) PROVE h \in {Mark} /\ Holds(tty', {Mark})
        BY <3>1, <1>6 DEF Recovers
      <3> QED BY <3>1
    <2> QED BY <2>2, <2>3, <2>4, <1>1, <1>2 DEF Recovers
  <1>16. Answered' /\ LostLast'
    BY <1>1, ClientStays
  <1> QED BY <1>8, <1>9, <1>12, <1>13, <1>14, <1>15, <1>16

LEMMA CommandWritesKeeps ==
    ASSUME IInv, CommandWrites, TypeOK'
    PROVE  IInv'
  <1> USE DEF IInv
  <1>1. /\ TypeOK /\ running # None /\ ~wrote /\ wrote' = TRUE /\ out' = Append(out, Out(running))
        /\ UNCHANGED <<client, conn, wire, tty, phase, setup, running, last, calm, lost>>
    BY DEF CommandWrites, history
  <1>2. UNCHANGED <<pc, cmd, buf, results>>
    BY <1>1 DEF client
  <1>3. /\ running \in Command /\ Out(running) \in Token /\ Stream \in Seq(Token)
        /\ phase = "shell"
    BY <1>1, Tokens, TypedFacts DEF TypeOK, Started
  <1>4. Stream' = Append(Stream, Out(running)) /\ Typed' = Typed
    BY <1>1, <1>2, <1>3, Written DEF Stream, Typed
  <1>5. Started' /\ Probing'
    BY <1>1, <1>2, <1>3 DEF Started, Probing
  <1>6. Calm'
    BY <1>1, <1>2 DEF Calm
  <1>7. Runs'
    <2> SUFFICES ASSUME pc = "run", ~lost
                 PROVE  (setup => Stage(cmd)') /\ (~setup => cmd = Probe /\ Echoed')
      BY <1>1, <1>2 DEF Runs
    <2>1. ASSUME setup PROVE Stage(cmd)'
      <3>1. Typed = <<Mark>> /\ running = cmd /\ Stream = <<>>
        BY <2>1, <1>1 DEF Runs, Stage
      <3>2. Stream' = <<Out(cmd)>>
        BY <3>1, <1>3, <1>4, ShortSeqs
      <3> QED BY <3>1, <3>2, <1>1, <1>2, <1>4 DEF Stage
    <2>2. ASSUME ~setup PROVE cmd = Probe /\ Echoed'
      <3>1. cmd = Probe /\ Echoed /\ Stream # <<>> /\ Stream[1] = Noise
        BY <2>2, <1>1 DEF Runs, Echoed
      <3> QED BY <3>1, <1>1, <1>3, <1>4, AppendFacts DEF Echoed
    <2> QED BY <2>1, <2>2
  <1>8. Idle' /\ Recovers'
    BY <1>1, <1>2 DEF Idle, Recovers
  <1>9. Answered' /\ LostLast'
    BY <1>1, ClientStays
  <1> QED BY <1>5, <1>6, <1>7, <1>8, <1>9

LEMMA CommandEndsKeeps ==
    ASSUME IInv, CommandEnds, TypeOK'
    PROVE  IInv'
  <1> USE DEF IInv
  <1>1. /\ TypeOK /\ running \in Command /\ wrote /\ running' = None /\ last' = running
        /\ out' = out \o Echoes
        /\ UNCHANGED <<client, conn, wire, tty, phase, setup, wrote, calm, lost>>
    BY DEF CommandEnds, history
  <1>2. UNCHANGED <<pc, cmd, buf, results>>
    BY <1>1 DEF client
  <1>3. running # None /\ Stream \in Seq(Token) /\ phase = "shell"
    BY <1>1, CommandFacts, TypedFacts DEF TypeOK, Started
  <1>4. Stream' = Stream \o Echoes /\ Typed' = Typed
    BY <1>1, <1>2, Written, Tokens DEF Stream, Typed
  <1>5. Started' /\ Probing'
    BY <1>1, <1>2, <1>3 DEF Started, Probing
  <1>6. Calm'
    BY <1>1, <1>2, <1>3 DEF Calm
  <1>7. Runs'
    <2> SUFFICES ASSUME pc = "run", ~lost
                 PROVE  (setup => Stage(cmd)') /\ (~setup => cmd = Probe /\ Echoed')
      BY <1>1, <1>2 DEF Runs
    <2>1. ASSUME setup PROVE Stage(cmd)'
      <3>1. Typed = <<Mark>> /\ running = cmd /\ Stream = <<Out(cmd)>>
        BY <2>1, <1>1, <1>3 DEF Runs, Stage
      <3>2. Stream' = <<Out(cmd)>>
        BY <2>1, <3>1, <1>3, <1>4, Echoing
      <3> QED BY <3>1, <3>2, <1>1, <1>2, <1>4 DEF Stage
    <2>2. ASSUME ~setup PROVE cmd = Probe /\ Echoed'
      <3>1. cmd = Probe /\ Echoed /\ Stream # <<>> /\ Stream[1] = Noise
        BY <2>2, <1>3 DEF Runs, Echoed
      <3> QED BY <3>1, <1>1, <1>3, <1>4, Echoing DEF Echoed
    <2> QED BY <2>1, <2>2
  <1>8. Idle' /\ Recovers'
    <2>1. Idle'
      BY <1>1, <1>2, <1>3 DEF Idle
    <2>2. Recovers'
      <3> SUFFICES ASSUME pc \in {"recover", "quiet"}, ~lost, cmd # Probe PROVE Recovers'
        BY <1>1, <1>2 DEF Recovers
      <3> QED BY <1>1, <1>2 DEF Recovers
    <2> QED BY <2>1, <2>2
  <1>9. Answered' /\ LostLast'
    BY <1>1, ClientStays
  <1> QED BY <1>5, <1>6, <1>7, <1>8, <1>9

-----------------------------------------------------------------------------
\* The client.

\* The marker that a command is waited for comes after all of its output and last.
LEMMA AnswerCame ==
    ASSUME TypeOK, NEW c \in Command, Stage(c), HasExit(buf)
    PROVE  /\ tty = <<>> /\ wire = <<>> /\ out = <<>> /\ running = None
           /\ Parse(buf) = Answer(c)
  <1>1. /\ ~IsExit(Out(c)) /\ IsExit(Exit(c)) /\ Exit(c)[2] = c
        /\ Out(c) \in Token /\ Exit(c) \in Token
    BY Tokens
  <1>2. /\ Stream \in Seq(Token) /\ HasExit(Stream) /\ (Typed = <<>> => tty = <<>> /\ wire = <<>>)
        /\ buf \in Seq(Token) /\ out \in Seq(Token)
    BY TypedFacts DEF TypeOK
  <1>3. ~HasExit(<<>>) /\ ~HasExit(<<Out(c)>>)
    BY <1>1, ExitShort
  <1>4. Typed = <<>> /\ running = None /\ Stream = <<Out(c), Exit(c)>>
    BY <1>2, <1>3 DEF Stage
  <1>5. /\ Len(buf) \in Nat /\ Len(out) \in Nat /\ DOMAIN buf = 1 .. Len(buf)
        /\ Len(Stream) = Len(buf) + Len(out)
        /\ \A i \in 1 .. Len(buf) + Len(out) : i <= Len(buf) => Stream[i] = buf[i]
    BY <1>2, ConcatProperties, LenProperties DEF Stream
  <1>6. Len(Stream) = 2 /\ Stream[1] = Out(c) /\ Stream[2] = Exit(c)
    BY <1>4
  <1>7. Len(buf) = 2 /\ Len(out) = 0
    <2>1. PICK i \in 1 .. Len(buf) : IsExit(buf[i])
      BY <1>5 DEF HasExit
    <2>2. i \in 1 .. 2 /\ Stream[i] = buf[i]
      <3>1. i \in Int /\ 1 <= i /\ i <= Len(buf)
        BY <1>5
      <3>2. Len(buf) + Len(out) = 2
        BY <1>5, <1>6
      <3>3. i \in 1 .. Len(buf) + Len(out)
        BY <3>1, <1>5
      <3>4. Stream[i] = buf[i]
        BY <3>1, <3>3, <1>5
      <3> QED BY <3>2, <3>3, <3>4
    <2>3. i # 1
      BY <2>1, <2>2, <1>1, <1>6
    <2> QED BY <2>2, <2>3, <1>5, <1>6, SMTT(30)
  <1>8. buf[1] = Out(c) /\ buf[2] = Exit(c)
    BY <1>5, <1>6, <1>7
  <1>9. FirstExit(buf) = 2
    <2>1. FirstExit(buf) \in 1 .. Len(buf) /\ IsExit(buf[FirstExit(buf)])
      BY <1>2, ParseFacts
    <2>2. FirstExit(buf) # 1
      BY <2>1, <1>1, <1>8
    <2> QED BY <2>1, <2>2, <1>7
  <1>10. SubSeq(buf, 1, 1) = <<Out(c)>>
    <2>1. /\ SubSeq(buf, 1, 1) \in Seq(Token) /\ Len(SubSeq(buf, 1, 1)) = 1
          /\ SubSeq(buf, 1, 1)[1] = buf[1]
      BY <1>2, <1>7, <1>8, <1>1, SubSeqProperties, ElementOfSeq
    <2>2. <<Out(c)>> \in Seq(Token) /\ Len(<<Out(c)>>) = 1 /\ <<Out(c)>>[1] = Out(c)
      BY <1>1, ShortSeqs
    <2> DEFINE a == SubSeq(buf, 1, 1)
               b == <<Out(c)>>
    <2>3. a \in Seq(Token) /\ b \in Seq(Token) /\ Len(a) = 1 /\ Len(b) = 1 /\ a[1] = b[1]
      BY <2>1, <2>2, <1>8
    <2> HIDE DEF a, b
    <2>4. a = b
      BY <2>3, SeqEqual
    <2> QED BY <2>4 DEF a, b
  <1>11. Parse(buf) = Answer(c)
    <2>1. FirstExit(buf) - 1 = 1
      BY <1>9
    <2> QED BY <2>1, <1>1, <1>8, <1>9, <1>10 DEF Parse, Answer
  <1>12. out = <<>>
    BY <1>2, <1>7, EmptySeq
  <1> QED BY <1>2, <1>4, <1>11, <1>12

\* An answer that begins with an echo isn't the probe's.
LEMMA EchoedFirst ==
    ASSUME TypeOK, Stream[1] = Noise, HasExit(buf)
    PROVE  ~IsReady(Parse(buf))
  <1>1. buf \in Seq(Token) /\ out \in Seq(Token)
    BY DEF TypeOK
  <1>2. /\ FirstExit(buf) \in 1 .. Len(buf) /\ IsExit(buf[FirstExit(buf)])
        /\ Parse(buf).stdout = SubSeq(buf, 1, FirstExit(buf) - 1)
    BY <1>1, ParseFacts
  <1>3. /\ Len(buf) \in Nat /\ Len(out) \in Nat
        /\ \A i \in 1 .. Len(buf) + Len(out) : i <= Len(buf) => Stream[i] = buf[i]
    BY <1>1, ConcatProperties, LenProperties DEF Stream
  <1>4. buf[1] = Noise
    <2>1. 1 \in 1 .. Len(buf) + Len(out) /\ 1 <= Len(buf)
      BY <1>2, <1>3
    <2> QED BY <2>1, <1>3
  <1>5. FirstExit(buf) # 1
    BY <1>2, <1>4, Tokens
  <1>6. SubSeq(buf, 1, FirstExit(buf) - 1)[1] = Noise
    <2>1. /\ 1 \in 1 .. Len(buf) + 1 /\ FirstExit(buf) - 1 \in 0 .. Len(buf)
          /\ 1 \in 1 .. (FirstExit(buf) - 1)
      BY <1>2, <1>3, <1>5
    <2> QED BY <2>1, <1>1, <1>2, <1>3, <1>4, <1>5, SubSeqProperties, ElementOfSeq
  <1>7. <<Out(Probe)>>[1] = Out(Probe) /\ Noise # Out(Probe)
    BY Tokens, CommandFacts
  <1> QED BY <1>2, <1>6, <1>7 DEF IsReady

\* On a shell that is there, the probe is a command like the others.
LEMMA CalmProbe ==
    ASSUME IInv, calm, pc = "run", cmd = Probe
    PROVE  setup /\ Stage(Probe)
  BY DEF IInv, Calm, Probing, Runs

LEMMA ReadKeeps ==
    ASSUME IInv, Read, TypeOK'
    PROVE  IInv'
  <1> USE DEF IInv
  <1>1. /\ TypeOK /\ pc \in {"mark", "setup", "run", "recover"} /\ ~HasExit(buf)
        /\ UNCHANGED <<pc, cmd, results, interrupt, attempts, conn, wire, tty, shell, history>>
    BY DEF Read
  <1>2. UNCHANGED <<phase, setup, running, last, wrote, calm, lost>>
    BY <1>1 DEF shell, history
  <1>3. PICK n \in 1 .. Len(out) : /\ buf' = buf \o SubSeq(out, 1, n)
                                   /\ out' = SubSeq(out, n + 1, Len(out))
    BY DEF Read
  <1>4. buf \in Seq(Token) /\ out \in Seq(Token)
    BY <1>1 DEF TypeOK
  <1>5. Stream' = Stream /\ Typed' = Typed /\ SubSeq(out, 1, n) \in Seq(Token)
    <2>1. /\ SubSeq(out, 1, n) \in Seq(Token)
          /\ (buf \o SubSeq(out, 1, n)) \o SubSeq(out, n + 1, Len(out)) = buf \o out
      BY <1>4, Split
    <2>2. Stream' = Stream
      BY <2>1, <1>3 DEF Stream
    <2>3. Typed' = Typed
      BY <1>1 DEF Typed
    <2> QED BY <2>1, <2>2, <2>3
  <1>6. ~HasExit(out) => ~HasExit(out') /\ ~HasExit(buf')
    <2> SUFFICES ASSUME ~HasExit(out) PROVE ~HasExit(out') /\ ~HasExit(buf')
      OBVIOUS
    <2>1. ~HasExit(SubSeq(out, 1, n)) /\ ~HasExit(SubSeq(out, n + 1, Len(out)))
      BY <1>4, ExitTail
    <2> QED BY <2>1, <1>1, <1>3, <1>4, <1>5, ExitConcat
  <1>7. Started' /\ Probing'
    BY <1>1, <1>2, <1>6 DEF Started, Probing
  <1>8. Calm'
    BY <1>1, <1>2, <1>5 DEF Calm, Attaching
  <1>9. Runs'
    <2>1. Stage(cmd) => Stage(cmd)'
      BY <1>1, <1>2, <1>5 DEF Stage
    <2>2. Echoed => Echoed'
      BY <1>1, <1>2, <1>5 DEF Echoed
    <2> QED BY <2>1, <2>2, <1>1, <1>2 DEF Runs
  <1>10. Idle' /\ Recovers'
    BY <1>1, <1>2 DEF Idle, Recovers
  <1>11. Answered' /\ LostLast'
    BY <1>1, <1>2 DEF Answered, LostLast, LastIgnores, Working
  <1> QED BY <1>7, <1>8, <1>9, <1>10, <1>11

LEMMA DrainKeeps ==
    ASSUME IInv, Drain, TypeOK'
    PROVE  IInv'
  <1> USE DEF IInv
  <1>1. /\ TypeOK /\ pc \in {"settle", "settled", "quiet"} /\ out' = <<>>
        /\ UNCHANGED <<client, conn, wire, tty, shell, history>>
    BY DEF Drain
  <1>2. UNCHANGED <<pc, cmd, buf, results, phase, setup, running, last, wrote, calm, lost>>
    BY <1>1 DEF client, shell, history
  <1>3. Started' /\ Probing'
    BY <1>1, <1>2, ExitShort DEF Started, Probing
  <1>4. Calm' /\ Runs' /\ Idle' /\ Recovers'
    BY <1>1, <1>2 DEF Calm, Attaching, Runs, Idle, Recovers
  <1>5. Answered' /\ LostLast'
    BY <1>1, <1>2, ClientStays
  <1> QED BY <1>3, <1>4, <1>5

\* create(), until it has attached: what it types is the first that a shell has to read.
LEMMA Typing ==
    ASSUME TypeOK, NEW lines \in Seq(Line), wire' = wire \o lines, tty' = tty
    PROVE  /\ \A L : Holds(wire', L) <=> Holds(wire, L) /\ Holds(lines, L)
           /\ wire = <<>> /\ tty = <<>> => Typed' = lines
  <1>1. wire \in Seq(Line)
    BY DEF TypeOK
  <1>2. \A L : Holds(wire \o lines, L) <=> Holds(wire, L) /\ Holds(lines, L)
    BY <1>1, HoldsConcat
  <1>3. <<>> \o lines = lines
    BY NothingAdded
  <1> QED BY <1>2, <1>3 DEF Typed

LEMMA ConnectKeeps ==
    ASSUME IInv, Connect, TypeOK'
    PROVE  IInv'
  <1> USE DEF IInv
  <1>1. /\ TypeOK /\ pc \in {"off", "reconnect"} /\ pc' = "attach"
        /\ tty' = <<>> /\ wire' = <<>> /\ out' = <<>>
        /\ setup' = FALSE /\ running' = None
        /\ UNCHANGED <<cmd, results, lost, calm>>
    BY DEF Connect, history
  <1>2. cmd = Probe /\ ~calm /\ ~lost
    BY <1>1 DEF Probing, Calm
  <1>3. Started'
    BY <1>1, ExitShort DEF Started, Working
  <1>4. Probing'
    <2>1. \A L : Holds(<<>>, L)
      BY DEF Holds
    <2> QED BY <2>1, <1>1, <1>2 DEF Probing
  <1>5. Calm' /\ Runs' /\ Idle' /\ Recovers'
    BY <1>1, <1>2 DEF Calm, Runs, Idle, Recovers
  <1>6. Answered' /\ LostLast'
    BY <1>1, <1>2 DEF Answered, LostLast, Working
  <1> QED BY <1>3, <1>4, <1>5, <1>6

LEMMA AttachKeeps ==
    ASSUME IInv, Attach, TypeOK'
    PROVE  IInv'
  <1> USE DEF IInv
  <1>1. /\ TypeOK /\ pc = "attach" /\ pc' = "settle" /\ buf' = <<>>
        /\ calm' = (conn = "open" /\ phase = "shell")
        /\ Type(IF interrupt THEN <<CtrlC>> ELSE <<>>)
        /\ UNCHANGED <<cmd, results, conn, tty, out, phase, setup, running, last, wrote, lost>>
    BY DEF Attach, shell
  <1>2. cmd = Probe /\ ~lost
    BY <1>1 DEF Probing, Attaching
  <1>3. Started'
    BY <1>1 DEF Started, Working
  <1>4. Probing'
    <2>1. PICK lines \in {<<>>, <<CtrlC>>} : wire' = wire \o lines
      BY <1>1 DEF Type
    <2>2. lines \in Seq(Line) /\ Holds(lines, {Mark, Setup, Cmd(Probe), CtrlC})
      <3>1. /\ <<>> \in Seq(Line) /\ <<CtrlC>> \in Seq(Line)
            /\ Holds(<<>>, {Mark, Setup, Cmd(Probe), CtrlC})
            /\ Holds(<<CtrlC>>, {Mark, Setup, Cmd(Probe), CtrlC})
        BY Lines, ShortSeqs DEF Holds
      <3> QED BY <3>1, <2>1
    <2>3. Holds(wire', {Mark, Setup, Cmd(Probe), CtrlC})
      <3>1. Holds(wire, {Mark, Setup, Cmd(Probe), CtrlC})
        BY <1>1, <1>2 DEF Probing
      <3> QED BY <3>1, <2>1, <2>2, <1>1, Typing
    <2> QED BY <2>3, <1>1, <1>2 DEF Probing, Attaching
  <1>5. Calm' /\ Runs' /\ Idle' /\ Recovers'
    BY <1>1, <1>2 DEF Calm, Runs, Idle, Recovers
  <1>6. Answered' /\ LostLast'
    BY <1>1, <1>2 DEF Answered, LostLast, Working
  <1> QED BY <1>3, <1>4, <1>5, <1>6

LEMMA TypeMarkKeeps ==
    ASSUME IInv, TypeMark, TypeOK'
    PROVE  IInv'
  <1> USE DEF IInv
  <1>1. /\ TypeOK /\ pc = "settle" /\ pc' = "mark" /\ buf' = <<>> /\ wire' = wire \o <<Mark>>
        /\ Silent
        /\ UNCHANGED <<cmd, results, conn, tty, out, phase, setup, running, last, wrote, calm, lost>>
    BY DEF TypeMark, Settled, Type, shell, history
  <1>2. cmd = Probe /\ ~lost /\ <<Mark>> \in Seq(Line)
    BY <1>1, Lines, ShortSeqs DEF Probing, Attaching
  <1>3. Started'
    BY <1>1, ExitShort DEF Started, Working
  <1>4. Probing'
    <2>1. Holds(wire', {Mark, Setup, Cmd(Probe), CtrlC})
      <3>1. Holds(wire, {Mark, Setup, Cmd(Probe), CtrlC})
        BY <1>1, <1>2 DEF Probing
      <3>2. Holds(<<Mark>>, {Mark, Setup, Cmd(Probe), CtrlC})
        BY HoldsShort
      <3> QED BY <3>1, <3>2, <1>1, <1>2, Typing
    <2> QED BY <2>1, <1>1, <1>2 DEF Probing, Attaching
  <1>5. Calm'
    <2> SUFFICES ASSUME calm
                 PROVE  /\ phase = "shell" /\ conn = "open" /\ running = None
                        /\ Typed' = <<Mark>> /\ ~HasExit(Stream')
      BY <1>1, <1>2 DEF Calm, Attaching
    <2>1. phase = "shell" /\ conn = "open"
      BY <1>1 DEF Calm, Attaching
    <2>2. wire = <<>> /\ out = <<>> /\ running = None /\ tty = <<>>
      BY <2>1, <1>1, <1>2, Silence DEF Probing
    <2>3. Stream' = <<>>
      <3>1. <<>> \o <<>> = <<>>
        BY ConcatEmptySeq, ShortSeqs
      <3> QED BY <3>1, <2>2, <1>1 DEF Stream
    <2> QED BY <2>1, <2>2, <2>3, <1>1, <1>2, Typing, ExitShort
  <1>6. Runs' /\ Idle' /\ Recovers'
    BY <1>1, <1>2 DEF Runs, Idle, Recovers
  <1>7. Answered' /\ LostLast'
    BY <1>1, <1>2 DEF Answered, LostLast, Working
  <1> QED BY <1>3, <1>4, <1>5, <1>6, <1>7

LEMMA TypeSetupKeeps ==
    ASSUME IInv, TypeSetup, TypeOK'
    PROVE  IInv'
  <1> USE DEF IInv
  <1>1. /\ TypeOK /\ pc = "mark" /\ HasExit(buf) /\ pc' = "setup" /\ buf' = <<>>
        /\ wire' = wire \o <<Setup>>
        /\ UNCHANGED <<cmd, results, conn, tty, out, phase, setup, running, last, wrote, calm, lost>>
    BY DEF TypeSetup, Type, shell, history
  <1>2. cmd = Probe /\ ~lost /\ <<Setup>> \in Seq(Line) /\ buf \in Seq(Token) /\ out \in Seq(Token)
    BY <1>1, Lines, ShortSeqs DEF Probing, Attaching, TypeOK
  <1>3. Started'
    BY <1>1 DEF Started, Working, TypeOK
  <1>4. Probing'
    <2>1. Holds(wire', {Mark, Setup, Cmd(Probe), CtrlC})
      <3>1. Holds(wire, {Mark, Setup, Cmd(Probe), CtrlC})
        BY <1>1, <1>2 DEF Probing
      <3>2. Holds(<<Setup>>, {Mark, Setup, Cmd(Probe), CtrlC})
        BY HoldsShort
      <3> QED BY <3>1, <3>2, <1>1, <1>2, Typing
    <2> QED BY <2>1, <1>1, <1>2 DEF Probing, Attaching
  <1>5. Calm'
    <2> SUFFICES ASSUME calm
                 PROVE  /\ phase = "shell" /\ conn = "open" /\ running = None
                        /\ Typed' = <<Setup>> /\ ~HasExit(Stream')
      BY <1>1, <1>2 DEF Calm, Attaching
    <2>1. phase = "shell" /\ conn = "open" /\ running = None
      BY <1>1 DEF Calm, Attaching
    <2>2. HasExit(Stream)
      BY <1>1, TypedFacts
    <2>3. Typed = <<>> /\ OneExit(Stream)
      BY <2>2, <1>1 DEF Calm
    <2>4. tty = <<>> /\ wire = <<>> /\ ~HasExit(out)
      BY <2>3, <1>1, <1>2, TypedFacts, NoneAfter DEF Stream
    <2>5. Stream' = out
      BY <1>1, <1>2, NothingAdded DEF Stream
    <2> QED BY <2>1, <2>4, <2>5, <1>1, <1>2, Typing
  <1>6. Runs' /\ Idle' /\ Recovers'
    BY <1>1, <1>2 DEF Runs, Idle, Recovers
  <1>7. Answered' /\ LostLast'
    BY <1>1, <1>2 DEF Answered, LostLast, Working
  <1> QED BY <1>3, <1>4, <1>5, <1>6, <1>7

LEMMA SetUpKeeps ==
    ASSUME IInv, SetUp, TypeOK'
    PROVE  IInv'
  <1> USE DEF IInv
  <1>1. /\ TypeOK /\ pc = "setup" /\ HasExit(buf) /\ pc' = "settled"
        /\ UNCHANGED <<cmd, buf, results, conn, wire, tty, out, phase, setup, running, last, wrote,
                       calm, lost>>
    BY DEF SetUp, shell, history
  <1>2. cmd = Probe /\ ~lost /\ HasExit(Stream)
    BY <1>1, TypedFacts DEF Probing, Attaching
  <1>3. Started' /\ Probing'
    BY <1>1, <1>2 DEF Started, Working, Probing, Attaching
  <1>4. Calm'
    BY <1>1, <1>2 DEF Calm, Attaching
  <1>5. Runs' /\ Idle' /\ Recovers'
    BY <1>1, <1>2 DEF Runs, Idle, Recovers
  <1>6. Answered' /\ LostLast'
    BY <1>1, <1>2 DEF Answered, LostLast, Working
  <1> QED BY <1>3, <1>4, <1>5, <1>6

LEMMA RunProbeKeeps ==
    ASSUME IInv, RunProbe, TypeOK'
    PROVE  IInv'
  <1> USE DEF IInv
  <1> DEFINE lines == <<Cmd(Probe), Mark>>
  <1>1. /\ TypeOK /\ pc = "settled" /\ pc' = "run" /\ buf' = <<>> /\ wire' = wire \o lines
        /\ cmd' = Probe /\ Silent
        /\ UNCHANGED <<results, conn, tty, out, phase, setup, running, last, wrote, calm, lost>>
    BY DEF RunProbe, Settled, Write, Type, shell, history
  <1>2. cmd = Probe /\ ~lost /\ lines \in Seq(Line) /\ phase = "shell"
    BY <1>1, Lines, ShortSeqs, CommandFacts DEF Probing, Attaching, Started, TypeOK
  <1>3. wire = <<>> /\ out = <<>> /\ running = None /\ tty = <<>>
    BY <1>1, <1>2, Silence DEF Probing
  <1>4. Holds(lines, {Mark, Cmd(Probe)}) /\ Typed' = lines /\ wire' = lines /\ Stream' = <<>>
    <2>1. <<>> \o <<>> = <<>>
      BY ConcatEmptySeq, ShortSeqs
    <2>2. Holds(lines, {Mark, Cmd(Probe)})
      BY HoldsShort
    <2> QED BY <2>1, <2>2, <1>1, <1>2, <1>3, Typing, NothingAdded DEF Stream
  <1>5. Started'
    BY <1>1, <1>2 DEF Started
  <1>6. Probing'
    BY <1>1, <1>2, <1>3, <1>4, HoldsShort, HoldsMore DEF Probing, Attaching
  <1>7. Calm'
    BY <1>1, <1>2 DEF Calm, Attaching
  <1>8. Runs'
    BY <1>1, <1>2, <1>3, <1>4, HoldsShort DEF Runs, Stage, Echoed
  <1>9. Idle' /\ Recovers'
    BY <1>1, <1>2 DEF Idle, Recovers
  <1>10. Answered' /\ LostLast'
    BY <1>1, <1>2, CommandFacts DEF Answered, LostLast, Working
  <1> QED BY <1>5, <1>6, <1>7, <1>8, <1>9, <1>10

LEMMA ProbedKeeps ==
    ASSUME IInv, Probed, TypeOK'
    PROVE  IInv'
  <1> USE DEF IInv
  <1>1. /\ TypeOK /\ pc = "run" /\ cmd = Probe /\ HasExit(buf)
        /\ IF IsReady(Parse(buf)) THEN pc' = "idle" ELSE pc' \in {"attach", "raised"}
        /\ UNCHANGED <<cmd, buf, results, conn, wire, tty, out, phase, setup, running, last, wrote,
                       calm, lost>>
    BY DEF Probed, AttachFails, shell, history
  <1>2. ~lost /\ phase = "shell" /\ Probe \in Command
    BY <1>1, CommandFacts DEF Probing, Started, Working
  <1>3. ASSUME Stage(Probe)
        PROVE  IsReady(Parse(buf)) /\ wire = <<>> /\ tty = <<>> /\ out = <<>> /\ running = None
    <2>1. Parse(buf) = Answer(Probe) /\ wire = <<>> /\ tty = <<>> /\ out = <<>> /\ running = None
      BY <1>1, <1>2, <1>3, AnswerCame
    <2> QED BY <2>1 DEF Answer, IsReady
  <1>4. IsReady(Parse(buf)) => setup /\ Stage(Probe)
    <2>1. ~setup => Stream[1] = Noise
      <3>1. Stream # <<>>
        BY <1>1, TypedFacts, ExitShort
      <3> QED BY <3>1, <1>1, <1>2 DEF Runs, Echoed
    <2>2. ~setup => ~IsReady(Parse(buf))
      BY <2>1, <1>1, EchoedFirst
    <2> QED BY <2>2, <1>1, <1>2 DEF Runs
  <1>5. calm => pc' = "idle"
    BY <1>1, <1>3, CalmProbe
  <1>6. Started'
    BY <1>1, <1>2 DEF Started
  <1>7. Probing'
    BY <1>1, <1>2 DEF Probing
  <1>8. Calm'
    BY <1>1, <1>5 DEF Calm, Attaching
  <1>9. Idle'
    BY <1>1, <1>3, <1>4 DEF Idle
  <1>10. Runs' /\ Recovers'
    BY <1>1 DEF Runs, Recovers
  <1>11. Answered' /\ LostLast'
    BY <1>1, <1>2, CommandFacts DEF Answered, LostLast, Working
  <1> QED BY <1>6, <1>7, <1>8, <1>9, <1>10, <1>11

\* An attempt that times out is one of a shell that wasn't there or lost input.
LEMMA AttachTimesOutKeeps ==
    ASSUME IInv, AttachTimesOut, TypeOK'
    PROVE  IInv'
  <1> USE DEF IInv
  <1>1. /\ TypeOK /\ pc \in {"settle", "mark", "setup", "settled"} /\ pc' \in {"attach", "raised"}
        /\ pc \in {"mark", "setup"} => ~HasExit(buf) /\ Silent
        /\ pc \in {"settle", "settled"} => phase = "starting"
        /\ UNCHANGED <<cmd, buf, results, conn, wire, tty, out, phase, setup, running, last, wrote,
                       calm, lost>>
    BY DEF AttachTimesOut, AttachFails, shell, history
  <1>2. cmd = Probe /\ ~lost
    BY <1>1 DEF Probing, Attaching
  <1>3. ~calm
    <2> SUFFICES ASSUME calm PROVE FALSE
      OBVIOUS
    <2>1. phase = "shell" /\ pc \in {"mark", "setup"}
      BY <1>1 DEF Calm, Attaching
    <2>2. running = None /\ wire = <<>> /\ tty = <<>> /\ out = <<>>
      BY <2>1, <1>1, Silence DEF Calm
    <2>3. Typed = <<>> /\ ~HasExit(Stream)
      BY <2>1, <2>2, <1>1, TypedFacts, ExitShort
    <2>4. Typed # <<Mark>> /\ Typed # <<Setup>>
      BY <2>3
    <2> QED BY <2>1, <2>3, <2>4 DEF Calm
  <1>4. Started' /\ Probing'
    BY <1>1, <1>2 DEF Started, Working, Probing, Attaching
  <1>5. Calm' /\ Runs' /\ Idle' /\ Recovers'
    BY <1>1, <1>2, <1>3 DEF Calm, Runs, Idle, Recovers
  <1>6. Answered' /\ LostLast'
    BY <1>1, <1>2 DEF Answered, LostLast, Working
  <1> QED BY <1>4, <1>5, <1>6

LEMMA EndedKeeps ==
    ASSUME IInv, Ended, TypeOK'
    PROVE  IInv'
  <1> USE DEF IInv
  <1>1. /\ TypeOK /\ conn = "ended" /\ pc' \in {"reconnect", "closed"}
        /\ pc \in Attaching \/ (pc \in Working /\ cmd = Probe)
        /\ UNCHANGED <<cmd, buf, results, wire, tty, out, phase, setup, running, last, wrote,
                       calm, lost>>
    BY DEF Ended, shell, history, Attaching, Working
  <1>2. cmd = Probe /\ ~lost /\ ~calm
    BY <1>1 DEF Probing, Calm, Attaching, Working
  <1>3. Started'
    BY <1>1 DEF Started, Working
  <1>4. Probing'
    BY <1>1, <1>2 DEF Probing, Attaching, Working
  <1>5. Calm' /\ Runs' /\ Idle' /\ Recovers'
    BY <1>1, <1>2 DEF Calm, Runs, Idle, Recovers
  <1>6. Answered' /\ LostLast'
    BY <1>1, <1>2, CommandFacts DEF Answered, LostLast, Working
  <1> QED BY <1>3, <1>4, <1>5, <1>6

\* run(), at a shell that nothing is left to be read from.
LEMMA RunKeeps ==
    ASSUME IInv, Run, TypeOK'
    PROVE  IInv'
  <1> USE DEF IInv
  <1> DEFINE lines == <<Cmd(cmd + 1), Mark>>
  <1>1. /\ TypeOK /\ pc = "idle" /\ pc' = "run" /\ buf' = <<>> /\ wire' = wire \o lines
        /\ cmd < Commands /\ cmd' = cmd + 1
        /\ UNCHANGED <<results, conn, tty, out, phase, setup, running, last, wrote, calm, lost>>
    BY DEF Run, Write, Type, shell, history
  <1>2. /\ cmd \in 0 .. Commands /\ Commands \in Nat /\ cmd' \in 1 .. Commands /\ cmd' # Probe
        /\ phase = "shell" /\ lines \in Seq(Line)
    <2>1. cmd \in 0 .. Commands /\ Commands \in Nat /\ phase = "shell"
      BY <1>1, CommandFacts DEF TypeOK, Command, Started
    <2>2. cmd + 1 \in Command /\ cmd' \in 1 .. Commands /\ cmd' # Probe
      BY <2>1, <1>1 DEF Command, Probe
    <2> QED BY <2>1, <2>2, Lines, ShortSeqs
  <1>3. Started' /\ Probing'
    BY <1>1, <1>2 DEF Started, Probing, Attaching
  <1>4. Calm'
    BY <1>1, <1>2 DEF Calm, Attaching
  <1>5. Runs'
    <2> SUFFICES ASSUME ~lost PROVE setup /\ Stage(cmd)'
      BY <1>1 DEF Runs
    <2>1. setup /\ wire = <<>> /\ tty = <<>> /\ out = <<>> /\ running = None
      BY <1>1 DEF Idle
    <2>2. <<>> \o <<>> = <<>>
      BY ConcatEmptySeq, ShortSeqs
    <2>3. Typed' = <<Cmd(cmd'), Mark>> /\ Stream' = <<>>
      BY <2>1, <2>2, <1>1, <1>2, Typing DEF Stream
    <2> QED BY <2>1, <2>3, <1>1 DEF Stage
  <1>6. Idle' /\ Recovers'
    BY <1>1 DEF Idle, Recovers
  <1>7. Answered'
    <2> SUFFICES ASSUME NEW c \in 1 .. Commands
                 PROVE  /\ c >= cmd + 1 => results[c] = Unanswered
                        /\ ~lost /\ c < cmd + 1 => results[c] \in {Answer(c), TimedOut}
      BY <1>1, <1>2 DEF Answered, Working
    <2>1. (c >= cmd + 1 <=> c > cmd) /\ (c < cmd + 1 <=> c < cmd \/ c = cmd)
      BY <1>2
    <2> QED BY <2>1, <1>1 DEF Answered, Working
  <1>8. LostLast'
    BY <1>1, <1>2 DEF LostLast, LastIgnores
  <1> QED BY <1>3, <1>4, <1>5, <1>6, <1>7, <1>8

LEMMA ReturnKeeps ==
    ASSUME IInv, Return, TypeOK'
    PROVE  IInv'
  <1> USE DEF IInv
  <1>1. /\ TypeOK /\ pc = "run" /\ cmd # Probe /\ HasExit(buf) /\ pc' = "idle"
        /\ results' = [results EXCEPT ![cmd] = Parse(buf)]
        /\ UNCHANGED <<cmd, buf, conn, wire, tty, out, phase, setup, running, last, wrote,
                       calm, lost>>
    BY DEF Return, shell, history
  <1>2. cmd \in Command /\ cmd \in 1 .. Commands /\ phase = "shell"
    BY <1>1, CommandFacts DEF TypeOK, Started, Working
  <1>3. ASSUME ~lost
        PROVE  /\ setup /\ tty = <<>> /\ wire = <<>> /\ out = <<>> /\ running = None
               /\ Parse(buf) = Answer(cmd)
    <2>1. setup /\ Stage(cmd)
      BY <1>1, <1>3 DEF Runs
    <2> QED BY <2>1, <1>1, <1>2, AnswerCame
  <1>4. Started' /\ Probing'
    <2>1. Started'
      BY <1>1, <1>2 DEF Started
    <2>2. Probing'
      BY <1>1 DEF Probing, Attaching
    <2> QED BY <2>1, <2>2
  <1>5. Calm'
    BY <1>1 DEF Calm, Attaching
  <1>6. Idle'
    BY <1>1, <1>3 DEF Idle
  <1>7. Runs' /\ Recovers'
    BY <1>1 DEF Runs, Recovers
  <1>8. Answered'
    <2> SUFFICES ASSUME NEW c \in 1 .. Commands
                 PROVE  /\ c > cmd => results'[c] = Unanswered
                        /\ ~lost /\ c <= cmd => results'[c] \in {Answer(c), TimedOut}
      BY <1>1, <1>2, CommandFacts DEF Answered, Working
    <2>1. c # cmd => results'[c] = results[c]
      BY <1>1, <1>2 DEF TypeOK
    <2>2. c = cmd /\ ~lost => results'[c] = Answer(c)
      BY <1>1, <1>2, <1>3 DEF TypeOK
    <2>3. c > cmd => results[c] = Unanswered
      BY DEF Answered
    <2>4. ~lost /\ c < cmd => results[c] \in {Answer(c), TimedOut}
      BY DEF Answered
    <2>5. (c <= cmd <=> c < cmd \/ c = cmd) /\ (c > cmd => c # cmd) /\ (c < cmd => c # cmd)
      BY <1>2, CommandFacts
    <2> QED BY <2>1, <2>2, <2>3, <2>4, <2>5
  <1>9. LostLast'
    BY <1>1 DEF LostLast, LastIgnores
  <1> QED BY <1>4, <1>5, <1>6, <1>7, <1>8, <1>9

\* The interrupt and the second marker follow all that was typed before.
LEMMA LateKeeps ==
    ASSUME IInv, Late, TypeOK'
    PROVE  IInv'
  <1> USE DEF IInv
  <1> DEFINE lines == <<CtrlC, Mark>>
  <1>1. /\ TypeOK /\ pc = "run" /\ pc' = "recover" /\ ~HasExit(buf) /\ out = <<>>
        /\ cmd = Probe => Silent
        /\ wire' = wire \o lines /\ buf' = <<>>
        /\ UNCHANGED <<cmd, results, conn, tty, out, phase, setup, running, last, wrote, calm, lost>>
    BY DEF Late, Type, shell, history
  <1>2. /\ lines \in Seq(Line) /\ wire \in Seq(Line) /\ cmd \in Command /\ phase = "shell"
        /\ CtrlC # Mark
    BY <1>1, Lines, ShortSeqs DEF TypeOK, Started, Working
  <1>3. \A L : Holds(wire', L) <=> Holds(wire, L) /\ Holds(lines, L)
    BY <1>1, <1>2, Typing
  <1>4. Started'
    BY <1>1, <1>2 DEF Started
  <1>5. Probing'
    <2>1. Holds(lines, {Mark, Setup, Cmd(Probe), CtrlC})
      BY DEF Holds
    <2> QED BY <2>1, <1>1, <1>3 DEF Probing, Attaching
  <1>6. Calm'
    <2>1. ASSUME calm, cmd = Probe PROVE FALSE
      <3>1. Stage(Probe)
        BY <2>1, <1>1, CalmProbe
      <3>2. wire = <<>> /\ running # Probe /\ (running = None => tty = <<>>)
        BY <2>1, <1>1, <1>2, Silence
      <3>3. ~HasExit(Stream)
        BY <1>1, TypedFacts, ExitShort
      <3>4. HasExit(<<Out(Probe), Exit(Probe)>>)
        BY ExitShort, Tokens, CommandFacts
      <3>5. Typed # <<>> => tty # <<>>
        BY <3>2, <1>1, TypedFacts
      <3>6. running = None /\ Typed # <<>>
        BY <3>1, <3>2, <3>3, <3>4 DEF Stage
      <3> QED BY <3>2, <3>5, <3>6
    <2> QED BY <2>1, <1>1 DEF Calm, Attaching
  <1>7. Runs' /\ Idle'
    BY <1>1 DEF Runs, Idle
  <1>8. Recovers'
    <2> SUFFICES ASSUME ~lost, cmd # Probe PROVE Recovers'
      BY <1>1 DEF Recovers
    <2>1. setup /\ Stage(cmd)
      BY <1>1 DEF Runs
    <2>2. running \in {None, cmd} /\ Holds(Typed, {Cmd(cmd), Mark})
      <3>1. /\ Holds(<<>>, {Cmd(cmd), Mark}) /\ Holds(<<Mark>>, {Cmd(cmd), Mark})
            /\ Holds(<<Cmd(cmd), Mark>>, {Cmd(cmd), Mark})
        BY HoldsShort
      <3> QED BY <3>1, <2>1 DEF Stage
    <2>3. Holds(tty, {Cmd(cmd), Mark}) /\ Holds(wire, {Cmd(cmd), Mark})
      BY <2>2, <1>1, TypedFacts
    <2>4. Holds(wire', {Cmd(cmd), Mark, CtrlC})
      <3>1. Holds(wire, {Cmd(cmd), Mark, CtrlC})
        BY <2>3, HoldsMore
      <3>2. Holds(lines, {Cmd(cmd), Mark, CtrlC})
        BY HoldsShort
      <3> QED BY <3>1, <3>2, <1>3
    <2>5. /\ Len(wire) \in Nat /\ DOMAIN wire = 1 .. Len(wire)
          /\ DOMAIN wire' = 1 .. Len(wire) + 2
          /\ \A i \in 1 .. Len(wire) + 2 :
                wire'[i] = IF i <= Len(wire) THEN wire[i] ELSE lines[i - Len(wire)]
          /\ lines[1] = CtrlC /\ lines[2] = Mark
      <3>1. Len(lines) = 2 /\ lines[1] = CtrlC /\ lines[2] = Mark
        OBVIOUS
      <3> HIDE DEF lines
      <3> QED BY <3>1, <1>1, <1>2, ConcatProperties, LenProperties, SMTT(30)
    <2>6. wire'[Len(wire) + 1] = CtrlC /\ wire'[Len(wire) + 2] = Mark
      <3>1. /\ Len(wire) + 1 \in 1 .. Len(wire) + 2 /\ Len(wire) + 2 \in 1 .. Len(wire) + 2
            /\ (Len(wire) + 1) - Len(wire) = 1 /\ (Len(wire) + 2) - Len(wire) = 2
            /\ ~(Len(wire) + 1 <= Len(wire)) /\ ~(Len(wire) + 2 <= Len(wire))
        BY <2>5
      <3> HIDE DEF lines
      <3> QED BY <3>1, <2>5
    <2>7. \A i, j \in DOMAIN wire' : i < j /\ wire'[i] = CtrlC => wire'[j] = Mark
      <3> SUFFICES ASSUME NEW i \in 1 .. Len(wire) + 2, NEW j \in 1 .. Len(wire) + 2,
                          i < j, wire'[i] = CtrlC
                   PROVE  wire'[j] = Mark
        BY <2>5
      <3>1. ~(i <= Len(wire))
        <4>1. i <= Len(wire) => wire'[i] \in {Cmd(cmd), Mark}
          BY <2>3, <2>5 DEF Holds
        <4> QED BY <4>1, <1>2, Lines
      <3>2. j = Len(wire) + 2
        BY <3>1, <2>5
      <3> QED BY <3>2, <2>6
    <2>8. CtrlC \in ToSet(wire')
      <3>1. Len(wire) + 1 \in DOMAIN wire'
        BY <2>5
      <3> QED BY <3>1, <2>6 DEF ToSet
    <2> QED BY <2>1, <2>2, <2>3, <2>4, <2>7, <2>8, <1>1 DEF Recovers
  <1>9. Answered' /\ LostLast'
    BY <1>1 DEF Answered, LostLast, LastIgnores, Working
  <1> QED BY <1>4, <1>5, <1>6, <1>7, <1>8, <1>9

LEMMA RecoveredKeeps ==
    ASSUME IInv, Recovered, TypeOK'
    PROVE  IInv'
  <1> USE DEF IInv
  <1>1. /\ TypeOK /\ pc = "recover" /\ pc' = "quiet"
        /\ UNCHANGED <<cmd, buf, results, conn, wire, tty, out, phase, setup, running, last, wrote,
                       calm, lost>>
    BY DEF Recovered, shell, history
  <1>2. Started' /\ Probing'
    BY <1>1 DEF Started, Working, Probing, Attaching
  <1>3. Calm' /\ Runs' /\ Idle' /\ Recovers'
    BY <1>1 DEF Calm, Attaching, Runs, Idle, Recovers
  <1>4. Answered' /\ LostLast'
    BY <1>1 DEF Answered, LostLast, LastIgnores, Working
  <1> QED BY <1>2, <1>3, <1>4

\* When it is quiet the interrupt and the markers were read, and run() gives up.
LEMMA RaiseTimeoutKeeps ==
    ASSUME IInv, RaiseTimeout, TypeOK'
    PROVE  IInv'
  <1> USE DEF IInv
  <1>1. /\ TypeOK /\ pc = "quiet" /\ Silent
        /\ cmd = Probe => pc' \in {"attach", "raised"} /\ results' = results
        /\ cmd # Probe => pc' = "idle" /\ results' = [results EXCEPT ![cmd] = TimedOut]
        /\ lost' = (lost \/ running # None)
        /\ UNCHANGED <<cmd, buf, conn, wire, tty, out, phase, setup, running, last, wrote, calm>>
    BY DEF RaiseTimeout, Quiet, AttachFails, shell
  <1>2. /\ cmd \in Command /\ phase = "shell"
        /\ cmd # Probe <=> cmd \in 1 .. Commands
    BY <1>1, CommandFacts DEF TypeOK, Started, Working
  <1>3. wire = <<>> /\ out = <<>> /\ running # Probe /\ (running = None => tty = <<>>)
    BY <1>1, <1>2, Silence
  <1>4. cmd = Probe => ~lost /\ running = None /\ ~calm
    BY <1>1, <1>3 DEF Probing, Calm
  <1>5. Started'
    BY <1>1, <1>2 DEF Started
  <1>6. Probing'
    BY <1>1, <1>4 DEF Probing, Attaching
  <1>7. Calm'
    BY <1>1, <1>4 DEF Calm, Attaching
  <1>8. Idle'
    BY <1>1, <1>2, <1>3 DEF Idle, Recovers
  <1>9. Runs' /\ Recovers'
    BY <1>1 DEF Runs, Recovers
  <1>10. Answered'
    <2> SUFFICES ASSUME NEW c \in 1 .. Commands
                 PROVE  /\ c > cmd => results'[c] = Unanswered
                        /\ ~lost' /\ c <= cmd => results'[c] \in {Answer(c), TimedOut}
      BY <1>1, <1>2, CommandFacts DEF Answered, Working
    <2>1. c # cmd => results'[c] = results[c]
      BY <1>1, <1>2 DEF TypeOK
    <2>2. c = cmd => results'[c] = TimedOut
      BY <1>1, <1>2 DEF TypeOK
    <2>3. c > cmd => results[c] = Unanswered
      BY DEF Answered
    <2>4. ~lost /\ c < cmd => results[c] \in {Answer(c), TimedOut}
      BY DEF Answered
    <2>5. (c <= cmd <=> c < cmd \/ c = cmd) /\ (c > cmd => c # cmd) /\ (c < cmd => c # cmd)
      BY <1>2, CommandFacts
    <2> QED BY <2>1, <2>2, <2>3, <2>4, <2>5, <1>1
  <1>11. LostLast'
    <2> SUFFICES ASSUME LastIgnores, lost \/ running # None PROVE cmd = Commands /\ pc' = "idle"
      BY <1>1 DEF LostLast, LastIgnores
    <2>1. ~lost
      BY <1>1 DEF LostLast
    <2>2. running # None /\ cmd # Probe
      BY <2>1, <1>4
    <2>3. CtrlC \notin ToSet(wire)
      BY <1>3 DEF ToSet
    <2>4. running \in Obstinate /\ running = cmd
      BY <2>1, <2>2, <2>3, <1>1 DEF Recovers
    <2> QED BY <2>2, <2>4, <1>1 DEF LastIgnores
  <1> QED BY <1>5, <1>6, <1>7, <1>8, <1>9, <1>10, <1>11

LEMMA CloseKeeps ==
    ASSUME IInv, Destroy \/ Close, TypeOK'
    PROVE  IInv'
  <1> USE DEF IInv
  <1>1. /\ TypeOK
        /\ \/ pc = "idle" /\ pc' = "hangup"
           \/ pc = "hangup" /\ pc' = "closed"
        /\ UNCHANGED <<cmd, buf, results, out, phase, setup, running, calm, lost>>
    BY DEF Destroy, Close, shell, history
  <1>2. Started' /\ Probing'
    BY <1>1 DEF Started, Working, Probing, Attaching
  <1>3. Calm' /\ Runs' /\ Idle' /\ Recovers'
    BY <1>1 DEF Calm, Attaching, Runs, Idle, Recovers
  <1>4. Answered' /\ LostLast'
    BY <1>1 DEF Answered, LostLast, LastIgnores, Working
  <1> QED BY <1>2, <1>3, <1>4

LEMMA StutterKeeps ==
    ASSUME IInv, UNCHANGED vars, TypeOK'
    PROVE  IInv'
  <1> USE DEF IInv
  <1>1. /\ UNCHANGED <<client, lost>>
        /\ UNCHANGED <<pc, cmd, buf, results, conn, wire, tty, out, phase, setup, running, last,
                       wrote, calm, lost>>
    BY DEF vars, client, shell, history
  <1>2. Typed' = Typed /\ Stream' = Stream
    BY <1>1 DEF Typed, Stream
  <1>3. Started' /\ Probing' /\ Calm'
    BY <1>1, <1>2 DEF Started, Probing, Calm
  <1>4. Runs'
    BY <1>1, <1>2 DEF Runs, Stage, Echoed
  <1>5. Idle' /\ Recovers'
    BY <1>1, <1>2 DEF Idle, Recovers
  <1>6. Answered' /\ LostLast'
    BY <1>1, ClientStays
  <1> QED BY <1>3, <1>4, <1>5, <1>6

-----------------------------------------------------------------------------
LEMMA InitIInv ==
    ASSUME Init
    PROVE  IInv
  <1> USE DEF Init
  <1>1. TypeOK
    <2>1. <<>> \in Seq(Token) /\ <<>> \in Seq(Line) /\ <<>> \in Seq(Line \ {CtrlC})
      BY Tokens, Lines, ShortSeqs
    <2>2. Unanswered \in Result
      BY <2>1 DEF Unanswered, Result
    <2>3. attempts \in 0 .. MaxAttempts
      BY AttemptsAssumption
    <2> QED BY <2>1, <2>2, <2>3, CommandFacts DEF TypeOK, Probe
  <1>2. Started
    BY ExitShort DEF Started, Working
  <1>3. Probing
    BY DEF Probing, Probe, None, Holds
  <1>4. Calm /\ Runs /\ Idle /\ Recovers
    BY DEF Calm, Runs, Idle, Recovers
  <1>5. Answered /\ LostLast
    BY CommandFacts DEF Answered, LostLast, Working, Probe
  <1> QED BY <1>1, <1>2, <1>3, <1>4, <1>5 DEF IInv

LEMMA StepIInv ==
    ASSUME IInv, [Next]_vars
    PROVE  IInv'
  <1>1. TypeOK'
    BY TypeKept DEF IInv
  <1>2. CASE Terminal
    BY <1>1, <1>2, ArriveKeeps, InterruptKeeps, ReadLineKeeps, CommandWritesKeeps, CommandEndsKeeps
       DEF Terminal
  <1>3. CASE Client
    BY <1>1, <1>3, ReadKeeps, DrainKeeps, ConnectKeeps, AttachKeeps, TypeMarkKeeps, TypeSetupKeeps,
       SetUpKeeps, RunProbeKeeps, ProbedKeeps, AttachTimesOutKeeps, EndedKeeps, ReturnKeeps,
       RecoveredKeeps, RaiseTimeoutKeeps, CloseKeeps DEF Client
  <1>4. CASE Other
    BY <1>1, <1>4, RunKeeps, LateKeeps, CloseKeeps, MachineKeeps DEF Other
  <1>5. CASE UNCHANGED vars
    BY <1>1, <1>5, StutterKeeps
  <1> QED BY <1>2, <1>3, <1>4, <1>5 DEF Next

LEMMA Inductive == Spec => []IInv
  BY InitIInv, StepIInv, PTL DEF Spec

\* Every state is well typed.
THEOREM TypeCorrect == Spec => []TypeOK
  <1>1. IInv => TypeOK
    BY DEF IInv
  <1> QED BY <1>1, Inductive, PTL

\* Between calls nothing typed is left to run and no output or marker is left to arrive,
\* until run() gave up on a command that still runs.
THEOREM StaysInStep == Spec => []InStep
  <1>1. IInv => InStep
    BY DEF IInv, Idle, InStep
  <1> QED BY <1>1, Inductive, PTL

\* Until then every run() returned what its own command wrote and its own exit code,
\* or raised, whichever of the commands before it timed out.
THEOREM AnswersAreOwn == Spec => []OwnAnswers
  <1>1. IInv => OwnAnswers
    <2> SUFFICES ASSUME IInv, ~lost, NEW c \in 1 .. Commands
                 PROVE  results[c] \in {Unanswered, Answer(c), TimedOut}
      BY DEF OwnAnswers
    <2>1. cmd \in Int /\ c \in Int
      BY CommandFacts DEF IInv, TypeOK
    <2>2. c > cmd \/ c < cmd \/ c = cmd
      BY <2>1
    <2> QED BY <2>2 DEF IInv, Answered
  <1> QED BY <1>1, Inductive, PTL

\* An attempt to attach to a shell that is there, and loses no input, never fails.
THEOREM CalmAttach == Spec => CalmAttachSucceeds
  <1> DEFINE A == pc' \in {"attach", "raised"} /\ pc \notin {"off", "reconnect"} => ~calm
  <1>1. IInv /\ IInv' /\ [Next]_vars => [A]_vars
    <2> SUFFICES ASSUME IInv, IInv', Next, pc' \in {"attach", "raised"}, pc \notin {"off", "reconnect"}
                 PROVE  ~calm
      OBVIOUS
    <2>1. ~calm'
      BY DEF IInv, Calm
    <2>2. pc = pc' \/ Probed \/ AttachTimesOut \/ RaiseTimeout
      BY DEF Next, Client, Terminal, Other, Arrive, ArriveInterrupt, ReadLine, CommandWrites,
             CommandEnds, Read, Drain, Connect, Attach, TypeMark, TypeSetup, SetUp, RunProbe, Write,
             Ended, Return, Recovered, Close, Run, Late, Destroy, Start, Boot, Refuse, client
    <2>3. CASE pc = pc'
      BY <2>3 DEF IInv, Calm
    <2>4. CASE Probed \/ AttachTimesOut \/ RaiseTimeout
      BY <2>1, <2>4 DEF Probed, AttachTimesOut, RaiseTimeout, history
    <2> QED BY <2>2, <2>3, <2>4
  <1> QED BY <1>1, Inductive, PTL DEF Spec, CalmAttachSucceeds

-----------------------------------------------------------------------------
\* Whoever calls run() doesn't see the terminal, the markers or the interrupts.
LEMMA InitRunner == Init => Runner!RunnerInit
  BY CommandFacts DEF Init, At, Runner!RunnerInit

\* Answered tells the runner's calls from one another by results, which a timeout's isn't.
LEMMA ResultsDiffer ==
    /\ TimedOut # Unanswered
    /\ \A c \in 1 .. Commands : Answer(c) # Unanswered
  <1>1. None \notin 1 .. Commands
    BY CommandFacts DEF None
  <1>2. \A c \in 1 .. Commands : Answer(c).status # Unanswered.status
    BY <1>1 DEF Answer, Unanswered
  <1>3. TimedOut.stdout # Unanswered.stdout
    <2>1. Len(<<Noise>>) # Len(<<>>)
      OBVIOUS
    <2> QED BY <2>1 DEF TimedOut, Unanswered
  <1> QED BY <1>2, <1>3

LEMMA RunCalls ==
    ASSUME IInv, Run, LastIgnores
    PROVE  Runner!Call(cmd + 1)
  <1>1. pc = "idle" /\ pc' = "run" /\ cmd < Commands /\ cmd' = cmd + 1 /\ results' = results
    BY DEF Run, Write
  <1>2. cmd \in 0 .. Commands /\ Commands \in Nat /\ ~lost
    BY <1>1, CommandFacts DEF IInv, TypeOK, Command, LostLast
  <1>3. At = 0 /\ At' = cmd + 1
    BY <1>1 DEF At
  <1>4. ASSUME NEW d \in 1 .. Commands PROVE results[d] = Unanswered <=> d >= cmd + 1
    <2>1. CASE d > cmd
      BY <2>1, <1>2 DEF IInv, Answered
    <2>2. CASE d <= cmd
      <3>1. d < cmd \/ (d = cmd /\ pc \notin Working)
        BY <2>2, <1>1, <1>2 DEF Working
      <3>2. results[d] \in {Answer(d), TimedOut}
        BY <3>1, <1>2 DEF IInv, Answered
      <3>3. ~(d >= cmd + 1)
        BY <2>2, <1>2
      <3> QED BY <3>2, <3>3, ResultsDiffer
    <2> QED BY <2>1, <2>2, <1>2
  <1> QED BY <1>1, <1>3, <1>4 DEF Runner!Call

LEMMA ReturnReturns ==
    ASSUME IInv, Return, LastIgnores
    PROVE  At \in 1 .. Commands /\ Runner!Returns(Answer(At))
  <1>1. /\ pc = "run" /\ cmd # Probe /\ HasExit(buf) /\ pc' = "idle"
        /\ results' = [results EXCEPT ![cmd] = Parse(buf)]
    BY DEF Return
  <1>2. cmd \in Command /\ cmd \in 1 .. Commands /\ ~lost
    BY <1>1, CommandFacts DEF IInv, TypeOK, LostLast
  <1>3. Parse(buf) = Answer(cmd)
    <2>1. Stage(cmd)
      BY <1>1, <1>2 DEF IInv, Runs
    <2> QED BY <2>1, <1>1, <1>2, AnswerCame DEF IInv
  <1>4. At = cmd /\ At' = 0 /\ At # 0
    BY <1>1, <1>2, CommandFacts DEF At, Probe
  <1> QED BY <1>1, <1>2, <1>3, <1>4 DEF Runner!Returns

LEMMA RaiseReturns ==
    ASSUME IInv, RaiseTimeout, cmd # Probe
    PROVE  Runner!Returns(TimedOut)
  <1>1. pc = "quiet" /\ pc' = "idle" /\ results' = [results EXCEPT ![cmd] = TimedOut]
    BY DEF RaiseTimeout
  <1>2. At = cmd /\ At' = 0 /\ At # 0
    BY <1>1, CommandFacts DEF At, Probe
  <1> QED BY <1>1, <1>2 DEF Runner!Returns

LEMMA InsideRun ==
    ASSUME IInv, [Next]_vars, ~Run, ~Return, ~(RaiseTimeout /\ cmd # Probe)
    PROVE  UNCHANGED <<At, results>>
  <1> USE DEF At
  <1>1. CASE Terminal \/ UNCHANGED vars
    BY <1>1 DEF Terminal, Arrive, ArriveInterrupt, ReadLine, CommandWrites, CommandEnds, client, vars
  <1>2. CASE Start \/ Boot \/ Refuse \/ Late \/ Destroy
    BY <1>2 DEF Start, Boot, Refuse, Late, Destroy, client
  <1>3. CASE Read \/ Drain \/ Recovered \/ Close
    BY <1>3 DEF Read, Drain, Recovered, Close, client
  <1>4. CASE Connect \/ Attach \/ TypeMark \/ TypeSetup \/ SetUp \/ AttachTimesOut
    BY <1>4 DEF Connect, Attach, TypeMark, TypeSetup, SetUp, AttachTimesOut, AttachFails
  <1>5. CASE RunProbe
    BY <1>5 DEF RunProbe, Write, Probe
  <1>6. CASE Probed \/ Ended \/ RaiseTimeout
    <2>1. results' = results /\ cmd' = cmd /\ pc' \notin {"run", "recover", "quiet"}
          /\ (pc \in {"run", "recover", "quiet"} => cmd = 0)
      BY <1>6 DEF Probed, Ended, RaiseTimeout, AttachFails, Probe
    <2> QED BY <2>1
  <1> QED BY <1>1, <1>2, <1>3, <1>4, <1>5, <1>6 DEF Next, Client, Other

LEMMA StepIsRunners ==
    ASSUME IInv, [Next]_vars, LastIgnores
    PROVE  [Runner!RunnerNext]_<<At, results>>
  <1>1. CASE Run
    <2>1. cmd + 1 \in 1 .. Commands
      BY <1>1, CommandFacts DEF Run, IInv, TypeOK, Command
    <2> QED BY <1>1, <2>1, RunCalls DEF Runner!RunnerNext
  <1>2. CASE Return
    <2>1. At \in 1 .. Commands /\ Runner!Returns(Answer(At))
      BY <1>2, ReturnReturns
    <2>2. At # 0 /\ [c \in 1 .. Commands |-> Answer(c)][At] = Answer(At)
      BY <2>1, CommandFacts
    <2> QED BY <2>1, <2>2 DEF Runner!RunnerNext
  <1>3. CASE RaiseTimeout /\ cmd # Probe
    BY <1>3, RaiseReturns DEF Runner!RunnerNext
  <1> QED BY <1>1, <1>2, <1>3, InsideRun

\* run() is a CommandRunner's, for every number of calls and attempts, if none but the
\* last command ignores interrupts: ShellCommunicator can't tell that command's marker,
\* whenever it is written, from the one that the next call waits for.
THEOREM RunnerImplemented ==
    ASSUME LastIgnores
    PROVE  Spec => ImplementsRunner
  <1>1. IInv /\ [Next]_vars => [Runner!RunnerNext]_<<At, results>>
    BY StepIsRunners
  <1> QED
    BY <1>1, InitRunner, Inductive, PTL DEF Spec, ImplementsRunner, Runner!RunnerSpec
=============================================================================
