-------------------------- MODULE ContainerProofs --------------------------
(***************************************************************************)
(* What holds of Container for any containers, however often each is       *)
(* created and destroyed.                                                  *)
(***************************************************************************)
EXTENDS Container, SequenceTheorems, TLAPS

\* What is there of a container while this process is up: nothing without its directory;
\* and its defaults are entered last and left first.
Objects ==
    this = "up" =>
        /\ \A c \in Containers :
               ~directory[c] => ~entered[c] /\ ~starting[c] /\ ~running[c] /\ ~onDisk[c]
        /\ pc # "idle" => directory[cur] /\ ~entered[cur]
        /\ \A c \in Containers : starting[c] => pc = "run" /\ c = cur

\* The guard of a container waits from its create() to its destroy(), and when it's gone
\* so is the container.
Guarded ==
    this = "up" =>
        /\ \A c \in Containers :
               directory[c] /\ ~(c = cur /\ pc \in {"guard", "join"}) =>
                   guard[c] = "waiting" /\ ~released[c]
        /\ pc = "join" /\ guard[cur] \in {"removing", "gone"} => ~running[cur]
        /\ pc = "join" /\ guard[cur] = "gone" => ~onDisk[cur]

\* The defaults are those of containers that run.
Live ==
    this = "up" =>
        /\ \A c \in Containers : entered[c] => running[c]
        /\ pc = "boot" => running[cur]

\* Nested containers: the entered ones are on the stack, each once, and remember the one
\* below them.
Stacked ==
    nested =>
        /\ \A i \in 1 .. Len(values) : entered[values[i]]
        /\ \A c \in Containers : entered[c] => \E i \in 1 .. Len(values) : values[i] = c
        /\ \A i, j \in 1 .. Len(values) : values[i] = values[j] => i = j
        /\ \A i \in 1 .. Len(values) :
               previous[values[i]] = IF i = 1 THEN env0 ELSE values[i - 1]
        /\ env = IF Len(values) = 0 THEN env0 ELSE values[Len(values)]
        /\ default \in {NotYet, env0}

\* At most one of those entered found the variable unset, and it's set while there is one.
SetWhileEntered ==
    \A c \in Containers : entered[c] /\ previous[c] = Unset =>
        /\ env # Unset
        /\ \A d \in Containers : entered[d] /\ previous[d] = Unset => c = d

IInv == TypeOK /\ Objects /\ Guarded /\ Live /\ Stacked /\ SetWhileEntered

LEMMA InitIInv == Init => IInv
  <1> SUFFICES ASSUME Init PROVE IInv
    OBVIOUS
  <1>1. <<>> \in Seq(Containers) /\ Len(<<>>) = 0
    BY EmptySeq
  <1>2. TypeOK
    BY <1>1 DEF Init, None, TypeOK
  <1>3. Objects /\ Guarded /\ Live
    BY DEF Init, None, Objects, Guarded, Live
  <1>4. Stacked /\ SetWhileEntered
    BY <1>1 DEF Init, None, Stacked, SetWhileEntered
  <1> QED BY <1>2, <1>3, <1>4 DEF IInv

\* create(), up to the defaults.
LEMMA CreateIInv ==
    ASSUME IInv, (\E c \in Containers : MakeDirectory(c)) \/ MakeGuard \/ Run \/ RunReturns \/ Raise
    PROVE  IInv'
  <1> USE DEF IInv, At, object, podman, guards, defaults
  <1>1. CASE \E c \in Containers : MakeDirectory(c)
    <2> USE <1>1 DEF MakeDirectory
    <2>1. TypeOK'
      BY DEF TypeOK
    <2>2. Objects' /\ Guarded' /\ Live'
      BY DEF TypeOK, Objects, Guarded, Live
    <2>3. Stacked' /\ SetWhileEntered'
      BY DEF TypeOK, Objects, Stacked, SetWhileEntered
    <2> QED BY <2>1, <2>2, <2>3
  <1>2. CASE MakeGuard
    <2> USE <1>2 DEF MakeGuard
    <2>1. TypeOK'
      BY DEF TypeOK
    <2>2. Objects' /\ Guarded' /\ Live'
      BY DEF TypeOK, Objects, Guarded, Live
    <2>3. Stacked' /\ SetWhileEntered'
      BY DEF TypeOK, Objects, Stacked, SetWhileEntered
    <2> QED BY <2>1, <2>2, <2>3
  <1>3. CASE Run
    <2> USE <1>3 DEF Run
    <2>1. TypeOK'
      BY DEF TypeOK
    <2>2. Objects' /\ Guarded' /\ Live'
      BY DEF TypeOK, Objects, Guarded, Live
    <2>3. Stacked' /\ SetWhileEntered'
      BY DEF TypeOK, Objects, Stacked, SetWhileEntered
    <2> QED BY <2>1, <2>2, <2>3
  <1>4. CASE RunReturns
    <2> USE <1>4 DEF RunReturns
    <2>1. TypeOK'
      BY DEF TypeOK
    <2>2. Objects' /\ Guarded' /\ Live'
      BY DEF TypeOK, Objects, Guarded, Live
    <2>3. Stacked' /\ SetWhileEntered'
      BY DEF TypeOK, Objects, Stacked, SetWhileEntered
    <2> QED BY <2>1, <2>2, <2>3
  <1>5. CASE Raise
    <2> USE <1>5 DEF Raise
    <2>1. TypeOK'
      BY DEF TypeOK
    <2>2. Objects' /\ Guarded' /\ Live'
      BY DEF TypeOK, Objects, Guarded, Live
    <2>3. Stacked' /\ SetWhileEntered'
      BY DEF TypeOK, Objects, Stacked, SetWhileEntered
    <2> QED BY <2>1, <2>2, <2>3
  <1> QED BY <1>1, <1>2, <1>3, <1>4, <1>5

\* destroy(), from the guard on; Variable.get; and the end of this process.
LEMMA DestroyIInv ==
    ASSUME IInv, Release \/ Joined \/ GetDefault \/ Die
    PROVE  IInv'
  <1> USE DEF IInv, At, object, podman, guards, defaults
  <1>1. CASE Release
    <2> USE <1>1 DEF Release
    <2>1. TypeOK'
      BY DEF TypeOK
    <2>2. Objects' /\ Guarded' /\ Live'
      BY DEF TypeOK, Objects, Guarded, Live
    <2>3. Stacked' /\ SetWhileEntered'
      BY DEF TypeOK, Objects, Stacked, SetWhileEntered
    <2> QED BY <2>1, <2>2, <2>3
  <1>2. CASE Joined
    <2> USE <1>2 DEF Joined, GuardGone
    <2>1. TypeOK'
      BY DEF TypeOK
    <2>2. Objects' /\ Guarded' /\ Live'
      BY DEF TypeOK, Objects, Guarded, Live
    <2>3. Stacked' /\ SetWhileEntered'
      BY DEF TypeOK, Objects, Stacked, SetWhileEntered
    <2> QED BY <2>1, <2>2, <2>3
  <1>3. CASE GetDefault
    <2> USE <1>3 DEF GetDefault, NothingSet
    <2>1. TypeOK'
      BY DEF TypeOK
    <2>2. Objects' /\ Guarded' /\ Live'
      BY DEF TypeOK, Objects, Guarded, Live
    <2>3. Stacked' /\ SetWhileEntered'
      BY DEF TypeOK, Objects, Stacked, SetWhileEntered
    <2> QED BY <2>1, <2>2, <2>3
  <1>4. CASE Die
    <2> USE <1>4 DEF Die
    <2>1. TypeOK'
      BY DEF TypeOK
    <2>2. Objects' /\ Guarded' /\ Live'
      BY DEF TypeOK, Objects, Guarded, Live
    <2>3. Stacked' /\ SetWhileEntered'
      BY DEF TypeOK, Objects, Stacked, SetWhileEntered
    <2> QED BY <2>1, <2>2, <2>3
  <1> QED BY <1>1, <1>2, <1>3, <1>4

\* podman and the guards.
LEMMA PodmanIInv ==
    ASSUME IInv, NEW c \in Containers, RunStarts(c) \/ RunFails(c) \/ GuardRemoves(c) \/ GuardCleans(c)
    PROVE  IInv'
  <1> USE DEF IInv, At, object, podman, guards, defaults
  <1>1. CASE RunStarts(c)
    <2> USE <1>1 DEF RunStarts
    <2>1. TypeOK'
      BY DEF TypeOK
    <2>2. Objects' /\ Guarded' /\ Live'
      BY DEF TypeOK, Objects, Guarded, Live
    <2>3. Stacked' /\ SetWhileEntered'
      BY DEF TypeOK, Objects, Stacked, SetWhileEntered
    <2> QED BY <2>1, <2>2, <2>3
  <1>2. CASE RunFails(c)
    <2> USE <1>2 DEF RunFails
    <2>1. TypeOK'
      BY DEF TypeOK
    <2>2. Objects' /\ Guarded' /\ Live'
      BY DEF TypeOK, Objects, Guarded, Live
    <2>3. Stacked' /\ SetWhileEntered'
      BY DEF TypeOK, Objects, Stacked, SetWhileEntered
    <2> QED BY <2>1, <2>2, <2>3
  <1>3. CASE GuardRemoves(c)
    <2> USE <1>3 DEF GuardRemoves
    <2>1. TypeOK'
      BY DEF TypeOK
    <2>2. Objects' /\ Guarded' /\ Live'
      BY DEF TypeOK, Objects, Guarded, Live
    <2>3. Stacked' /\ SetWhileEntered'
      BY DEF TypeOK, Objects, Stacked, SetWhileEntered
    <2> QED BY <2>1, <2>2, <2>3
  <1>4. CASE GuardCleans(c)
    <2> USE <1>4 DEF GuardCleans, Emptied
    <2>1. TypeOK'
      BY DEF TypeOK
    <2>2. Objects' /\ Guarded' /\ Live'
      BY DEF TypeOK, Objects, Guarded, Live
    <2>3. Stacked' /\ SetWhileEntered'
      BY DEF TypeOK, Objects, Stacked, SetWhileEntered
    <2> QED BY <2>1, <2>2, <2>3
  <1> QED BY <1>1, <1>2, <1>3, <1>4

\* The end of create(): its default goes on top of those there were.
LEMMA EnterIInv ==
    ASSUME IInv, EnterDefaults
    PROVE  IInv'
  <1> USE DEF IInv, EnterDefaults, At, Saved, podman, guards
  <1>1. /\ cur \in Containers /\ values \in Seq(Containers)
        /\ Len(values) \in Nat
        /\ \A i \in 1 .. Len(values) : values[i] \in Containers
    BY ElementOfSeq, LenProperties DEF TypeOK
  <1>2. /\ values' \in Seq(Containers)
        /\ Len(values') = Len(values) + 1
        /\ \A i \in 1 .. Len(values) : values'[i] = values[i]
        /\ values'[Len(values) + 1] = cur
    BY <1>1, AppendProperties
  <1>3. TypeOK'
    BY <1>2 DEF TypeOK
  <1>4. Objects' /\ Guarded' /\ Live'
    BY DEF TypeOK, Objects, Guarded, Live
  <1>5. Stacked'
    <2>1. SUFFICES ASSUME nested PROVE Stacked'
      BY DEF Stacked
    <2>2. ~entered[cur] /\ \A i \in 1 .. Len(values) : entered[values[i]] /\ values[i] # cur
      BY <2>1 DEF Stacked, Objects
    <2>3. /\ entered' = [entered EXCEPT ![cur] = TRUE]
          /\ \A c \in Containers : c # cur => entered'[c] = entered[c] /\ previous'[c] = previous[c]
          /\ entered'[cur] /\ previous'[cur] = env
      BY <1>1 DEF TypeOK
    <2>4. \A i \in 1 .. Len(values') : i \in 1 .. Len(values) \/ i = Len(values) + 1
      BY <1>1, <1>2
    <2>5. \A i \in 1 .. Len(values') : entered'[values'[i]]
      BY <1>1, <1>2, <2>2, <2>3, <2>4
    <2>6. \A c \in Containers : entered'[c] => \E i \in 1 .. Len(values') : values'[i] = c
      <3>1. SUFFICES ASSUME NEW c \in Containers, entered'[c]
                     PROVE  \E i \in 1 .. Len(values') : values'[i] = c
        OBVIOUS
      <3>2. CASE c = cur
        <4>1. Len(values) + 1 \in 1 .. Len(values')
          BY <1>1, <1>2
        <4> QED BY <1>2, <3>2, <4>1
      <3>3. CASE c # cur
        <4>1. PICK i \in 1 .. Len(values) : values[i] = c
          BY <2>1, <2>3, <3>1, <3>3 DEF Stacked
        <4>2. i \in 1 .. Len(values') /\ values'[i] = c
          BY <1>1, <1>2, <4>1
        <4> QED BY <4>2
      <3> QED BY <3>2, <3>3
    <2>7. \A i, j \in 1 .. Len(values') : values'[i] = values'[j] => i = j
      BY <1>1, <1>2, <2>1, <2>2, <2>4 DEF Stacked
    <2>8. \A i \in 1 .. Len(values') :
              previous'[values'[i]] = IF i = 1 THEN env0' ELSE values'[i - 1]
      <3>1. SUFFICES ASSUME NEW i \in 1 .. Len(values')
                     PROVE  previous'[values'[i]] = IF i = 1 THEN env0' ELSE values'[i - 1]
        OBVIOUS
      <3>2. i = 1 \/ i - 1 \in 1 .. Len(values)
        BY <1>1, <1>2
      <3>3. CASE i \in 1 .. Len(values)
        BY <1>1, <1>2, <2>1, <2>2, <2>3, <3>2, <3>3 DEF Stacked
      <3>4. CASE i = Len(values) + 1
        <4>1. previous'[values'[i]] = env
          BY <1>2, <2>3, <3>4
        <4>2. i = 1 <=> Len(values) = 0
          BY <1>1, <3>4
        <4>3. i # 1 => values'[i - 1] = values[Len(values)]
          BY <1>1, <1>2, <3>2, <3>4
        <4> QED BY <2>1, <4>1, <4>2, <4>3 DEF Stacked
      <3> QED BY <2>4, <3>3, <3>4
    <2>9. env' = values'[Len(values')] /\ Len(values') # 0 /\ default' \in {NotYet, env0'}
      BY <1>1, <1>2, <2>1 DEF Stacked
    <2> QED BY <2>5, <2>6, <2>7, <2>8, <2>9 DEF Stacked
  <1>6. SetWhileEntered'
    <2>1. env' # Unset
      BY <1>1, NamesAssumption
    <2> QED BY <2>1 DEF TypeOK, Objects, SetWhileEntered
  <1> QED BY <1>3, <1>4, <1>5, <1>6

\* The start of destroy(): nested containers take their own default off.
LEMMA CloseIInv ==
    ASSUME IInv, NEW c \in Containers, CloseDefaults(c)
    PROVE  IInv'
  <1> USE DEF IInv, CloseDefaults, At, Pop, Front, Last, Restore, podman, guards, defaults
  <1>1. /\ values \in Seq(Containers) /\ Len(values) \in Nat
        /\ \A i \in 1 .. Len(values) : values[i] \in Containers
    BY ElementOfSeq, LenProperties DEF TypeOK
  <1>2. entered[c] => /\ values' \in Seq(Containers)
                      /\ Len(values') = IF Len(values) = 0 THEN 0 ELSE Len(values) - 1
                      /\ \A i \in 1 .. Len(values) - 1 : values'[i] = values[i]
    <2>1. \A i \in 1 .. Len(values) - 1 : values[i] \in Containers
      BY <1>1
    <2>2. Len(values) - 1 \in Int
      BY <1>1
    <2>3. LET t == SubSeq(values, 1, Len(values) - 1)
          IN /\ t \in Seq(Containers)
             /\ Len(t) = IF 1 <= Len(values) - 1 THEN Len(values) - 1 - 1 + 1 ELSE 0
             /\ \A i \in 1 .. Len(values) - 1 - 1 + 1 : t[i] = values[1 + i - 1]
      BY <2>1, <2>2, SubSeqProperties
    <2> QED BY <1>1, <2>3
  <1>3. TypeOK'
    BY <1>2 DEF TypeOK
  <1>4. Objects' /\ Guarded' /\ Live'
    BY DEF TypeOK, Objects, Guarded, Live
  <1>5. Stacked'
    <2>1. SUFFICES ASSUME nested PROVE Stacked'
      BY DEF Stacked
    <2>2. CASE ~entered[c]
      <3>1. values' = values /\ env' = env /\ entered' = entered
        BY <2>2 DEF TypeOK
      <3> QED BY <2>1, <3>1 DEF Stacked
    <2>3. CASE entered[c]
      <3> DEFINE n == Len(values)
      <3>1. n # 0 /\ n \in 1 .. n /\ c = values[n]
        BY <1>1, <2>1, <2>3 DEF Stacked
      <3>2. /\ Len(values') = n - 1
            /\ \A i \in 1 .. n - 1 : i \in 1 .. n /\ values'[i] = values[i] /\ values[i] # c
        BY <1>1, <1>2, <2>1, <2>3, <3>1 DEF Stacked
      <3>3. \A d \in Containers : d # c => entered'[d] = entered[d]
        BY DEF TypeOK
      <3>4. \A i \in 1 .. Len(values') : entered'[values'[i]]
        BY <1>1, <2>1, <3>2, <3>3 DEF Stacked
      <3>5. \A d \in Containers : entered'[d] => \E i \in 1 .. Len(values') : values'[i] = d
        <4>1. SUFFICES ASSUME NEW d \in Containers, entered'[d]
                       PROVE  \E i \in 1 .. Len(values') : values'[i] = d
          OBVIOUS
        <4>2. d # c
          BY <4>1 DEF TypeOK
        <4>3. PICK i \in 1 .. n : values[i] = d
          BY <2>1, <3>3, <4>1, <4>2 DEF Stacked
        <4>4. i \in 1 .. n - 1
          BY <1>1, <3>1, <4>2, <4>3
        <4> QED BY <3>2, <4>3, <4>4
      <3>6. \A i, j \in 1 .. Len(values') : values'[i] = values'[j] => i = j
        BY <2>1, <3>2 DEF Stacked
      <3>7. \A i \in 1 .. Len(values') :
                previous'[values'[i]] = IF i = 1 THEN env0' ELSE values'[i - 1]
        <4>1. \A i \in 1 .. n - 1 : i = 1 \/ i - 1 \in 1 .. n - 1
          BY <1>1
        <4> QED BY <2>1, <3>2, <4>1, SMTT(30) DEF Stacked
      <3>8. env' = IF Len(values') = 0 THEN env0' ELSE values'[Len(values')]
        <4>1. env' = IF n = 1 THEN env0 ELSE values[n - 1]
          BY <2>1, <2>3, <3>1 DEF Stacked
        <4>2. n # 1 => n - 1 \in 1 .. n - 1
          <5>1. \A k \in Nat : k # 0 /\ k # 1 => k - 1 \in 1 .. k - 1
            OBVIOUS
          <5> QED BY <1>1, <3>1, <5>1
        <4>3. n = 1 <=> n - 1 = 0
          BY <1>1
        <4> QED BY <3>2, <4>1, <4>2, <4>3
      <3>9. default' \in {NotYet, env0'}
        BY <2>1 DEF Stacked
      <3> QED BY <3>4, <3>5, <3>6, <3>7, <3>8, <3>9 DEF Stacked
    <2> QED BY <2>2, <2>3
  <1>6. SetWhileEntered'
    BY DEF TypeOK, SetWhileEntered
  <1> QED BY <1>3, <1>4, <1>5, <1>6

LEMMA NextIInv == IInv /\ [Next]_vars => IInv'
  <1> SUFFICES ASSUME IInv, [Next]_vars PROVE IInv'
    OBVIOUS
  <1>1. CASE UNCHANGED vars
    <2> USE <1>1 DEF vars, object, podman, guards, defaults, IInv
    <2>1. TypeOK'
      BY DEF TypeOK
    <2>2. Objects' /\ Guarded' /\ Live' /\ Stacked' /\ SetWhileEntered'
      BY DEF Objects, Guarded, Live, Stacked, SetWhileEntered
    <2> QED BY <2>1, <2>2
  <1> QED
    BY <1>1, CreateIInv, EnterIInv, CloseIInv, DestroyIInv, PodmanIInv
    DEF Next, Podman, Guards

LEMMA Inductive == Spec => []IInv
  BY InitIInv, NextIInv, PTL DEF Spec

LEMMA LastIsThere ==
    ASSUME TypeOK, values # <<>>
    PROVE  Len(values) \in Nat \ {0} /\ Last(values) \in Containers
  <1>1. Len(values) \in Nat \ {0}
    BY EmptySeq DEF TypeOK
  <1> QED BY <1>1, ElementOfSeq DEF TypeOK, Last

-----------------------------------------------------------------------------
\* LibvirtContainer enters its defaults once its socket is there, and leaves them before
\* its guard is released (container.py:61-85): of nested containers the default one runs.
THEOREM DefaultRuns == Spec => []DefaultIsLive
  <1>1. IInv => DefaultIsLive
    BY LastIsThere DEF IInv, Live, Stacked, Last, DefaultIsLive
  <1> QED BY <1>1, Inductive, PTL

\* However many containers are nested, the environment has the default that this process
\* has, and each variable is restored to what it was; and however they overlap, there is a
\* variable to restore (container.py:110-123, variable.py).
THEOREM EnvironmentAgrees == Spec => []ChildrenAgree
  <1>1. IInv => ChildrenAgree
    <2>1. ASSUME IInv PROVE values = <<>> <=> Len(values) = 0
      BY EmptySeq, LastIsThere DEF IInv
    <2> QED BY <2>1 DEF IInv, Stacked, SetWhileEntered, Last, ChildrenAgree
  <1> QED BY <1>1, Inductive, PTL

\* destroy() waits until the guard removed the container and its directory
\* (container.py:45-48, 82-87), whichever step of create() had raised.
THEOREM NothingIsLeft == Spec => []NothingLeft
  <1>1. IInv => NothingLeft
    BY DEF IInv, Objects, NothingLeft
  <1> QED BY <1>1, Inductive, PTL
=============================================================================
