-------------------------- MODULE KVMachineProofs --------------------------
(***************************************************************************)
(* What holds of KVMachine for any number of snapshots and writes.         *)
(***************************************************************************)
EXTENDS KVMachine, SequenceTheorems, TLAPS

PowerSteps == {"start", "ready", "stop", "gone", "restart"}
RevertSteps == PowerSteps \cup {"check", "restore", "restored", "boot", "drop"}

\* What each method has left to do, and what it has come to.
Creating ==
    call = "create" =>
        /\ strategy = "none"
        /\ \/ Len(todo) = 2 /\ todo[1] = "attach" /\ todo[2] = "define"
           \/ Len(todo) = 1 /\ todo[1] = "define" /\ attachments

Destroying ==
    call = "destroy" =>
        \/ Len(todo) = 3 /\ todo[1] = "delete" /\ todo[2] = "gone" /\ todo[3] = "detach"
        \/ Len(todo) = 2 /\ todo[1] = "gone" /\ todo[2] = "detach" /\ strategy = "none"
        \/ Len(todo) = 1 /\ todo[1] = "detach" /\ strategy = "none" /\ instance = "none"

Snapshotting ==
    call = "snapshot" =>
        \/ /\ Len(todo) = 4 /\ todo[1] = "note" /\ todo[2] = "snap" /\ todo[3] = "taken"
           /\ todo[4] = "took" /\ snaps[cur] = "none"
        \/ /\ Len(todo) = 3 /\ todo[1] = "snap" /\ todo[2] = "taken" /\ todo[3] = "took"
           /\ snaps[cur] = "none"
        \/ Len(todo) = 2 /\ todo[1] = "taken" /\ todo[2] = "took" /\ snaps[cur] # "none"
        \/ Len(todo) = 1 /\ todo[1] = "took" /\ snaps[cur] = "ready"

Powering ==
    call = "power" => \A i \in 1 .. Len(todo) : todo[i] \in PowerSteps

Reverting ==
    call = "revert" =>
        \A i \in 1 .. Len(todo) :
            /\ todo[i] \in RevertSteps
            /\ todo[i] = "restore" => i < Len(todo) /\ todo[i + 1] = "restored"

Left ==
    /\ call \in {"none", "raised"} <=> Len(todo) = 0
    /\ Creating /\ Destroying /\ Snapshotting /\ Powering /\ Reverting

\* A machine that is there has its attachments, and so does what is left of its instance;
\* and a restore is there until the next step removes it.
Attached ==
    /\ instance # "none" \/ strategy # "none" => attachments
    /\ strategy = "none" /\ instance # "none" => call = "destroy" /\ Len(todo) = 2
    /\ call \in {"power", "snapshot", "revert"} => strategy # "none"
    /\ \A s \in Snapshots : snaps[s] # "none" => strategy # "none" /\ call # "destroy"
    /\ restore # "none" => call = "revert" /\ Len(todo) > 0 /\ todo[1] = "restored"

\* What a snapshot has was written before its create() returned.
Earlier ==
    /\ \A s \in Snapshots : snaps[s] = "pending" => call = "snapshot" /\ cur = s
    /\ \A s \in Snapshots :
           snaps[s] # "none" /\ ~(call = "snapshot" /\ cur = s) => content[s] <= mark[s]
    /\ call = "snapshot" /\ snaps[cur] = "ready" => content[cur] <= disk

IInv == TypeOK /\ Left /\ Attached /\ Earlier

\* The type invariant without what follows from Left and Attached.
LEMMA Types ==
    TypeOK <=>
        /\ steady \in BOOLEAN
        /\ call \in {"none", "create", "destroy", "power", "snapshot", "revert", "raised"}
        /\ todo \in Seq(StepNames) /\ (call \in {"none", "raised"} => todo = <<>>)
        /\ cur \in Snapshots
        /\ poweredOn \in [Snapshots -> BOOLEAN] /\ wasUp \in [Snapshots -> BOOLEAN]
        /\ attachments \in BOOLEAN
        /\ strategy \in {"none", "always", "halted"}
        /\ instance \in {"none", "pending", "running", "ending"}
        /\ snaps \in [Snapshots -> {"none", "pending", "ready"}]
        /\ content \in [Snapshots -> 0 .. MaxWrites] /\ mark \in [Snapshots -> 0 .. MaxWrites]
        /\ disk \in 0 .. MaxWrites
        /\ restore \in {"none", "pending", "complete"} /\ (restore # "none" => call = "revert")
  BY DEF TypeOK

LEMMA InitIInv == Init => IInv
  <1> SUFFICES ASSUME Init PROVE IInv
    OBVIOUS
  <1>1. <<>> \in Seq(StepNames) /\ Len(<<>>) = 0
    BY EmptySeq
  <1>2. 0 \in 0 .. MaxWrites
    BY WritesAssumption
  <1>3. TypeOK
    BY <1>1, <1>2 DEF Init, TypeOK
  <1>4. Left /\ Attached /\ Earlier
    BY <1>1 DEF Init, Left, Creating, Destroying, Snapshotting, Powering, Reverting, Attached,
                Earlier
  <1> QED BY <1>3, <1>4 DEF IInv

LEMMA TodoFacts ==
    ASSUME TypeOK
    PROVE  /\ todo \in Seq(StepNames) /\ Len(todo) \in Nat
           /\ todo = <<>> <=> Len(todo) = 0
           /\ \A i \in 1 .. Len(todo) : todo[i] \in StepNames
           /\ todo # <<>> => /\ Head(todo) = todo[1] /\ Tail(todo) \in Seq(StepNames)
                             /\ Len(Tail(todo)) = Len(todo) - 1
                             /\ \A i \in 1 .. Len(todo) - 1 : Tail(todo)[i] = todo[i + 1]
  <1>1. todo \in Seq(StepNames)
    BY DEF TypeOK
  <1>2. Len(todo) \in Nat /\ (todo = <<>> <=> Len(todo) = 0)
    BY <1>1, EmptySeq, LenProperties
  <1>3. \A i \in 1 .. Len(todo) : todo[i] \in StepNames
    BY <1>1, ElementOfSeq
  <1>4. ASSUME todo # <<>>
        PROVE  /\ Head(todo) = todo[1] /\ Tail(todo) \in Seq(StepNames)
               /\ Len(Tail(todo)) = Len(todo) - 1
               /\ \A i \in 1 .. Len(todo) - 1 : Tail(todo)[i] = todo[i + 1]
    BY <1>1, <1>2, <1>4, HeadTailProperties
  <1> QED BY <1>1, <1>2, <1>3, <1>4

\* What is left after a step that turns into no other.
LEMMA NextStep ==
    ASSUME TypeOK, Goes, todo # <<>>, Head(todo) \notin {"check", "boot"}
    PROVE  /\ todo' \in Seq(StepNames)
           /\ Len(todo') = Len(todo) - 1
           /\ \A i \in 1 .. Len(todo) - 1 : todo'[i] = todo[i + 1]
           /\ call' = IF Len(todo) = 1 THEN "none" ELSE call
           /\ todo' = <<>> <=> Len(todo) = 1
  <1>1. todo' = Tail(todo)
    <2>1. Sub(Head(todo)) = <<>>
      BY DEF Sub
    <2>2. <<>> \o Tail(todo) = Tail(todo)
      BY TodoFacts, ConcatEmptySeq
    <2> QED BY <2>1, <2>2 DEF Goes
  <1>2. todo' = <<>> <=> Len(todo') = 0
    BY <1>1, TodoFacts, EmptySeq
  <1>3. Len(todo') = Len(todo) - 1 /\ Len(todo) \in Nat /\ (Len(todo') = 0 <=> Len(todo) = 1)
    BY <1>1, TodoFacts
  <1>4. call' = IF todo' = <<>> THEN "none" ELSE call
    BY DEF Goes
  <1>5. todo' \in Seq(StepNames) /\ \A i \in 1 .. Len(todo) - 1 : todo'[i] = todo[i + 1]
    BY <1>1, TodoFacts
  <1> QED BY <1>2, <1>3, <1>4, <1>5

\* And after one that may.
LEMMA NextSteps ==
    ASSUME TypeOK, Goes, todo # <<>>, Head(todo) \in {"check", "boot"}
    PROVE  /\ todo' \in Seq(StepNames)
           /\ todo' = <<>> <=> Len(todo') = 0
           /\ call' = IF Len(todo') = 0 THEN "none" ELSE call
           /\ \/ /\ Len(todo') = Len(todo) - 1
                 /\ \A i \in 1 .. Len(todo') : todo'[i] = todo[i + 1]
              \/ /\ Len(todo') = Len(todo) + 1
                 /\ todo'[1] \in PowerSteps /\ todo'[2] \in PowerSteps
                 /\ \A i \in 3 .. Len(todo') : todo'[i] = todo[i - 1]
  <1> DEFINE sub == Sub(Head(todo))
  <1>1. \/ sub = <<>>
        \/ sub = <<"stop", "gone">>
        \/ sub = <<"start", "ready">>
    BY DEF Sub, PowerOn, PowerOff
  <1>2. CASE sub = <<>>
    <2>1. todo' = Tail(todo)
      BY <1>2, TodoFacts, ConcatEmptySeq DEF Goes
    <2>2. todo' = <<>> <=> Len(todo') = 0
      BY <2>1, TodoFacts, EmptySeq
    <2> QED BY <2>1, <2>2, TodoFacts DEF Goes
  <1>3. CASE sub # <<>>
    <2>1. /\ sub \in Seq(StepNames) /\ Len(sub) = 2
          /\ sub[1] \in PowerSteps /\ sub[2] \in PowerSteps
      <3>1. \A a, b \in StepNames :
                /\ <<a, b>> \in Seq(StepNames) /\ Len(<<a, b>>) = 2
                /\ <<a, b>>[1] = a /\ <<a, b>>[2] = b
        OBVIOUS
      <3>2. PowerSteps \subseteq StepNames
        BY DEF StepNames, PowerSteps
      <3>3. PICK a, b \in PowerSteps : sub = <<a, b>>
        <4>1. {"stop", "gone", "start", "ready"} \subseteq PowerSteps
          BY DEF PowerSteps
        <4> QED BY <1>1, <1>3, <4>1
      <3> HIDE DEF sub
      <3> QED BY <3>1, <3>2, <3>3
    <2>2. todo' = sub \o Tail(todo)
      BY DEF Goes
    <2> HIDE DEF sub
    <2> DEFINE t == Tail(todo)
    <2>a. t \in Seq(StepNames)
      BY TodoFacts
    <2>b. /\ sub \o t \in Seq(StepNames)
          /\ Len(sub \o t) = Len(sub) + Len(t)
          /\ \A i \in 1 .. Len(sub) + Len(t) :
                 (sub \o t)[i] = IF i <= Len(sub) THEN sub[i] ELSE t[i - Len(sub)]
      <3> HIDE DEF t
      <3> QED BY <2>1, <2>a, ConcatProperties
    <2>3. /\ todo' \in Seq(StepNames)
          /\ Len(todo') = 2 + Len(t)
          /\ \A i \in 1 .. Len(todo') : todo'[i] = IF i <= 2 THEN sub[i] ELSE t[i - 2]
      <3>1. todo' = sub \o t
        BY <2>2
      <3> HIDE DEF t
      <3> QED BY <2>1, <2>b, <3>1
    <2>4. Len(todo') = Len(todo) + 1 /\ Len(todo) \in Nat \ {0}
      BY <2>3, TodoFacts
    <2>5. todo'[1] \in PowerSteps /\ todo'[2] \in PowerSteps
      BY <2>1, <2>3, <2>4
    <2>6. \A i \in 3 .. Len(todo') : todo'[i] = todo[i - 1]
      BY <2>3, <2>4, TodoFacts
    <2>7. todo' # <<>>
      BY <2>4, EmptySeq
    <2> QED BY <2>3, <2>4, <2>5, <2>6, <2>7 DEF Goes
  <1> QED BY <1>2, <1>3

\* The cluster and the guests, which leave the methods alone.
LEMMA ClusterIInv ==
    ASSUME IInv, \/ Reconcile \/ GuestEnds \/ GuestWrites \/ RestoreDisk
                 \/ \E s \in Snapshots : TakeSnapshot(s)
    PROVE  IInv'
  <1> USE DEF IInv, machine, storage, client
  <1>1. CASE Reconcile
    <2> USE <1>1 DEF Reconcile
    <2>0. /\ Len(todo) \in Nat
          /\ steady' = steady /\ call' = call /\ todo' = todo /\ cur' = cur
          /\ poweredOn' = poweredOn /\ mark' = mark /\ wasUp' = wasUp
      BY TodoFacts
    <2>1. TypeOK'
      BY <2>0, Types DEF TypeOK, Left, Attached
    <2>2. Left'
      BY <2>0, Types DEF Left, Creating, Destroying, Snapshotting, Powering, Reverting, Attached
    <2>3. Attached'
      BY <2>0, Types DEF Left, Destroying, Reverting, Attached
    <2>4. Earlier'
      BY <2>0, Types DEF Left, Attached, Earlier
    <2> QED BY <2>1, <2>2, <2>3, <2>4
  <1>2. CASE GuestEnds
    <2> USE <1>2 DEF GuestEnds, IsPoweredOn
    <2>0. /\ Len(todo) \in Nat
          /\ steady' = steady /\ call' = call /\ todo' = todo /\ cur' = cur
          /\ poweredOn' = poweredOn /\ mark' = mark /\ wasUp' = wasUp
      BY TodoFacts
    <2>1. TypeOK'
      BY <2>0, Types DEF TypeOK, Left, Attached
    <2>2. Left'
      BY <2>0, Types DEF Left, Creating, Destroying, Snapshotting, Powering, Reverting, Attached
    <2>3. Attached'
      BY <2>0, Types DEF Left, Destroying, Reverting, Attached
    <2>4. Earlier'
      BY <2>0, Types DEF Left, Attached, Earlier
    <2> QED BY <2>1, <2>2, <2>3, <2>4
  <1>3. CASE GuestWrites
    <2> USE <1>3 DEF GuestWrites, IsPoweredOn
    <2>0. /\ Len(todo) \in Nat
          /\ steady' = steady /\ call' = call /\ todo' = todo /\ cur' = cur
          /\ poweredOn' = poweredOn /\ mark' = mark /\ wasUp' = wasUp
      BY TodoFacts
    <2>1. TypeOK'
      <3>1. disk' \in 0 .. MaxWrites
        BY WritesAssumption, Types
      <3> QED BY <2>0, <3>1 DEF TypeOK
    <2>2. Left'
      BY <2>0, Types DEF Left, Creating, Destroying, Snapshotting, Powering, Reverting, Attached
    <2>3. Attached'
      BY <2>0, Types DEF Left, Destroying, Reverting, Attached
    <2>4. Earlier'
      BY <2>0, Types DEF Left, Attached, Earlier
    <2> QED BY <2>1, <2>2, <2>3, <2>4
  <1>4. CASE RestoreDisk
    <2> USE <1>4 DEF RestoreDisk
    <2>0. /\ Len(todo) \in Nat
          /\ steady' = steady /\ call' = call /\ todo' = todo /\ cur' = cur
          /\ poweredOn' = poweredOn /\ mark' = mark /\ wasUp' = wasUp
      BY TodoFacts
    <2>1. TypeOK'
      BY <2>0, Types DEF TypeOK, Left, Attached
    <2>2. Left'
      BY <2>0, Types DEF Left, Creating, Destroying, Snapshotting, Powering, Reverting, Attached
    <2>3. Attached'
      BY <2>0, Types DEF Left, Destroying, Reverting, Attached
    <2>4. Earlier'
      BY <2>0, Types DEF Left, Attached, Earlier
    <2> QED BY <2>1, <2>2, <2>3, <2>4
  <1>5. CASE \E s \in Snapshots : TakeSnapshot(s)
    <2> USE <1>5 DEF TakeSnapshot
    <2>0. /\ Len(todo) \in Nat
          /\ steady' = steady /\ call' = call /\ todo' = todo /\ cur' = cur
          /\ poweredOn' = poweredOn /\ mark' = mark /\ wasUp' = wasUp
      BY TodoFacts
    <2>1. TypeOK'
      BY <2>0, Types DEF TypeOK, Left, Attached
    <2>2. Left'
      BY <2>0, Types DEF Left, Creating, Destroying, Snapshotting, Powering, Reverting, Attached
    <2>3. Attached'
      BY <2>0, Types DEF Left, Destroying, Reverting, Attached
    <2>4. Earlier'
      BY <2>0, Types DEF Left, Attached, Earlier
    <2> QED BY <2>1, <2>2, <2>3, <2>4
  <1> QED BY <1>1, <1>2, <1>3, <1>4, <1>5

\* The step that is next says which method it is of, and how far that is.
LEMMA Where ==
    ASSUME IInv, NEW s, Does(s)
    PROVE  /\ todo # <<>> /\ Len(todo) \in Nat \ {0} /\ todo[1] = s
           /\ s \in {"attach", "define"} => call = "create"
           /\ s = "attach" => Len(todo) = 2 /\ todo[2] = "define" /\ strategy = "none"
           /\ s = "define" => Len(todo) = 1 /\ attachments
           /\ s \in {"delete", "detach"} => call = "destroy"
           /\ s = "delete" => Len(todo) = 3 /\ todo[2] = "gone" /\ todo[3] = "detach"
           /\ s = "detach" => Len(todo) = 1 /\ strategy = "none" /\ instance = "none"
           /\ s \in {"start", "ready", "stop", "restart"} => call \in {"power", "revert"}
           /\ s = "gone" => call \in {"power", "revert", "destroy"}
           /\ s = "gone" /\ call = "destroy" =>
                  Len(todo) = 2 /\ todo[2] = "detach" /\ strategy = "none"
           /\ s \in {"note", "snap", "taken", "took"} => call = "snapshot"
           /\ s = "note" => /\ Len(todo) = 4 /\ todo[2] = "snap" /\ todo[3] = "taken"
                            /\ todo[4] = "took" /\ snaps[cur] = "none"
           /\ s = "snap" => /\ Len(todo) = 3 /\ todo[2] = "taken" /\ todo[3] = "took"
                            /\ snaps[cur] = "none"
           /\ s = "taken" => Len(todo) = 2 /\ todo[2] = "took" /\ snaps[cur] # "none"
           /\ s = "took" => Len(todo) = 1 /\ snaps[cur] = "ready"
           /\ s \in {"check", "restore", "restored", "boot", "drop"} => call = "revert"
           /\ s = "restore" => 1 < Len(todo) /\ todo[2] = "restored"
  <1>1. todo # <<>> /\ Len(todo) \in Nat \ {0} /\ todo[1] = s
    BY TodoFacts DEF IInv, Does
  <1>2. call \in {"create", "destroy", "power", "snapshot", "revert"}
    BY <1>1 DEF IInv, TypeOK, Left
  <1>3. 1 \in 1 .. Len(todo)
    BY <1>1
  <1>4. CASE call = "create"
    BY <1>1, <1>4 DEF IInv, Left, Creating
  <1>5. CASE call = "destroy"
    BY <1>1, <1>5 DEF IInv, Left, Destroying
  <1>6. CASE call = "snapshot"
    BY <1>1, <1>6 DEF IInv, Left, Snapshotting
  <1>7. CASE call = "power"
    BY <1>1, <1>3, <1>7 DEF IInv, Left, Powering, PowerSteps
  <1>8. CASE call = "revert"
    <2>1. s \in RevertSteps /\ (s = "restore" => 1 < Len(todo) /\ todo[1 + 1] = "restored")
      BY <1>1, <1>3, <1>8 DEF IInv, Left, Reverting
    <2> QED BY <1>1, <1>8, <2>1 DEF RevertSteps, PowerSteps
  <1> QED BY <1>2, <1>4, <1>5, <1>6, <1>7, <1>8

\* A step that turns into no other is taken, and what is left is as the method has it.
Advances ==
    /\ todo' \in Seq(StepNames) /\ Len(todo') = Len(todo) - 1
    /\ \A i \in 1 .. Len(todo) - 1 : todo'[i] = todo[i + 1]
    /\ call' = IF Len(todo) = 1 THEN "none" ELSE call
    /\ todo' = <<>> <=> Len(todo) = 1
    /\ call' \in {"none", "raised"} <=> Len(todo') = 0
    /\ steady' = steady /\ cur' = cur /\ wasUp' = wasUp
    /\ Powering' /\ Reverting'

LEMMA Taken ==
    ASSUME IInv, NEW s \in StepNames \ {"check", "boot"}, Does(s), Goes
    PROVE  Advances
  <1>1. todo # <<>> /\ Head(todo) \notin {"check", "boot"} /\ TypeOK
    BY DEF Does, IInv
  <1>2. /\ todo' \in Seq(StepNames)
        /\ Len(todo') = Len(todo) - 1
        /\ \A i \in 1 .. Len(todo) - 1 : todo'[i] = todo[i + 1]
        /\ call' = IF Len(todo) = 1 THEN "none" ELSE call
        /\ todo' = <<>> <=> Len(todo) = 1
    BY <1>1, NextStep
  <1>3. steady' = steady /\ cur' = cur /\ wasUp' = wasUp
    BY DEF Goes
  <1>4. Len(todo) \in Nat \ {0}
    BY Where
  <1>5. Powering'
    BY <1>2, <1>4 DEF Powering, IInv, Left
  <1>6. Reverting'
    <2>1. SUFFICES ASSUME call' = "revert", NEW i \in 1 .. Len(todo')
                   PROVE  /\ todo'[i] \in RevertSteps
                          /\ todo'[i] = "restore" =>
                                 i < Len(todo') /\ todo'[i + 1] = "restored"
      BY DEF Reverting
    <2>2. i \in 1 .. Len(todo) - 1 /\ i + 1 \in 1 .. Len(todo) /\ call = "revert"
      BY <1>2, <1>4, <2>1
    <2>3. /\ todo[i + 1] \in RevertSteps
          /\ todo[i + 1] = "restore" => i + 1 < Len(todo) /\ todo[i + 1 + 1] = "restored"
      BY <2>2 DEF IInv, Left, Reverting
    <2>4. i + 1 < Len(todo) => i + 1 \in 1 .. Len(todo) - 1
      BY <1>4, <2>2
    <2> QED BY <1>2, <1>4, <2>2, <2>3, <2>4
  <1>7. call' \in {"none", "raised"} <=> Len(todo') = 0
    BY <1>1, <1>2, <1>4 DEF IInv, Left
  <1> QED BY <1>2, <1>3, <1>5, <1>6, <1>7 DEF Advances

\* Attachments, before the machine and after it.
LEMMA AttachIInv ==
    ASSUME IInv, Attach
    PROVE  IInv'
  <1>1. CASE Does("attach")
    <2>a. /\ Goes
          /\ attachments' = TRUE
          /\ poweredOn' = poweredOn /\ mark' = mark /\ strategy' = strategy
          /\ instance' = instance /\ disk' = disk /\ snaps' = snaps
          /\ content' = content /\ restore' = restore
      BY <1>1 DEF Attach, machine, storage, Does
    <2>b. "attach" \in StepNames \ {"check", "boot"}
      BY DEF StepNames
    <2>c. /\ Len(todo) \in Nat \ {0} /\ todo[1] = "attach" /\ call = "create"
          /\ Len(todo) = 2 /\ todo[2] = "define" /\ strategy = "none"
      BY <1>1, Where
    <2>d. Advances
      BY <1>1, <2>a, <2>b, Taken
    <2>1. TypeOK'
      BY <2>a, <2>c, <2>d, Types DEF IInv, Advances, TypeOK, Attached
    <2>2. Left'
      <3>1. Creating' /\ Destroying'
        BY <2>a, <2>c, <2>d DEF Advances, Creating, Destroying
      <3>2. Snapshotting'
        BY <2>a, <2>c, <2>d, Types DEF IInv, Advances, Snapshotting
      <3> QED BY <2>d, <3>1, <3>2 DEF Advances, Left
    <2>3. Attached'
      BY <2>a, <2>c, <2>d, Types DEF IInv, Advances, Attached
    <2>4. Earlier'
      BY <2>a, <2>c, <2>d, Types DEF IInv, Advances, Attached, Earlier
    <2> QED BY <2>1, <2>2, <2>3, <2>4 DEF IInv
  <1>2. CASE Does("detach")
    <2>a. /\ Goes
          /\ attachments' = FALSE
          /\ poweredOn' = poweredOn /\ mark' = mark /\ strategy' = strategy
          /\ instance' = instance /\ disk' = disk /\ snaps' = snaps
          /\ content' = content /\ restore' = restore
      BY <1>2 DEF Attach, machine, storage, Does
    <2>b. "detach" \in StepNames \ {"check", "boot"}
      BY DEF StepNames
    <2>c. /\ Len(todo) \in Nat \ {0} /\ todo[1] = "detach" /\ call = "destroy"
          /\ Len(todo) = 1 /\ strategy = "none" /\ instance = "none"
      BY <1>2, Where
    <2>d. Advances
      BY <1>2, <2>a, <2>b, Taken
    <2>1. TypeOK'
      BY <2>a, <2>c, <2>d, Types DEF IInv, Advances, TypeOK, Attached
    <2>2. Left'
      <3>1. Creating' /\ Destroying'
        BY <2>a, <2>c, <2>d DEF Advances, Creating, Destroying
      <3>2. Snapshotting'
        BY <2>a, <2>c, <2>d, Types DEF IInv, Advances, Snapshotting
      <3> QED BY <2>d, <3>1, <3>2 DEF Advances, Left
    <2>3. Attached'
      BY <2>a, <2>c, <2>d, Types DEF IInv, Advances, Attached
    <2>4. Earlier'
      BY <2>a, <2>c, <2>d, Types DEF IInv, Advances, Attached, Earlier
    <2> QED BY <2>1, <2>2, <2>3, <2>4 DEF IInv
  <1> QED BY <1>1, <1>2 DEF Attach

\* kubectl create and delete, virtctl start and stop.
LEMMA OrderIInv ==
    ASSUME IInv, Order
    PROVE  IInv'
  <1>1. CASE Does("define")
    <2>a. /\ Goes
          /\ strategy' = "always"
          /\ poweredOn' = poweredOn /\ mark' = mark /\ attachments' = attachments
          /\ instance' = instance /\ disk' = disk /\ snaps' = snaps
          /\ content' = content /\ restore' = restore
      BY <1>1 DEF Order, machine, storage, Does
    <2>b. "define" \in StepNames \ {"check", "boot"}
      BY DEF StepNames
    <2>c. /\ Len(todo) \in Nat \ {0} /\ todo[1] = "define" /\ call = "create"
          /\ Len(todo) = 1 /\ attachments
      BY <1>1, Where
    <2>d. Advances
      BY <1>1, <2>a, <2>b, Taken
    <2>1. TypeOK'
      BY <2>a, <2>c, <2>d, Types DEF IInv, Advances, TypeOK, Attached
    <2>2. Left'
      <3>1. Creating' /\ Destroying'
        BY <2>a, <2>c, <2>d DEF Advances, Creating, Destroying
      <3>2. Snapshotting'
        BY <2>a, <2>c, <2>d, Types DEF IInv, Advances, Snapshotting
      <3> QED BY <2>d, <3>1, <3>2 DEF Advances, Left
    <2>3. Attached'
      BY <2>a, <2>c, <2>d, Types DEF IInv, Advances, Attached
    <2>4. Earlier'
      BY <2>a, <2>c, <2>d, Types DEF IInv, Advances, Attached, Earlier
    <2> QED BY <2>1, <2>2, <2>3, <2>4 DEF IInv
  <1>2. CASE Does("start")
    <2>a. /\ Goes
          /\ strategy' = "always"
          /\ poweredOn' = poweredOn /\ mark' = mark /\ attachments' = attachments
          /\ instance' = instance /\ disk' = disk /\ snaps' = snaps
          /\ content' = content /\ restore' = restore
      BY <1>2 DEF Order, machine, storage, Does
    <2>b. "start" \in StepNames \ {"check", "boot"}
      BY DEF StepNames
    <2>c. Len(todo) \in Nat \ {0} /\ todo[1] = "start" /\ call \in {"power", "revert"}
      BY <1>2, Where
    <2>d. Advances
      BY <1>2, <2>a, <2>b, Taken
    <2>1. TypeOK'
      BY <2>a, <2>c, <2>d, Types DEF IInv, Advances, TypeOK, Attached
    <2>2. Left'
      <3>1. Creating' /\ Destroying'
        BY <2>a, <2>c, <2>d DEF Advances, Creating, Destroying
      <3>2. Snapshotting'
        BY <2>a, <2>c, <2>d, Types DEF IInv, Advances, Snapshotting
      <3> QED BY <2>d, <3>1, <3>2 DEF Advances, Left
    <2>3. Attached'
      BY <2>a, <2>c, <2>d, Types DEF IInv, Advances, Attached
    <2>4. Earlier'
      BY <2>a, <2>c, <2>d, Types DEF IInv, Advances, Attached, Earlier
    <2> QED BY <2>1, <2>2, <2>3, <2>4 DEF IInv
  <1>3. CASE Does("stop")
    <2>a. /\ Goes
          /\ strategy' = "halted"
          /\ poweredOn' = poweredOn /\ mark' = mark /\ attachments' = attachments
          /\ instance' = instance /\ disk' = disk /\ snaps' = snaps
          /\ content' = content /\ restore' = restore
      BY <1>3 DEF Order, machine, storage, Does
    <2>b. "stop" \in StepNames \ {"check", "boot"}
      BY DEF StepNames
    <2>c. Len(todo) \in Nat \ {0} /\ todo[1] = "stop" /\ call \in {"power", "revert"}
      BY <1>3, Where
    <2>d. Advances
      BY <1>3, <2>a, <2>b, Taken
    <2>1. TypeOK'
      BY <2>a, <2>c, <2>d, Types DEF IInv, Advances, TypeOK, Attached
    <2>2. Left'
      <3>1. Creating' /\ Destroying'
        BY <2>a, <2>c, <2>d DEF Advances, Creating, Destroying
      <3>2. Snapshotting'
        BY <2>a, <2>c, <2>d, Types DEF IInv, Advances, Snapshotting
      <3> QED BY <2>d, <3>1, <3>2 DEF Advances, Left
    <2>3. Attached'
      BY <2>a, <2>c, <2>d, Types DEF IInv, Advances, Attached
    <2>4. Earlier'
      BY <2>a, <2>c, <2>d, Types DEF IInv, Advances, Attached, Earlier
    <2> QED BY <2>1, <2>2, <2>3, <2>4 DEF IInv
  <1>4. CASE Does("delete")
    <2>a. /\ Goes
          /\ strategy' = "none"
          /\ poweredOn' = poweredOn /\ mark' = mark /\ attachments' = attachments
          /\ instance' = instance /\ disk' = disk /\ snaps' = snaps
          /\ content' = content /\ restore' = restore
      BY <1>4 DEF Order, machine, storage, Does
    <2>b. "delete" \in StepNames \ {"check", "boot"}
      BY DEF StepNames
    <2>c. /\ Len(todo) \in Nat \ {0} /\ todo[1] = "delete" /\ call = "destroy"
          /\ Len(todo) = 3 /\ todo[2] = "gone" /\ todo[3] = "detach"
      BY <1>4, Where
    <2>d. Advances
      BY <1>4, <2>a, <2>b, Taken
    <2>1. TypeOK'
      BY <2>a, <2>c, <2>d, Types DEF IInv, Advances, TypeOK, Attached
    <2>2. Left'
      <3>1. Creating' /\ Destroying'
        BY <2>a, <2>c, <2>d DEF Advances, Creating, Destroying
      <3>2. Snapshotting'
        BY <2>a, <2>c, <2>d, Types DEF IInv, Advances, Snapshotting
      <3> QED BY <2>d, <3>1, <3>2 DEF Advances, Left
    <2>3. Attached'
      BY <2>a, <2>c, <2>d, Types DEF IInv, Advances, Attached
    <2>4. Earlier'
      BY <2>a, <2>c, <2>d, Types DEF IInv, Advances, Attached, Earlier
    <2> QED BY <2>1, <2>2, <2>3, <2>4 DEF IInv
  <1> QED BY <1>1, <1>2, <1>3, <1>4 DEF Order

\* virtctl restart.
LEMMA RestartIInv ==
    ASSUME IInv, Restart
    PROVE  IInv'
  <1>1. CASE Does("restart")
    <2>a. /\ Goes
          /\ instance' = IF instance = "none" THEN "none" ELSE "ending"
          /\ poweredOn' = poweredOn /\ mark' = mark /\ attachments' = attachments
          /\ strategy' = strategy /\ disk' = disk /\ snaps' = snaps
          /\ content' = content /\ restore' = restore
      BY <1>1 DEF Restart, machine, storage, Does
    <2>b. "restart" \in StepNames \ {"check", "boot"}
      BY DEF StepNames
    <2>c. Len(todo) \in Nat \ {0} /\ todo[1] = "restart" /\ call \in {"power", "revert"}
      BY <1>1, Where
    <2>d. Advances
      BY <1>1, <2>a, <2>b, Taken
    <2>1. TypeOK'
      BY <2>a, <2>c, <2>d, Types DEF IInv, Advances, TypeOK, Attached
    <2>2. Left'
      <3>1. Creating' /\ Destroying'
        BY <2>a, <2>c, <2>d DEF Advances, Creating, Destroying
      <3>2. Snapshotting'
        BY <2>a, <2>c, <2>d, Types DEF IInv, Advances, Snapshotting
      <3> QED BY <2>d, <3>1, <3>2 DEF Advances, Left
    <2>3. Attached'
      BY <2>a, <2>c, <2>d, Types DEF IInv, Advances, Attached
    <2>4. Earlier'
      BY <2>a, <2>c, <2>d, Types DEF IInv, Advances, Attached, Earlier
    <2> QED BY <2>1, <2>2, <2>3, <2>4 DEF IInv
  <1> QED BY <1>1 DEF Restart

\* create() of a snapshot: whether the machine is on.
LEMMA NoteIInv ==
    ASSUME IInv, Note
    PROVE  IInv'
  <1>1. CASE Does("note")
    <2>a. /\ Goes
          /\ poweredOn' = [poweredOn EXCEPT ![cur] = IsPoweredOn]
          /\ mark' = mark /\ attachments' = attachments /\ strategy' = strategy
          /\ instance' = instance /\ disk' = disk /\ snaps' = snaps
          /\ content' = content /\ restore' = restore
      BY <1>1 DEF Note, machine, storage, Does
    <2>b. "note" \in StepNames \ {"check", "boot"}
      BY DEF StepNames
    <2>c. /\ Len(todo) \in Nat \ {0} /\ todo[1] = "note" /\ call = "snapshot"
          /\ Len(todo) = 4 /\ todo[2] = "snap" /\ todo[3] = "taken" /\ todo[4] = "took" /\ snaps[cur] = "none"
      BY <1>1, Where
    <2>d. Advances
      BY <1>1, <2>a, <2>b, Taken
    <2>1. TypeOK'
      <3>1. poweredOn' \in [Snapshots -> BOOLEAN]
        BY <2>a, Types DEF IInv, IsPoweredOn
      <3> QED
        BY <2>a, <2>c, <2>d, <3>1, Types DEF IInv, Advances, TypeOK, Attached
    <2>2. Left'
      <3>1. Creating' /\ Destroying'
        BY <2>a, <2>c, <2>d DEF Advances, Creating, Destroying
      <3>2. Snapshotting'
        BY <2>a, <2>c, <2>d, Types DEF IInv, Advances, Snapshotting
      <3> QED BY <2>d, <3>1, <3>2 DEF Advances, Left
    <2>3. Attached'
      BY <2>a, <2>c, <2>d, Types DEF IInv, Advances, Attached
    <2>4. Earlier'
      BY <2>a, <2>c, <2>d, Types DEF IInv, Advances, Attached, Earlier
    <2> QED BY <2>1, <2>2, <2>3, <2>4 DEF IInv
  <1> QED BY <1>1 DEF Note

\* And its end.
LEMMA TookIInv ==
    ASSUME IInv, Took
    PROVE  IInv'
  <1>1. CASE Does("took")
    <2>a. /\ Goes
          /\ mark' = [mark EXCEPT ![cur] = disk]
          /\ poweredOn' = poweredOn /\ attachments' = attachments /\ strategy' = strategy
          /\ instance' = instance /\ disk' = disk /\ snaps' = snaps
          /\ content' = content /\ restore' = restore
      BY <1>1 DEF Took, machine, storage, Does
    <2>b. "took" \in StepNames \ {"check", "boot"}
      BY DEF StepNames
    <2>c. /\ Len(todo) \in Nat \ {0} /\ todo[1] = "took" /\ call = "snapshot"
          /\ Len(todo) = 1 /\ snaps[cur] = "ready"
      BY <1>1, Where
    <2>d. Advances
      BY <1>1, <2>a, <2>b, Taken
    <2>1. TypeOK'
      <3>1. mark' \in [Snapshots -> 0 .. MaxWrites]
        BY <2>a, Types DEF IInv
      <3> QED
        BY <2>a, <2>c, <2>d, <3>1, Types DEF IInv, Advances, TypeOK, Attached
    <2>2. Left'
      <3>1. Creating' /\ Destroying'
        BY <2>a, <2>c, <2>d DEF Advances, Creating, Destroying
      <3>2. Snapshotting'
        BY <2>a, <2>c, <2>d, Types DEF IInv, Advances, Snapshotting
      <3> QED BY <2>d, <3>1, <3>2 DEF Advances, Left
    <2>3. Attached'
      BY <2>a, <2>c, <2>d, Types DEF IInv, Advances, Attached
    <2>4. Earlier'
      BY <2>a, <2>c, <2>d, Types DEF IInv, Advances, Attached, Earlier
    <2> QED BY <2>1, <2>2, <2>3, <2>4 DEF IInv
  <1> QED BY <1>1 DEF Took

\* kubectl create and delete of a snapshot.
LEMMA MakeSnapshotIInv ==
    ASSUME IInv, MakeSnapshot
    PROVE  IInv'
  <1>1. CASE Does("snap")
    <2>a. /\ Goes
          /\ snaps' = [snaps EXCEPT ![cur] = "pending"]
          /\ poweredOn' = poweredOn /\ mark' = mark /\ attachments' = attachments
          /\ strategy' = strategy /\ instance' = instance /\ disk' = disk
          /\ content' = content /\ restore' = restore
      BY <1>1 DEF MakeSnapshot, machine, storage, Does
    <2>b. "snap" \in StepNames \ {"check", "boot"}
      BY DEF StepNames
    <2>c. /\ Len(todo) \in Nat \ {0} /\ todo[1] = "snap" /\ call = "snapshot"
          /\ Len(todo) = 3 /\ todo[2] = "taken" /\ todo[3] = "took" /\ snaps[cur] = "none"
      BY <1>1, Where
    <2>d. Advances
      BY <1>1, <2>a, <2>b, Taken
    <2>1. TypeOK'
      BY <2>a, <2>c, <2>d, Types DEF IInv, Advances, TypeOK, Attached
    <2>2. Left'
      <3>1. Creating' /\ Destroying'
        BY <2>a, <2>c, <2>d DEF Advances, Creating, Destroying
      <3>2. Snapshotting'
        BY <2>a, <2>c, <2>d, Types DEF IInv, Advances, Snapshotting
      <3> QED BY <2>d, <3>1, <3>2 DEF Advances, Left
    <2>3. Attached'
      BY <2>a, <2>c, <2>d, Types DEF IInv, Advances, Attached
    <2>4. Earlier'
      BY <2>a, <2>c, <2>d, Types DEF IInv, Advances, Attached, Earlier
    <2> QED BY <2>1, <2>2, <2>3, <2>4 DEF IInv
  <1>2. CASE Does("drop")
    <2>a. /\ Goes
          /\ snaps' = [snaps EXCEPT ![cur] = "none"]
          /\ poweredOn' = poweredOn /\ mark' = mark /\ attachments' = attachments
          /\ strategy' = strategy /\ instance' = instance /\ disk' = disk
          /\ content' = content /\ restore' = restore
      BY <1>2 DEF MakeSnapshot, machine, storage, Does
    <2>b. "drop" \in StepNames \ {"check", "boot"}
      BY DEF StepNames
    <2>c. Len(todo) \in Nat \ {0} /\ todo[1] = "drop" /\ call = "revert"
      BY <1>2, Where
    <2>d. Advances
      BY <1>2, <2>a, <2>b, Taken
    <2>1. TypeOK'
      BY <2>a, <2>c, <2>d, Types DEF IInv, Advances, TypeOK, Attached
    <2>2. Left'
      <3>1. Creating' /\ Destroying'
        BY <2>a, <2>c, <2>d DEF Advances, Creating, Destroying
      <3>2. Snapshotting'
        BY <2>a, <2>c, <2>d, Types DEF IInv, Advances, Snapshotting
      <3> QED BY <2>d, <3>1, <3>2 DEF Advances, Left
    <2>3. Attached'
      BY <2>a, <2>c, <2>d, Types DEF IInv, Advances, Attached
    <2>4. Earlier'
      BY <2>a, <2>c, <2>d, Types DEF IInv, Advances, Attached, Earlier
    <2> QED BY <2>1, <2>2, <2>3, <2>4 DEF IInv
  <1> QED BY <1>1, <1>2 DEF MakeSnapshot

\* And of a restore.
LEMMA MakeRestoreIInv ==
    ASSUME IInv, MakeRestore
    PROVE  IInv'
  <1>1. CASE Does("restore")
    <2>a. /\ Goes
          /\ restore' = "pending"
          /\ poweredOn' = poweredOn /\ mark' = mark /\ attachments' = attachments
          /\ strategy' = strategy /\ instance' = instance /\ disk' = disk
          /\ snaps' = snaps /\ content' = content
      BY <1>1 DEF MakeRestore, machine, storage, Does
    <2>b. "restore" \in StepNames \ {"check", "boot"}
      BY DEF StepNames
    <2>c. /\ Len(todo) \in Nat \ {0} /\ todo[1] = "restore" /\ call = "revert"
          /\ 1 < Len(todo) /\ todo[2] = "restored"
      BY <1>1, Where
    <2>d. Advances
      BY <1>1, <2>a, <2>b, Taken
    <2>1. TypeOK'
      BY <2>a, <2>c, <2>d, Types DEF IInv, Advances, TypeOK, Attached
    <2>2. Left'
      <3>1. Creating' /\ Destroying'
        BY <2>a, <2>c, <2>d DEF Advances, Creating, Destroying
      <3>2. Snapshotting'
        BY <2>a, <2>c, <2>d, Types DEF IInv, Advances, Snapshotting
      <3> QED BY <2>d, <3>1, <3>2 DEF Advances, Left
    <2>3. Attached'
      BY <2>a, <2>c, <2>d, Types DEF IInv, Advances, Attached
    <2>4. Earlier'
      BY <2>a, <2>c, <2>d, Types DEF IInv, Advances, Attached, Earlier
    <2> QED BY <2>1, <2>2, <2>3, <2>4 DEF IInv
  <1>2. CASE Does("restored")
    <2>a. /\ Goes
          /\ restore' = "none"
          /\ poweredOn' = poweredOn /\ mark' = mark /\ attachments' = attachments
          /\ strategy' = strategy /\ instance' = instance /\ disk' = disk
          /\ snaps' = snaps /\ content' = content
      BY <1>2 DEF MakeRestore, machine, storage, Does
    <2>b. "restored" \in StepNames \ {"check", "boot"}
      BY DEF StepNames
    <2>c. Len(todo) \in Nat \ {0} /\ todo[1] = "restored" /\ call = "revert"
      BY <1>2, Where
    <2>d. Advances
      BY <1>2, <2>a, <2>b, Taken
    <2>1. TypeOK'
      BY <2>a, <2>c, <2>d, Types DEF IInv, Advances, TypeOK, Attached
    <2>2. Left'
      <3>1. Creating' /\ Destroying'
        BY <2>a, <2>c, <2>d DEF Advances, Creating, Destroying
      <3>2. Snapshotting'
        BY <2>a, <2>c, <2>d, Types DEF IInv, Advances, Snapshotting
      <3> QED BY <2>d, <3>1, <3>2 DEF Advances, Left
    <2>3. Attached'
      BY <2>a, <2>c, <2>d, Types DEF IInv, Advances, Attached
    <2>4. Earlier'
      BY <2>a, <2>c, <2>d, Types DEF IInv, Advances, Attached, Earlier
    <2> QED BY <2>1, <2>2, <2>3, <2>4 DEF IInv
  <1> QED BY <1>1, <1>2 DEF MakeRestore

\* kubectl wait.
LEMMA WaitsIInv ==
    ASSUME IInv, Waits, ~Does("check"), ~Does("boot")
    PROVE  IInv'
  <1>1. CASE Does("gone")
    <2>a. /\ Goes
          /\ instance = "none"
          /\ poweredOn' = poweredOn /\ mark' = mark /\ attachments' = attachments
          /\ strategy' = strategy /\ instance' = instance /\ disk' = disk
          /\ snaps' = snaps /\ content' = content /\ restore' = restore
      BY <1>1 DEF Waits, machine, storage, Does
    <2>b. "gone" \in StepNames \ {"check", "boot"}
      BY DEF StepNames
    <2>c. /\ Len(todo) \in Nat \ {0} /\ todo[1] = "gone" /\ call \in {"power", "revert", "destroy"}
          /\ call = "destroy" => Len(todo) = 2 /\ todo[2] = "detach" /\ strategy = "none"
      BY <1>1, Where
    <2>d. Advances
      BY <1>1, <2>a, <2>b, Taken
    <2>1. TypeOK'
      BY <2>a, <2>c, <2>d, Types DEF IInv, Advances, TypeOK, Attached
    <2>2. Left'
      <3>1. Creating' /\ Destroying'
        BY <2>a, <2>c, <2>d DEF Advances, Creating, Destroying
      <3>2. Snapshotting'
        BY <2>a, <2>c, <2>d, Types DEF IInv, Advances, Snapshotting
      <3> QED BY <2>d, <3>1, <3>2 DEF Advances, Left
    <2>3. Attached'
      BY <2>a, <2>c, <2>d, Types DEF IInv, Advances, Attached
    <2>4. Earlier'
      BY <2>a, <2>c, <2>d, Types DEF IInv, Advances, Attached, Earlier
    <2> QED BY <2>1, <2>2, <2>3, <2>4 DEF IInv
  <1>2. CASE Does("ready")
    <2>a. /\ Goes
          /\ poweredOn' = poweredOn /\ mark' = mark /\ attachments' = attachments
          /\ strategy' = strategy /\ instance' = instance /\ disk' = disk
          /\ snaps' = snaps /\ content' = content /\ restore' = restore
      BY <1>2 DEF Waits, machine, storage, Does
    <2>b. "ready" \in StepNames \ {"check", "boot"}
      BY DEF StepNames
    <2>c. Len(todo) \in Nat \ {0} /\ todo[1] = "ready" /\ call \in {"power", "revert"}
      BY <1>2, Where
    <2>d. Advances
      BY <1>2, <2>a, <2>b, Taken
    <2>1. TypeOK'
      BY <2>a, <2>c, <2>d, Types DEF IInv, Advances, TypeOK, Attached
    <2>2. Left'
      <3>1. Creating' /\ Destroying'
        BY <2>a, <2>c, <2>d DEF Advances, Creating, Destroying
      <3>2. Snapshotting'
        BY <2>a, <2>c, <2>d, Types DEF IInv, Advances, Snapshotting
      <3> QED BY <2>d, <3>1, <3>2 DEF Advances, Left
    <2>3. Attached'
      BY <2>a, <2>c, <2>d, Types DEF IInv, Advances, Attached
    <2>4. Earlier'
      BY <2>a, <2>c, <2>d, Types DEF IInv, Advances, Attached, Earlier
    <2> QED BY <2>1, <2>2, <2>3, <2>4 DEF IInv
  <1>3. CASE Does("taken")
    <2>a. /\ Goes
          /\ snaps[cur] = "ready"
          /\ poweredOn' = poweredOn /\ mark' = mark /\ attachments' = attachments
          /\ strategy' = strategy /\ instance' = instance /\ disk' = disk
          /\ snaps' = snaps /\ content' = content /\ restore' = restore
      BY <1>3 DEF Waits, machine, storage, Does
    <2>b. "taken" \in StepNames \ {"check", "boot"}
      BY DEF StepNames
    <2>c. /\ Len(todo) \in Nat \ {0} /\ todo[1] = "taken" /\ call = "snapshot"
          /\ Len(todo) = 2 /\ todo[2] = "took" /\ snaps[cur] # "none"
      BY <1>3, Where
    <2>d. Advances
      BY <1>3, <2>a, <2>b, Taken
    <2>1. TypeOK'
      BY <2>a, <2>c, <2>d, Types DEF IInv, Advances, TypeOK, Attached
    <2>2. Left'
      <3>1. Creating' /\ Destroying'
        BY <2>a, <2>c, <2>d DEF Advances, Creating, Destroying
      <3>2. Snapshotting'
        BY <2>a, <2>c, <2>d, Types DEF IInv, Advances, Snapshotting
      <3> QED BY <2>d, <3>1, <3>2 DEF Advances, Left
    <2>3. Attached'
      BY <2>a, <2>c, <2>d, Types DEF IInv, Advances, Attached
    <2>4. Earlier'
      BY <2>a, <2>c, <2>d, Types DEF IInv, Advances, Attached, Earlier
    <2> QED BY <2>1, <2>2, <2>3, <2>4 DEF IInv
  <1> QED BY <1>1, <1>2, <1>3 DEF Waits

\* Looking whether to power off, or on: what is left of a revert() has at most two more
\* steps before it.
LEMMA LooksIInv ==
    ASSUME IInv, Waits, Does("check") \/ Does("boot")
    PROVE  IInv'
  <1>1. /\ Goes /\ todo # <<>> /\ Head(todo) \in {"check", "boot"}
        /\ poweredOn' = poweredOn /\ mark' = mark /\ attachments' = attachments
        /\ strategy' = strategy /\ instance' = instance /\ disk' = disk
        /\ snaps' = snaps /\ content' = content /\ restore' = restore
        /\ steady' = steady /\ cur' = cur /\ wasUp' = wasUp
    BY DEF Waits, Does, Goes, machine, storage
  <1>2. Len(todo) \in Nat \ {0} /\ todo[1] \in {"check", "boot"} /\ call = "revert"
    BY Where
  <1>3. /\ todo' \in Seq(StepNames) /\ (todo' = <<>> <=> Len(todo') = 0)
        /\ call' = IF Len(todo') = 0 THEN "none" ELSE call
        /\ \/ /\ Len(todo') = Len(todo) - 1
              /\ \A i \in 1 .. Len(todo') : todo'[i] = todo[i + 1]
           \/ /\ Len(todo') = Len(todo) + 1
              /\ todo'[1] \in PowerSteps /\ todo'[2] \in PowerSteps
              /\ \A i \in 3 .. Len(todo') : todo'[i] = todo[i - 1]
    BY <1>1, NextSteps DEF IInv
  <1>4. restore = "none"
    BY <1>2 DEF IInv, TypeOK, Attached
  <1>5. TypeOK'
    BY <1>1, <1>2, <1>3, <1>4 DEF IInv, TypeOK
  <1>6. Reverting'
    <2>1. \A i \in 1 .. Len(todo) :
              /\ todo[i] \in RevertSteps
              /\ todo[i] = "restore" => i < Len(todo) /\ todo[i + 1] = "restored"
      BY <1>2 DEF IInv, Left, Reverting
    <2>2. CASE Len(todo') = Len(todo) - 1 /\ \A i \in 1 .. Len(todo') : todo'[i] = todo[i + 1]
      <3>1. \A i \in 1 .. Len(todo') :
                /\ i + 1 \in 1 .. Len(todo)
                /\ i + 1 < Len(todo) => i + 1 \in 1 .. Len(todo')
        BY <1>2, <2>2
      <3>2. \A i \in 1 .. Len(todo') : i + 1 < Len(todo) => i < Len(todo')
        BY <1>2, <2>2
      <3>3. ASSUME NEW i \in 1 .. Len(todo')
            PROVE  /\ todo'[i] \in RevertSteps
                   /\ todo'[i] = "restore" => i < Len(todo') /\ todo'[i + 1] = "restored"
        <4>1. PICK k \in 1 .. Len(todo) : k = i + 1
          BY <3>1
        <4>2. /\ todo[k] \in RevertSteps
              /\ todo[k] = "restore" => k < Len(todo) /\ todo[k + 1] = "restored"
          BY <2>1
        <4>3. k < Len(todo) => i < Len(todo') /\ todo'[i + 1] = todo[k + 1]
          BY <2>2, <3>1, <3>2, <4>1
        <4> QED BY <2>2, <4>1, <4>2, <4>3
      <3> QED BY <3>3 DEF Reverting
    <2>3. CASE /\ Len(todo') = Len(todo) + 1
               /\ todo'[1] \in PowerSteps /\ todo'[2] \in PowerSteps
               /\ \A i \in 3 .. Len(todo') : todo'[i] = todo[i - 1]
      <3>1. ASSUME NEW i \in 1 .. Len(todo'), i > 2
            PROVE  /\ todo'[i] \in RevertSteps
                   /\ todo'[i] = "restore" => i < Len(todo') /\ todo'[i + 1] = "restored"
        <4>1. i - 1 \in 1 .. Len(todo) /\ i \in 3 .. Len(todo')
          BY <1>2, <2>3, <3>1
        <4>2. todo'[i] = todo[i - 1]
          BY <2>3, <4>1
        <4>3. i - 1 < Len(todo) => i < Len(todo') /\ i + 1 \in 3 .. Len(todo')
          BY <1>2, <2>3, <3>1
        <4>4. i - 1 < Len(todo) => todo'[i + 1] = todo[i]
          BY <2>3, <4>3
        <4>5. PICK k \in 1 .. Len(todo) : k = i - 1
          BY <4>1
        <4>6. /\ todo[k] \in RevertSteps
              /\ todo[k] = "restore" => k < Len(todo) /\ todo[k + 1] = "restored"
          BY <2>1
        <4>7. k + 1 = i
          BY <3>1, <4>5
        <4> QED BY <4>2, <4>3, <4>4, <4>5, <4>6, <4>7
      <3>2. \A i \in 1 .. Len(todo') : i = 1 \/ i = 2 \/ i > 2
        BY <1>2, <2>3
      <3>3. PowerSteps \subseteq RevertSteps /\ "restore" \notin PowerSteps
        BY DEF PowerSteps, RevertSteps
      <3> QED BY <2>3, <3>1, <3>2, <3>3 DEF Reverting
    <2> QED BY <1>3, <2>2, <2>3
  <1>7. Left'
    <2>1. call' \in {"none", "raised"} <=> Len(todo') = 0
      BY <1>2, <1>3
    <2> QED BY <1>2, <1>3, <1>6, <2>1 DEF Left, Creating, Destroying, Snapshotting, Powering
  <1>8. Attached'
    BY <1>1, <1>2, <1>3, <1>4 DEF IInv, TypeOK, Attached
  <1>9. Earlier'
    BY <1>1, <1>2, <1>3 DEF IInv, Earlier
  <1> QED BY <1>5, <1>7, <1>8, <1>9 DEF IInv

\* virtctl start says no.
LEMMA RefusedIInv ==
    ASSUME IInv, Refused
    PROVE  IInv'
  <1>1. /\ call' = "raised" /\ todo' = <<>> /\ Len(<<>>) = 0 /\ <<>> \in Seq(StepNames)
        /\ poweredOn' = poweredOn /\ mark' = mark /\ attachments' = attachments
        /\ strategy' = strategy /\ instance' = instance /\ disk' = disk
        /\ snaps' = snaps /\ content' = content /\ restore' = restore
        /\ steady' = steady /\ cur' = cur /\ wasUp' = wasUp
    BY EmptySeq DEF Refused, machine, storage
  <1>2. todo[1] = "start" /\ call \in {"power", "revert"}
    <2>1. Does("start")
      BY DEF Refused
    <2> QED BY <2>1, Where
  <1>3. restore = "none"
    BY <1>2 DEF IInv, TypeOK, Attached
  <1>4. TypeOK'
    BY <1>1, <1>3 DEF IInv, TypeOK
  <1>5. Left'
    BY <1>1 DEF Left, Creating, Destroying, Snapshotting, Powering, Reverting
  <1>6. Attached' /\ Earlier'
    BY <1>1, <1>2, <1>3, Types DEF IInv, Attached, Earlier
  <1> QED BY <1>4, <1>5, <1>6 DEF IInv

\* The plans of the methods, as they are called.
LEMMA Plans ==
    /\ Create \in Seq(StepNames) /\ Len(Create) = 2
    /\ Create[1] = "attach" /\ Create[2] = "define"
    /\ Destroy \in Seq(StepNames) /\ Len(Destroy) = 3
    /\ Destroy[1] = "delete" /\ Destroy[2] = "gone" /\ Destroy[3] = "detach"
    /\ Snap \in Seq(StepNames) /\ Len(Snap) = 4
    /\ Snap[1] = "note" /\ Snap[2] = "snap" /\ Snap[3] = "taken" /\ Snap[4] = "took"
    /\ \A p \in {PowerOn, PowerOff, Reboot} :
           /\ p \in Seq(StepNames) /\ Len(p) \in 1 .. 2
           /\ \A i \in 1 .. Len(p) : p[i] \in PowerSteps
    /\ \A p \in {Revert, Revert \o <<"drop">>} :
           /\ p \in Seq(StepNames) /\ Len(p) \in 4 .. 5 /\ p[1] = "check"
           /\ \A i \in 1 .. Len(p) :
                  /\ p[i] \in RevertSteps
                  /\ p[i] = "restore" => i < Len(p) /\ p[i + 1] = "restored"
  <1>1. /\ Create \in Seq(StepNames) /\ Len(Create) = 2
        /\ Create[1] = "attach" /\ Create[2] = "define"
    BY DEF Create, StepNames
  <1>2. /\ Destroy \in Seq(StepNames) /\ Len(Destroy) = 3
        /\ Destroy[1] = "delete" /\ Destroy[2] = "gone" /\ Destroy[3] = "detach"
    BY DEF Destroy, StepNames
  <1>3. /\ Snap \in Seq(StepNames) /\ Len(Snap) = 4
        /\ Snap[1] = "note" /\ Snap[2] = "snap" /\ Snap[3] = "taken" /\ Snap[4] = "took"
    BY DEF Snap, StepNames
  <1>4. \A p \in {PowerOn, PowerOff, Reboot} :
            /\ p \in Seq(StepNames) /\ Len(p) \in 1 .. 2
            /\ \A i \in 1 .. Len(p) : p[i] \in PowerSteps
    <2>1. /\ PowerOn \in Seq(StepNames) /\ Len(PowerOn) = 2
          /\ \A i \in 1 .. 2 : PowerOn[i] \in PowerSteps
      BY DEF PowerOn, StepNames, PowerSteps
    <2>2. /\ PowerOff \in Seq(StepNames) /\ Len(PowerOff) = 2
          /\ \A i \in 1 .. 2 : PowerOff[i] \in PowerSteps
      BY DEF PowerOff, StepNames, PowerSteps
    <2>3. /\ Reboot \in Seq(StepNames) /\ Len(Reboot) = 1
          /\ \A i \in 1 .. 1 : Reboot[i] \in PowerSteps
      BY DEF Reboot, StepNames, PowerSteps
    <2> QED BY <2>1, <2>2, <2>3
  <1>5. \A p \in {Revert, Revert \o <<"drop">>} :
            /\ p \in Seq(StepNames) /\ Len(p) \in 4 .. 5 /\ p[1] = "check"
            /\ \A i \in 1 .. Len(p) :
                   /\ p[i] \in RevertSteps
                   /\ p[i] = "restore" => i < Len(p) /\ p[i + 1] = "restored"
    <2>1. /\ Revert \in Seq(StepNames) /\ Len(Revert) = 4
          /\ Revert[1] = "check" /\ Revert[2] = "restore" /\ Revert[3] = "restored"
          /\ Revert[4] = "boot"
      BY DEF Revert, StepNames
    <2> DEFINE p == Revert \o <<"drop">>
    <2>2. /\ p \in Seq(StepNames) /\ Len(p) = 5
          /\ p[1] = "check" /\ p[2] = "restore" /\ p[3] = "restored" /\ p[4] = "boot"
          /\ p[5] = "drop"
      <3>1. <<"drop">> \in Seq(StepNames) /\ Len(<<"drop">>) = 1 /\ <<"drop">>[1] = "drop"
        BY DEF StepNames
      <3>2. /\ p \in Seq(StepNames)
            /\ Len(p) = Len(Revert) + Len(<<"drop">>)
            /\ \A i \in 1 .. Len(Revert) + Len(<<"drop">>) :
                   p[i] = IF i <= Len(Revert) THEN Revert[i] ELSE <<"drop">>[i - Len(Revert)]
        BY <2>1, <3>1, ConcatProperties
      <3> HIDE DEF p
      <3> QED BY <2>1, <3>1, <3>2
    <2>3. \A i \in 1 .. 4 : i = 1 \/ i = 2 \/ i = 3 \/ i = 4
      OBVIOUS
    <2>4. \A i \in 1 .. 5 : i = 1 \/ i = 2 \/ i = 3 \/ i = 4 \/ i = 5
      OBVIOUS
    <2>5. \A i \in 1 .. 4 : /\ Revert[i] \in RevertSteps
                            /\ Revert[i] = "restore" => i < 4 /\ Revert[i + 1] = "restored"
      BY <2>1, <2>3 DEF RevertSteps, PowerSteps
    <2>6. \A i \in 1 .. 5 : p[i] \in RevertSteps /\ (p[i] = "restore" => i < 5 /\ p[i + 1] = "restored")
      <3> HIDE DEF p
      <3> QED BY <2>2, <2>4 DEF RevertSteps, PowerSteps
    <2>7. /\ Revert \in Seq(StepNames) /\ Len(Revert) \in 4 .. 5 /\ Revert[1] = "check"
          /\ \A i \in 1 .. Len(Revert) :
                 /\ Revert[i] \in RevertSteps
                 /\ Revert[i] = "restore" => i < Len(Revert) /\ Revert[i + 1] = "restored"
      BY <2>1, <2>5
    <2>8. /\ p \in Seq(StepNames) /\ Len(p) \in 4 .. 5 /\ p[1] = "check"
          /\ \A i \in 1 .. Len(p) :
                 /\ p[i] \in RevertSteps
                 /\ p[i] = "restore" => i < Len(p) /\ p[i + 1] = "restored"
      <3> HIDE DEF p
      <3> QED BY <2>2, <2>6
    <2> QED BY <2>7, <2>8
  <1> QED BY <1>1, <1>2, <1>3, <1>4, <1>5

\* The user calls a method.
LEMMA CallIInv ==
    ASSUME IInv, User
    PROVE  IInv'
  <1>1. /\ call = "none" /\ Len(todo) = 0 /\ todo = <<>>
        /\ steady' = steady /\ poweredOn' = poweredOn /\ mark' = mark
        /\ attachments' = attachments /\ strategy' = strategy /\ instance' = instance
        /\ disk' = disk /\ snaps' = snaps /\ content' = content /\ restore' = restore
    BY DEF User, CallCreate, CallDestroy, CallPower, CallSnapshot, CallRevert, Calls, machine,
           storage, IInv, TypeOK, Left
  <1>2. restore = "none"
    BY <1>1 DEF IInv, TypeOK
  <1>3. CASE CallCreate
    <2>1. call' = "create" /\ todo' = Create /\ cur' = cur /\ wasUp' = wasUp /\ strategy = "none"
      BY <1>3 DEF CallCreate, Calls
    <2>2. TypeOK'
      BY <1>1, <1>2, <2>1, Plans DEF IInv, TypeOK
    <2>3. Left'
      BY <1>1, <2>1, Plans DEF Left, Creating, Destroying, Snapshotting, Powering, Reverting
    <2>4. Attached' /\ Earlier'
      BY <1>1, <1>2, <2>1 DEF IInv, Attached, Earlier
    <2> QED BY <2>2, <2>3, <2>4 DEF IInv
  <1>4. CASE CallDestroy
    <2>1. /\ call' = "destroy" /\ todo' = Destroy /\ cur' = cur /\ wasUp' = wasUp
          /\ strategy # "none" /\ \A s \in Snapshots : snaps[s] = "none"
      BY <1>4 DEF CallDestroy, Calls
    <2>2. TypeOK'
      BY <1>1, <1>2, <2>1, Plans DEF IInv, TypeOK
    <2>3. Left'
      BY <1>1, <2>1, Plans DEF Left, Creating, Destroying, Snapshotting, Powering, Reverting
    <2>4. Attached' /\ Earlier'
      BY <1>1, <1>2, <2>1 DEF IInv, Attached, Earlier
    <2> QED BY <2>2, <2>3, <2>4 DEF IInv
  <1>5. CASE CallPower
    <2>1. /\ call' = "power" /\ todo' \in {PowerOn, PowerOff, Reboot}
          /\ cur' = cur /\ wasUp' = wasUp
          /\ strategy = "halted" \/ instance # "none"
      BY <1>5 DEF CallPower, Calls, IsPoweredOn
    <2>2. /\ todo' \in Seq(StepNames) /\ Len(todo') \in 1 .. 2
          /\ \A i \in 1 .. Len(todo') : todo'[i] \in PowerSteps
      BY <2>1, Plans
    <2>3. TypeOK'
      BY <1>1, <1>2, <2>1, <2>2 DEF IInv, TypeOK
    <2>4. Left'
      BY <1>1, <2>1, <2>2 DEF Left, Creating, Destroying, Snapshotting, Powering, Reverting
    <2>5. Attached' /\ Earlier'
      BY <1>1, <1>2, <2>1 DEF IInv, Attached, Earlier
    <2> QED BY <2>3, <2>4, <2>5 DEF IInv
  <1>6. CASE \E s \in Snapshots : CallSnapshot(s)
    <2>1. PICK s \in Snapshots : CallSnapshot(s)
      BY <1>6
    <2>2. /\ call' = "snapshot" /\ todo' = Snap /\ cur' = s
          /\ wasUp' = [wasUp EXCEPT ![s] = strategy = "always"]
          /\ strategy # "none" /\ snaps[s] = "none"
      BY <2>1 DEF CallSnapshot, Calls
    <2>3. TypeOK'
      <3>1. wasUp' \in [Snapshots -> BOOLEAN]
        BY <2>2, Types DEF IInv
      <3> QED BY <1>1, <1>2, <2>2, <3>1, Plans, SMTT(30) DEF IInv, TypeOK
    <2>4. Left'
      BY <1>1, <2>2, Plans DEF Left, Creating, Destroying, Snapshotting, Powering, Reverting
    <2>5. Attached' /\ Earlier'
      BY <1>1, <1>2, <2>2 DEF IInv, Attached, Earlier
    <2> QED BY <2>3, <2>4, <2>5 DEF IInv
  <1>7. CASE \E s \in Snapshots : CallRevert(s)
    <2>1. PICK s \in Snapshots : CallRevert(s)
      BY <1>7
    <2>2. /\ call' = "revert" /\ todo' \in {Revert, Revert \o <<"drop">>}
          /\ cur' = s /\ wasUp' = wasUp /\ snaps[s] # "none"
      BY <2>1 DEF CallRevert, Calls
    <2>3. /\ todo' \in Seq(StepNames) /\ Len(todo') \in 4 .. 5
          /\ \A i \in 1 .. Len(todo') :
                 /\ todo'[i] \in RevertSteps
                 /\ todo'[i] = "restore" => i < Len(todo') /\ todo'[i + 1] = "restored"
      BY <2>2, Plans
    <2>4. TypeOK'
      BY <1>1, <1>2, <2>2, <2>3 DEF IInv, TypeOK
    <2>5. Left'
      BY <1>1, <2>2, <2>3 DEF Left, Creating, Destroying, Snapshotting, Powering, Reverting
    <2>6. Attached' /\ Earlier'
      BY <1>1, <1>2, <2>2 DEF IInv, Attached, Earlier
    <2> QED BY <2>4, <2>5, <2>6 DEF IInv
  <1> QED BY <1>3, <1>4, <1>5, <1>6, <1>7 DEF User

LEMMA NextIInv == IInv /\ [Next]_vars => IInv'
  <1> SUFFICES ASSUME IInv, [Next]_vars PROVE IInv'
    OBVIOUS
  <1>1. CASE UNCHANGED vars
    <2> USE <1>1 DEF vars, client, machine, storage, IInv
    <2>1. TypeOK' /\ Left'
      BY DEF TypeOK, Left, Creating, Destroying, Snapshotting, Powering, Reverting
    <2>2. Attached' /\ Earlier'
      BY DEF Attached, Earlier
    <2> QED BY <2>1, <2>2
  <1>2. CASE User
    BY <1>2, CallIInv
  <1>3. CASE Step
    <2>1. CASE Waits
      BY <2>1, WaitsIInv, LooksIInv
    <2> QED
      BY <1>3, <2>1, AttachIInv, OrderIInv, RefusedIInv, RestartIInv, NoteIInv, TookIInv,
         MakeSnapshotIInv, MakeRestoreIInv
      DEF Step
  <1>4. CASE Cluster \/ GuestEnds \/ GuestWrites
    BY <1>4, ClusterIInv DEF Cluster
  <1> QED BY <1>1, <1>2, <1>3, <1>4 DEF Next

LEMMA Inductive == Spec => []IInv
  BY InitIInv, NextIInv, PTL DEF Spec

-----------------------------------------------------------------------------
\* A KubeVirt machine's attachments and hooks are there while its instance is, whatever
\* ends or restarts it meanwhile: create() makes them first, destroy() removes them once
\* the instance is gone (machine.py:114-129).
THEOREM AlwaysAttached == Spec => []AttachedWhileUp
  <1>1. IInv => AttachedWhileUp
    BY DEF IInv, Attached, AttachedWhileUp
  <1> QED BY <1>1, Inductive, PTL

\* KVSnapshot.create (machine.py:35-52) waits until its snapshot is taken: what is written once it returned
\* isn't in it, however many snapshots there are, and whatever is restored in between.
THEOREM NothingLaterIsTaken == Spec => []NothingLater
  <1>1. IInv => NothingLater
    BY Types DEF IInv, Earlier, NothingLater
  <1> QED BY <1>1, Inductive, PTL

-----------------------------------------------------------------------------
\* A steady machine is reverted as it was.

\* What comes after what in what revert() has left, and what may come last.
Follows(v, w) ==
    \/ v \in {"check", "gone"} /\ w = "restore"
    \/ v = "stop" /\ w = "gone"
    \/ v = "restore" /\ w = "restored"
    \/ v = "restored" /\ w = "boot"
    \/ v = "start" /\ w = "ready"
    \/ v \in {"boot", "ready"} /\ w = "drop"

InTurn ==
    call = "revert" =>
        /\ \A i \in 1 .. Len(todo) - 1 : Follows(todo[i], todo[i + 1])
        /\ todo[Len(todo)] \in {"boot", "ready", "drop"}
        /\ snaps[cur] # "none"

Off == strategy = "halted" /\ instance = "none"
Up == strategy = "always" /\ instance = "running"

\* A snapshot remembers whether its machine was to run, and a machine that isn't to run
\* doesn't, once a method returned.
Remembered ==
    /\ \A s \in Snapshots : snaps[s] # "none" => poweredOn[s] = wasUp[s]
    /\ call = "none" /\ strategy = "halted" => instance = "none"

\* The machine stays as it is while its snapshot is taken.
Snapped ==
    call = "snapshot" =>
        /\ IF wasUp[cur] THEN Up ELSE Off
        /\ Len(todo) <= 3 => poweredOn[cur] = wasUp[cur]

\* The power methods: the machine runs when they are to stop or restart it.
Switching ==
    call = "power" =>
        \/ Len(todo) = 2 /\ todo[1] = "start" /\ todo[2] = "ready" /\ strategy = "halted"
        \/ Len(todo) = 1 /\ todo[1] = "ready" /\ strategy = "always"
        \/ Len(todo) = 2 /\ todo[1] = "stop" /\ todo[2] = "gone"
        \/ Len(todo) = 1 /\ todo[1] = "gone" /\ strategy = "halted"
        \/ Len(todo) = 1 /\ todo[1] = "restart" /\ strategy = "always"

\* revert() stops what runs, and starts it if it ran when the snapshot was taken.
RevertedTo ==
    call = "revert" =>
        /\ todo[1] = "check" => Up \/ Off
        /\ todo[1] = "gone" => strategy = "halted"
        /\ todo[1] \in {"restore", "restored", "boot"} => Off
        /\ todo[1] = "start" => Off /\ poweredOn[cur]
        /\ todo[1] = "ready" => strategy = "always" /\ poweredOn[cur]
        /\ todo[1] = "drop" => IF poweredOn[cur] THEN strategy = "always" ELSE Off

Steadily == steady => Remembered /\ Snapped /\ Switching /\ RevertedTo

SInv == InTurn /\ Steadily

\* Whether it's to stop, or to start, its machine.
Branches ==
    \/ todo[1] = "check" /\ IsPoweredOn
    \/ todo[1] = "boot" /\ poweredOn[cur]

\* What is left once revert() looked whether to stop, or start, its machine.
LEMMA Looked ==
    ASSUME TypeOK, Goes, todo # <<>>, Head(todo) \in {"check", "boot"}
    PROVE  IF Branches
           THEN /\ Len(todo') = Len(todo) + 1
                /\ todo'[1] = (IF todo[1] = "check" THEN "stop" ELSE "start")
                /\ todo'[2] = (IF todo[1] = "check" THEN "gone" ELSE "ready")
                /\ \A i \in 3 .. Len(todo') : todo'[i] = todo[i - 1]
           ELSE /\ Len(todo') = Len(todo) - 1
                /\ \A i \in 1 .. Len(todo') : todo'[i] = todo[i + 1]
  <1> DEFINE sub == Sub(Head(todo))
  <1>1. todo[1] = Head(todo) /\ Len(todo) \in Nat \ {0}
    BY TodoFacts
  <1>2. CASE sub = <<>>
    <2>1. todo' = Tail(todo)
      BY <1>2, TodoFacts, ConcatEmptySeq DEF Goes
    <2>2. /\ Head(todo) = "check" => ~IsPoweredOn
          /\ Head(todo) = "boot" => ~poweredOn[cur]
      <3>1. <<"stop", "gone">> # <<>> /\ <<"start", "ready">> # <<>>
        OBVIOUS
      <3> QED BY <1>2, <3>1 DEF Sub, AsItWas, PowerOn, PowerOff
    <2> QED BY <1>1, <2>1, <2>2, TodoFacts DEF Branches
  <1>3. CASE sub # <<>>
    <2>1. \/ todo[1] = "check" /\ IsPoweredOn /\ sub = <<"stop", "gone">>
          \/ todo[1] = "boot" /\ poweredOn[cur] /\ sub = <<"start", "ready">>
      BY <1>1, <1>3 DEF Sub, AsItWas, PowerOn, PowerOff
    <2>2. /\ sub \in Seq(StepNames) /\ Len(sub) = 2
          /\ sub[1] = IF todo[1] = "check" THEN "stop" ELSE "start"
          /\ sub[2] = IF todo[1] = "check" THEN "gone" ELSE "ready"
      <3>1. \A a, b \in StepNames :
                /\ <<a, b>> \in Seq(StepNames) /\ Len(<<a, b>>) = 2
                /\ <<a, b>>[1] = a /\ <<a, b>>[2] = b
        OBVIOUS
      <3>2. {"stop", "gone", "start", "ready"} \subseteq StepNames
        BY DEF StepNames
      <3> HIDE DEF sub
      <3> QED BY <2>1, <3>1, <3>2
    <2>3. todo' = sub \o Tail(todo)
      BY DEF Goes
    <2> HIDE DEF sub
    <2> DEFINE t == Tail(todo)
    <2>4. t \in Seq(StepNames) /\ Len(t) = Len(todo) - 1
          /\ \A i \in 1 .. Len(todo) - 1 : t[i] = todo[i + 1]
      BY TodoFacts
    <2>5. /\ Len(sub \o t) = Len(sub) + Len(t)
          /\ \A i \in 1 .. Len(sub) + Len(t) :
                 (sub \o t)[i] = IF i <= Len(sub) THEN sub[i] ELSE t[i - Len(sub)]
      <3> HIDE DEF t
      <3> QED BY <2>2, <2>4, ConcatProperties
    <2>6. /\ Len(todo') = Len(todo) + 1
          /\ \A i \in 1 .. Len(todo) + 1 : todo'[i] = IF i <= 2 THEN sub[i] ELSE t[i - 2]
      <3>1. todo' = sub \o t
        BY <2>3
      <3> HIDE DEF t
      <3> QED BY <1>1, <2>2, <2>4, <2>5, <3>1
    <2>7. todo'[1] = sub[1] /\ todo'[2] = sub[2]
      BY <1>1, <2>6
    <2>8. ASSUME NEW i \in 3 .. Len(todo')
          PROVE  todo'[i] = todo[i - 1]
      <3>1. i \in 1 .. Len(todo) + 1 /\ ~(i <= 2) /\ i - 2 \in 1 .. Len(todo) - 1
        BY <1>1, <2>6
      <3>2. todo'[i] = t[i - 2] /\ t[i - 2] = todo[i - 2 + 1]
        BY <2>4, <2>6, <3>1
      <3> QED BY <3>1, <3>2
    <2> QED BY <2>1, <2>2, <2>6, <2>7, <2>8 DEF Branches
  <1> QED BY <1>2, <1>3

\* What comes next in revert(), and what last.
LEMMA Nexts ==
    ASSUME IInv, InTurn, call = "revert"
    PROVE  /\ Len(todo) \in Nat \ {0} /\ todo[1] \in RevertSteps \ {"restart"}
           /\ Len(todo) = 1 => todo[1] \in {"boot", "ready", "drop"}
           /\ Len(todo) > 1 => Follows(todo[1], todo[2])
           /\ todo[1] = "drop" => Len(todo) = 1
  <1>1. Len(todo) \in Nat \ {0}
    BY TodoFacts DEF IInv, Left
  <1>2. 1 \in 1 .. Len(todo) /\ todo[1] \in RevertSteps
    BY <1>1 DEF IInv, Left, Reverting
  <1>3. Len(todo) > 1 => Follows(todo[1], todo[2])
    <2>1. Len(todo) > 1 => 1 \in 1 .. Len(todo) - 1
      BY <1>1
    <2> QED BY <2>1 DEF InTurn
  <1>4. Len(todo) = 1 => todo[1] \in {"boot", "ready", "drop"}
    BY DEF InTurn
  <1>5. Len(todo) = 1 \/ Len(todo) > 1
    <2>1. \A n \in Nat \ {0} : n = 1 \/ n > 1
      OBVIOUS
    <2> QED BY <1>1, <2>1
  <1>6. todo[1] # "restart" /\ (todo[1] = "drop" => Len(todo) = 1)
    BY <1>3, <1>4, <1>5 DEF Follows
  <1> QED BY <1>1, <1>2, <1>3, <1>4, <1>6

\* The turns go on as a step is taken.
LEMMA TurnsOn ==
    ASSUME IInv, InTurn, Advances, call = "revert" /\ Len(todo) > 1 => snaps'[cur] # "none"
    PROVE  InTurn'
  <1> SUFFICES ASSUME call' = "revert"
               PROVE  /\ \A i \in 1 .. Len(todo') - 1 : Follows(todo'[i], todo'[i + 1])
                      /\ todo'[Len(todo')] \in {"boot", "ready", "drop"}
                      /\ snaps'[cur'] # "none"
    BY DEF InTurn
  <1>1. call = "revert" /\ Len(todo) # 1 /\ Len(todo) \in Nat /\ cur' = cur
        /\ Len(todo') = Len(todo) - 1
    BY TodoFacts DEF Advances, IInv
  <1>2. Len(todo) > 1
    BY <1>1, Nexts
  <1>3. todo'[Len(todo')] = todo[Len(todo)]
    <2>1. Len(todo) - 1 \in 1 .. Len(todo) - 1 /\ Len(todo) - 1 + 1 = Len(todo)
      BY <1>1, <1>2
    <2> QED BY <1>1, <2>1 DEF Advances
  <1>4. ASSUME NEW i \in 1 .. Len(todo') - 1
        PROVE  Follows(todo'[i], todo'[i + 1])
    <2>1. i \in 1 .. Len(todo) - 1 /\ i + 1 \in 1 .. Len(todo) - 1
      BY <1>1
    <2>2. todo'[i] = todo[i + 1] /\ todo'[i + 1] = todo[i + 1 + 1]
      BY <2>1 DEF Advances
    <2> QED BY <1>1, <2>1, <2>2 DEF InTurn
  <1> QED BY <1>1, <1>2, <1>3, <1>4 DEF InTurn

\* The cluster and the guests: what is to run runs, what isn't doesn't.
LEMMA ClusterSInv ==
    ASSUME IInv, SInv, \/ Reconcile \/ GuestEnds \/ GuestWrites \/ RestoreDisk
                       \/ \E s \in Snapshots : TakeSnapshot(s)
    PROVE  SInv'
  <1>1. /\ steady' = steady /\ call' = call /\ todo' = todo /\ cur' = cur
        /\ poweredOn' = poweredOn /\ wasUp' = wasUp /\ strategy' = strategy
    BY DEF Reconcile, GuestEnds, GuestWrites, RestoreDisk, TakeSnapshot, client, machine, storage
  <1>2. \A s \in Snapshots : snaps'[s] # "none" <=> snaps[s] # "none"
    BY Types DEF IInv, Reconcile, GuestEnds, GuestWrites, RestoreDisk, TakeSnapshot, storage
  <1>3. cur \in Snapshots
    BY DEF IInv, TypeOK
  <1>4. InTurn'
    BY <1>1, <1>2, <1>3 DEF SInv, InTurn
  <1>5. steady => (Off => instance' = "none") /\ (Up => instance' = "running")
    BY DEF Reconcile, GuestEnds, GuestWrites, RestoreDisk, TakeSnapshot, client, machine, storage,
           Off, Up
  <1>6. ASSUME steady PROVE Remembered' /\ Snapped' /\ Switching' /\ RevertedTo'
    <2>1. Remembered' /\ Snapped'
      BY <1>1, <1>2, <1>5, <1>6 DEF SInv, Steadily, Remembered, Snapped, Off, Up
    <2>2. Switching'
      BY <1>1, <1>6 DEF SInv, Steadily, Switching
    <2>3. RevertedTo'
      BY <1>1, <1>5, <1>6 DEF SInv, Steadily, RevertedTo, Off, Up
    <2> QED BY <2>1, <2>2, <2>3
  <1> QED BY <1>1, <1>4, <1>6 DEF SInv, Steadily

\* The plan of a revert() is in turn.
LEMMA RevertPlans ==
    \A p \in {Revert, Revert \o <<"drop">>} :
        /\ Len(p) \in 4 .. 5 /\ p[1] = "check"
        /\ \A i \in 1 .. Len(p) - 1 : Follows(p[i], p[i + 1])
        /\ p[Len(p)] \in {"boot", "drop"}
  <1> DEFINE p == Revert \o <<"drop">>
  <1>1. /\ Revert \in Seq(StepNames) /\ Len(Revert) = 4
        /\ Revert[1] = "check" /\ Revert[2] = "restore" /\ Revert[3] = "restored"
        /\ Revert[4] = "boot"
    BY DEF Revert, StepNames
  <1>2. /\ Len(p) = 5
        /\ p[1] = "check" /\ p[2] = "restore" /\ p[3] = "restored" /\ p[4] = "boot"
        /\ p[5] = "drop"
    <2>1. <<"drop">> \in Seq(StepNames) /\ Len(<<"drop">>) = 1 /\ <<"drop">>[1] = "drop"
      BY DEF StepNames
    <2>2. /\ Len(p) = Len(Revert) + Len(<<"drop">>)
          /\ \A i \in 1 .. Len(Revert) + Len(<<"drop">>) :
                 p[i] = IF i <= Len(Revert) THEN Revert[i] ELSE <<"drop">>[i - Len(Revert)]
      BY <1>1, <2>1, ConcatProperties
    <2> HIDE DEF p
    <2> QED BY <1>1, <2>1, <2>2
  <1>3. \A i \in 1 .. 3 : i = 1 \/ i = 2 \/ i = 3
    OBVIOUS
  <1>4. \A i \in 1 .. 4 : i = 1 \/ i = 2 \/ i = 3 \/ i = 4
    OBVIOUS
  <1>5. \A i \in 1 .. 3 : Follows(Revert[i], Revert[i + 1])
    BY <1>1, <1>3 DEF Follows
  <1> HIDE DEF p
  <1>6. \A i \in 1 .. 4 : Follows(p[i], p[i + 1])
    BY <1>2, <1>4 DEF Follows
  <1>7. /\ Len(Revert) \in 4 .. 5 /\ Revert[1] = "check"
        /\ \A i \in 1 .. Len(Revert) - 1 : Follows(Revert[i], Revert[i + 1])
        /\ Revert[Len(Revert)] \in {"boot", "drop"}
    BY <1>1, <1>5
  <1>8. /\ Len(p) \in 4 .. 5 /\ p[1] = "check"
        /\ \A i \in 1 .. Len(p) - 1 : Follows(p[i], p[i + 1])
        /\ p[Len(p)] \in {"boot", "drop"}
    BY <1>2, <1>6
  <1> QED BY <1>7, <1>8 DEF p

\* The user calls a method of a machine that runs if it's to run.
LEMMA CallSInv ==
    ASSUME IInv, SInv, User
    PROVE  SInv'
  <1>1. /\ call = "none" /\ steady' = steady /\ poweredOn' = poweredOn
        /\ strategy' = strategy /\ instance' = instance /\ snaps' = snaps
    BY DEF User, CallCreate, CallDestroy, CallPower, CallSnapshot, CallRevert, Calls, machine,
           storage
  <1>2. strategy \in {"none", "always", "halted"} /\ cur \in Snapshots
        /\ wasUp \in [Snapshots -> BOOLEAN] /\ snaps \in [Snapshots -> {"none", "pending", "ready"}]
    BY Types DEF IInv
  <1>3. steady /\ strategy = "halted" => Off
    BY <1>1 DEF SInv, Steadily, Remembered, Off
  <1>4. steady => \A s \in Snapshots : snaps[s] # "none" => poweredOn[s] = wasUp[s]
    BY DEF SInv, Steadily, Remembered
  <1>5. CASE CallCreate \/ CallDestroy
    <2>1. call' \in {"create", "destroy"} /\ wasUp' = wasUp
      BY <1>5 DEF CallCreate, CallDestroy, Calls
    <2> QED BY <1>1, <1>4, <2>1 DEF SInv, InTurn, Steadily, Remembered, Snapped, Switching, RevertedTo
  <1>6. CASE CallPower
    <2>1. call' = "power" /\ wasUp' = wasUp
      BY <1>6 DEF CallPower, Calls
    <2>2. steady /\ instance = "running" => strategy = "always"
      BY <1>1, <1>2, <1>3 DEF IInv, Attached, Off
    <2>3. steady => Switching'
      <3>1. /\ Len(PowerOn) = 2 /\ PowerOn[1] = "start" /\ PowerOn[2] = "ready"
            /\ Len(PowerOff) = 2 /\ PowerOff[1] = "stop" /\ PowerOff[2] = "gone"
            /\ Len(Reboot) = 1 /\ Reboot[1] = "restart"
        BY DEF PowerOn, PowerOff, Reboot
      <3>2. \/ strategy = "halted" /\ todo' = PowerOn
            \/ instance = "running" /\ todo' \in {PowerOff, Reboot}
        BY <1>6 DEF CallPower, Calls, IsPoweredOn
      <3> QED BY <1>1, <2>2, <3>1, <3>2 DEF Switching
    <2> QED BY <1>1, <1>4, <2>1, <2>3 DEF SInv, InTurn, Steadily, Remembered, Snapped, RevertedTo
  <1>7. CASE \E s \in Snapshots : CallSnapshot(s)
    <2>1. PICK s \in Snapshots : CallSnapshot(s)
      BY <1>7
    <2>2. /\ call' = "snapshot" /\ todo' = Snap /\ cur' = s /\ snaps[s] = "none"
          /\ wasUp' = [wasUp EXCEPT ![s] = strategy = "always"]
          /\ strategy # "none" /\ Settled
      BY <2>1 DEF CallSnapshot, Calls
    <2>3. wasUp'[s] = (strategy = "always") /\ \A r \in Snapshots \ {s} : wasUp'[r] = wasUp[r]
      BY <1>2, <2>2
    <2>4. steady => IF strategy = "always" THEN Up ELSE Off
      BY <1>2, <1>3, <2>2 DEF Settled, Up
    <2>5. steady => Snapped'
      <3>1. Len(todo') = 4
        BY <2>2, Plans
      <3>2. steady => IF wasUp'[s] THEN Up' ELSE Off'
        BY <1>1, <2>3, <2>4 DEF Up, Off
      <3> QED BY <2>2, <3>1, <3>2 DEF Snapped
    <2>6. steady => Remembered'
      BY <1>1, <1>4, <2>2, <2>3 DEF Remembered
    <2> QED BY <1>1, <2>2, <2>5, <2>6 DEF SInv, InTurn, Steadily, Switching, RevertedTo
  <1>8. CASE \E s \in Snapshots : CallRevert(s)
    <2>1. PICK s \in Snapshots : CallRevert(s)
      BY <1>8
    <2>2. /\ call' = "revert" /\ todo' \in {Revert, Revert \o <<"drop">>}
          /\ cur' = s /\ wasUp' = wasUp /\ snaps[s] # "none" /\ Settled
      BY <2>1 DEF CallRevert, Calls
    <2>3. InTurn'
      BY <1>1, <2>2, RevertPlans DEF InTurn
    <2>4. steady => RevertedTo'
      <3>1. todo'[1] = "check"
        BY <2>2, RevertPlans
      <3>2. strategy # "none"
        BY <2>2 DEF IInv, Attached
      <3>3. steady => Up' \/ Off'
        BY <1>1, <1>2, <1>3, <2>2, <3>2 DEF Settled, Up, Off
      <3> QED BY <3>1, <3>3 DEF RevertedTo
    <2> QED BY <1>1, <1>4, <2>2, <2>3, <2>4 DEF SInv, Steadily, Remembered, Snapped, Switching
  <1> QED BY <1>5, <1>6, <1>7, <1>8 DEF User

\* Looking whether to stop the machine, or start it.
LEMMA LooksSInv ==
    ASSUME IInv, SInv, Waits, Does("check") \/ Does("boot")
    PROVE  SInv'
  <1>1. /\ Goes /\ todo # <<>> /\ Head(todo) \in {"check", "boot"}
        /\ poweredOn' = poweredOn /\ strategy' = strategy /\ instance' = instance
        /\ snaps' = snaps /\ steady' = steady /\ cur' = cur /\ wasUp' = wasUp
    BY DEF Waits, Does, Goes, machine, storage
  <1>2. Len(todo) \in Nat \ {0} /\ todo[1] \in {"check", "boot"} /\ call = "revert"
    BY Where
  <1>3. call' = IF Len(todo') = 0 THEN "none" ELSE call
    BY <1>1, NextSteps DEF IInv
  <1>4. /\ Len(todo) = 1 => todo[1] = "boot"
        /\ Len(todo) > 1 => todo[2] = (IF todo[1] = "check" THEN "restore" ELSE "drop")
    BY <1>2, Nexts DEF SInv, Follows
  <1>5. /\ \A i \in 1 .. Len(todo) - 1 : Follows(todo[i], todo[i + 1])
        /\ todo[Len(todo)] \in {"boot", "ready", "drop"} /\ snaps[cur] # "none"
    BY <1>2 DEF SInv, InTurn
  <1>6. CASE Branches
    <2>1. /\ Len(todo') = Len(todo) + 1
          /\ todo'[1] = (IF todo[1] = "check" THEN "stop" ELSE "start")
          /\ todo'[2] = (IF todo[1] = "check" THEN "gone" ELSE "ready")
          /\ \A i \in 3 .. Len(todo') : todo'[i] = todo[i - 1]
      BY <1>1, <1>6, Looked DEF IInv
    <2>2. call' = "revert"
      BY <1>2, <1>3, <2>1
    <2>3. ASSUME NEW i \in 1 .. Len(todo') - 1
          PROVE  Follows(todo'[i], todo'[i + 1])
      <3>1. i = 1 \/ i = 2 \/ i \in 3 .. Len(todo') - 1
        BY <1>2, <2>1
      <3>2. CASE i = 1
        BY <2>1, <3>2 DEF Follows
      <3>3. CASE i = 2
        <4>1. Len(todo) > 1 /\ 3 \in 3 .. Len(todo')
          BY <1>2, <2>1, <3>3
        <4>2. todo'[3] = todo[2]
          BY <2>1, <4>1
        <4> QED BY <1>2, <1>4, <2>1, <3>3, <4>1, <4>2 DEF Follows
      <3>4. CASE i \in 3 .. Len(todo') - 1
        <4>1. i \in 3 .. Len(todo') /\ i + 1 \in 3 .. Len(todo') /\ i - 1 \in 1 .. Len(todo) - 1
          BY <1>2, <2>1, <3>4
        <4>2. todo'[i] = todo[i - 1] /\ todo'[i + 1] = todo[i - 1 + 1]
          BY <2>1, <4>1
        <4> QED BY <1>5, <4>1, <4>2
      <3> QED BY <3>1, <3>2, <3>3, <3>4
    <2>4. todo'[Len(todo')] \in {"boot", "ready", "drop"}
      <3>1. CASE Len(todo) = 1
        BY <1>4, <2>1, <3>1
      <3>2. CASE Len(todo) > 1
        BY <1>2, <1>5, <2>1, <3>2
      <3> QED BY <1>2, <3>1, <3>2
    <2>5. InTurn'
      BY <1>1, <1>5, <2>3, <2>4 DEF InTurn
    <2>6. steady => RevertedTo'
      BY <1>1, <1>2, <1>6, <2>1 DEF SInv, Steadily, RevertedTo, Off, Branches
    <2> QED
      BY <1>1, <2>2, <2>5, <2>6 DEF SInv, Steadily, Remembered, Snapped, Switching
  <1>7. CASE ~Branches
    <2>1. /\ Len(todo') = Len(todo) - 1
          /\ \A i \in 1 .. Len(todo') : todo'[i] = todo[i + 1]
      BY <1>1, <1>7, Looked DEF IInv
    <2>2. Off \/ ~steady
      BY <1>2, <1>7 DEF SInv, Steadily, RevertedTo, Up, IsPoweredOn, Branches
    <2>3. InTurn'
      <3>1. SUFFICES ASSUME Len(todo') # 0
                     PROVE  /\ \A i \in 1 .. Len(todo') - 1 : Follows(todo'[i], todo'[i + 1])
                            /\ todo'[Len(todo')] \in {"boot", "ready", "drop"}
        BY <1>1, <1>3, <1>5 DEF InTurn
      <3>2. ASSUME NEW i \in 1 .. Len(todo') - 1
            PROVE  Follows(todo'[i], todo'[i + 1])
        <4>1. i \in 1 .. Len(todo') /\ i + 1 \in 1 .. Len(todo') /\ i + 1 \in 1 .. Len(todo) - 1
          BY <1>2, <2>1
        <4> QED BY <1>5, <2>1, <4>1
      <3> QED BY <1>2, <1>5, <2>1, <3>1, <3>2
    <2>4. steady => RevertedTo'
      <3>1. CASE Len(todo) = 1
        BY <1>3, <2>1, <3>1 DEF RevertedTo
      <3>2. CASE Len(todo) > 1
        <4>1. todo'[1] = todo[2]
          BY <1>2, <2>1, <3>2
        <4> QED BY <1>1, <1>2, <1>4, <1>7, <2>2, <3>2, <4>1 DEF RevertedTo, Off, Branches
      <3>3. \A n \in Nat \ {0} : n = 1 \/ n > 1
        OBVIOUS
      <3> QED BY <1>2, <3>1, <3>2, <3>3
    <2>5. steady => Remembered'
      BY <1>1, <2>2 DEF SInv, Steadily, Remembered, Off
    <2> QED
      BY <1>1, <1>2, <1>3, <2>3, <2>4, <2>5 DEF SInv, Steadily, Snapped, Switching
  <1> QED BY <1>6, <1>7

\* A step that turns into no other, whatever it does.
LEMMA StepIsTaken ==
    ASSUME IInv, Step, ~Refused, ~Does("check"), ~Does("boot")
    PROVE  /\ Goes /\ Advances /\ Len(todo) \in Nat \ {0} /\ todo[1] \in StepNames
           /\ Does(todo[1])
           /\ call \in {"create", "destroy", "power", "snapshot", "revert"}
           /\ Len(todo') = Len(todo) - 1 /\ (Len(todo) > 1 => todo'[1] = todo[2])
           /\ Len(todo) > 2 => todo'[2] = todo[3]
           /\ call' = IF Len(todo) = 1 THEN "none" ELSE call
           /\ steady' = steady /\ cur' = cur /\ wasUp' = wasUp
           /\ cur \in Snapshots
  <1>1. Goes /\ todo # <<>>
    BY DEF Step, Attach, Order, Restart, Waits, Note, Took, MakeSnapshot, MakeRestore, Does
  <1>2. Len(todo) \in Nat \ {0} /\ todo[1] = Head(todo) /\ todo[1] \in StepNames
    BY <1>1, TodoFacts DEF IInv
  <1>3. Does(todo[1]) /\ todo[1] \notin {"check", "boot"}
    BY <1>1, <1>2 DEF Does
  <1>4. Advances
    BY <1>1, <1>2, <1>3, Taken
  <1>5. Len(todo) > 1 => 1 \in 1 .. Len(todo) - 1
    BY <1>2
  <1>6. Len(todo) > 2 => 2 \in 1 .. Len(todo) - 1
    BY <1>2
  <1>7. call \in {"create", "destroy", "power", "snapshot", "revert"} /\ cur \in Snapshots
    BY <1>2 DEF IInv, TypeOK, Left
  <1> QED BY <1>1, <1>2, <1>3, <1>4, <1>5, <1>6, <1>7 DEF Advances

\* The steps of create() and destroy(), which say nothing of snapshots.
LEMMA MakesSInv ==
    ASSUME IInv, SInv, Step, ~Refused, call \in {"create", "destroy"}
    PROVE  SInv'
  <1>1. ~Does("check") /\ ~Does("boot")
    BY Where
  <1>2. Advances /\ call' \in {"none", "create", "destroy"} /\ steady' = steady /\ wasUp' = wasUp
        /\ cur' = cur
    BY <1>1, StepIsTaken
  <1>3. /\ todo[1] \in {"attach", "define", "delete", "gone", "detach"}
        /\ Len(todo) = 1 => todo[1] \in {"define", "detach"}
        /\ todo[1] = "detach" => strategy = "none"
    BY <1>1, StepIsTaken DEF IInv, Left, Creating, Destroying
  <1>4. /\ snaps' = snaps /\ poweredOn' = poweredOn
        /\ todo[1] = "define" => strategy' = "always"
        /\ todo[1] = "detach" => strategy' = "none"
    <2>1. \A s \in StepNames : Does(s) => todo[1] = s
      BY Where
    <2>2. StepNames = {"attach", "define", "delete", "gone", "detach", "start", "ready", "stop",
                       "restart", "note", "snap", "taken", "took", "check", "restore",
                       "restored", "boot", "drop"}
      BY DEF StepNames
    <2>3. Attach \/ Order \/ Waits
      BY <1>3, <2>1, <2>2 DEF Step, Restart, Note, Took, MakeSnapshot, MakeRestore
    <2> QED
      BY <1>3, <2>1, <2>2, <2>3 DEF Attach, Order, Waits, machine, storage
  <1>5. call' = "none" => strategy' # "halted"
    BY <1>1, <1>3, <1>4, StepIsTaken
  <1> QED
    BY <1>2, <1>4, <1>5 DEF SInv, InTurn, Steadily, Remembered, Snapped, Switching, RevertedTo

\* The machine that is stopped, started or restarted.
LEMMA PowerSInv ==
    ASSUME IInv, SInv, Step, ~Refused, call = "power"
    PROVE  SInv'
  <1>1. ~Does("check") /\ ~Does("boot")
    BY Where
  <1>2. /\ Advances /\ steady' = steady /\ wasUp' = wasUp /\ cur' = cur
        /\ call' = IF Len(todo) = 1 THEN "none" ELSE "power"
        /\ Len(todo') = Len(todo) - 1 /\ (Len(todo) > 1 => todo'[1] = todo[2])
        /\ Len(todo) \in Nat \ {0}
    BY <1>1, StepIsTaken
  <1>3. todo[1] \in PowerSteps
    <2>1. 1 \in 1 .. Len(todo)
      BY <1>2
    <2> QED BY <2>1 DEF IInv, Left, Powering
  <1>4. /\ snaps' = snaps /\ poweredOn' = poweredOn
        /\ todo[1] = "start" => strategy' = "always"
        /\ todo[1] = "stop" => strategy' = "halted"
        /\ todo[1] \in {"gone", "ready", "restart"} => strategy' = strategy
        /\ todo[1] = "gone" => instance' = "none"
    <2>1. \A s \in StepNames : Does(s) => todo[1] = s
      BY Where
    <2>2. StepNames = {"attach", "define", "delete", "gone", "detach", "start", "ready", "stop",
                       "restart", "note", "snap", "taken", "took", "check", "restore",
                       "restored", "boot", "drop"}
      BY DEF StepNames
    <2>3. Order \/ Restart \/ Waits
      BY <1>3, <2>1, <2>2 DEF Step, Attach, Note, Took, MakeSnapshot, MakeRestore, PowerSteps
    <2> QED
      BY <1>3, <2>1, <2>2, <2>3 DEF PowerSteps, Order, Restart, Waits, machine, storage
  <1>5. ASSUME steady
        PROVE  Remembered' /\ Switching'
    <2>1. Switching /\ Remembered
      BY <1>5 DEF SInv, Steadily
    <2>2. Switching'
      BY <1>2, <1>4, <2>1 DEF Switching
    <2>3. Remembered'
      BY <1>2, <1>4, <2>1 DEF Switching, Remembered
    <2> QED BY <2>2, <2>3
  <1> QED
    BY <1>2, <1>4, <1>5 DEF SInv, InTurn, Steadily, Snapped, RevertedTo

\* The machine whose snapshot is taken.
LEMMA SnapshotSInv ==
    ASSUME IInv, SInv, Step, ~Refused, call = "snapshot"
    PROVE  SInv'
  <1>1. ~Does("check") /\ ~Does("boot")
    BY Where
  <1>2. /\ Advances /\ steady' = steady /\ wasUp' = wasUp /\ cur' = cur
        /\ call' = IF Len(todo) = 1 THEN "none" ELSE "snapshot"
        /\ Len(todo') = Len(todo) - 1 /\ Len(todo) \in Nat \ {0}
        /\ cur \in Snapshots
    BY <1>1, StepIsTaken
  <1>3. /\ todo[1] \in {"note", "snap", "taken", "took"}
        /\ todo[1] = "note" <=> Len(todo) = 4
        /\ Len(todo) <= 4 /\ (todo[1] = "note" => snaps[cur] = "none")
    <2>1. Snapshotting
      BY DEF IInv, Left
    <2>2. \/ Len(todo) = 4 /\ todo[1] = "note" /\ snaps[cur] = "none"
          \/ Len(todo) \in 1 .. 3 /\ todo[1] \in {"snap", "taken", "took"}
      BY <2>1 DEF Snapshotting
    <2>3. 4 <= 4 /\ \A n \in 1 .. 3 : n # 4 /\ n <= 4
      OBVIOUS
    <2> QED BY <2>2, <2>3
  <1>4. /\ strategy' = strategy /\ instance' = instance
        /\ todo[1] # "note" => poweredOn' = poweredOn
        /\ todo[1] = "note" => snaps' = snaps /\ poweredOn' = [poweredOn EXCEPT ![cur] = IsPoweredOn]
        /\ \A s \in Snapshots \ {cur} : snaps'[s] = snaps[s]
    <2>1. \A s \in StepNames : Does(s) => todo[1] = s
      BY Where
    <2>2. StepNames = {"attach", "define", "delete", "gone", "detach", "start", "ready", "stop",
                       "restart", "note", "snap", "taken", "took", "check", "restore",
                       "restored", "boot", "drop"}
      BY DEF StepNames
    <2>3. Note \/ MakeSnapshot \/ Waits \/ Took
      BY <1>3, <2>1, <2>2 DEF Step, Attach, Order, Restart, MakeRestore
    <2>4. snaps \in [Snapshots -> {"none", "pending", "ready"}]
      BY Types DEF IInv
    <2> QED
      BY <1>3, <2>1, <2>2, <2>3, <2>4 DEF Note, MakeSnapshot, Waits, Took, machine, storage
  <1>5. poweredOn \in [Snapshots -> BOOLEAN] /\ wasUp \in [Snapshots -> BOOLEAN]
    BY Types DEF IInv
  <1>6. ASSUME steady
        PROVE  Remembered' /\ Snapped'
    <2>1. /\ IF wasUp[cur] THEN Up ELSE Off
          /\ Len(todo) <= 3 => poweredOn[cur] = wasUp[cur]
          /\ \A s \in Snapshots : snaps[s] # "none" => poweredOn[s] = wasUp[s]
      BY <1>6 DEF SInv, Steadily, Snapped, Remembered
    <2>2. poweredOn'[cur] = wasUp[cur]
      <3>1. CASE todo[1] = "note"
        BY <1>2, <1>4, <1>5, <2>1, <3>1 DEF IsPoweredOn, Up, Off
      <3>2. CASE todo[1] # "note"
        BY <1>2, <1>3, <1>4, <2>1, <3>2
      <3> QED BY <3>1, <3>2
    <2>3. \A s \in Snapshots \ {cur} : poweredOn'[s] = poweredOn[s]
      BY <1>2, <1>4, <1>5
    <2>4. Snapped'
      BY <1>2, <1>4, <2>1, <2>2 DEF Snapped, Up, Off
    <2>5. \A s \in Snapshots : snaps'[s] # "none" => poweredOn'[s] = wasUp'[s]
      BY <1>2, <1>4, <2>1, <2>2, <2>3
    <2>6. strategy' = "halted" => instance' = "none"
      BY <1>4, <2>1 DEF Up, Off
    <2> QED BY <2>4, <2>5, <2>6 DEF Remembered
  <1> QED
    BY <1>2, <1>6 DEF SInv, InTurn, Steadily, Switching, RevertedTo

\* The machine that is reverted.
LEMMA RevertSInv ==
    ASSUME IInv, SInv, Step, ~Refused, ~Does("check"), ~Does("boot"), call = "revert"
    PROVE  SInv'
  <1>1. /\ Advances /\ steady' = steady /\ wasUp' = wasUp /\ cur' = cur
        /\ call' = IF Len(todo) = 1 THEN "none" ELSE "revert"
        /\ Len(todo') = Len(todo) - 1 /\ (Len(todo) > 1 => todo'[1] = todo[2])
        /\ cur \in Snapshots /\ Does(todo[1])
    BY StepIsTaken
  <1>2. /\ Len(todo) \in Nat \ {0} /\ todo[1] \in RevertSteps \ {"restart", "check", "boot"}
        /\ Len(todo) = 1 => todo[1] \in {"ready", "drop"}
        /\ Len(todo) > 1 => Follows(todo[1], todo[2])
        /\ todo[1] = "drop" => Len(todo) = 1
    BY <1>1, Nexts DEF SInv
  <1>3. /\ poweredOn' = poweredOn
        /\ todo[1] = "start" => strategy' = "always"
        /\ todo[1] = "stop" => strategy' = "halted"
        /\ todo[1] \notin {"start", "stop"} => strategy' = strategy
        /\ instance' = instance
        /\ todo[1] = "gone" => instance' = "none"
        /\ \A s \in Snapshots : snaps'[s] # "none" => snaps[s] # "none"
        /\ todo[1] # "drop" => snaps' = snaps
    <2>1. \A s \in StepNames : Does(s) => todo[1] = s
      BY Where
    <2>2. StepNames = {"attach", "define", "delete", "gone", "detach", "start", "ready", "stop",
                       "restart", "note", "snap", "taken", "took", "check", "restore",
                       "restored", "boot", "drop"}
      BY DEF StepNames
    <2>3. Order \/ MakeSnapshot \/ Waits \/ MakeRestore
      BY <1>2, <2>1, <2>2 DEF Step, Attach, Restart, Note, Took, RevertSteps, PowerSteps
    <2>4. snaps \in [Snapshots -> {"none", "pending", "ready"}]
      BY Types DEF IInv
    <2> QED
      BY <1>2, <2>1, <2>2, <2>3, <2>4
      DEF Order, MakeSnapshot, Waits, MakeRestore, machine, storage, RevertSteps, PowerSteps
  <1>4. InTurn'
    BY <1>1, <1>2, <1>3, TurnsOn DEF SInv, InTurn
  <1>5. ASSUME steady
        PROVE  Remembered' /\ RevertedTo'
    <2>1. /\ RevertedTo /\ Remembered
      BY <1>5 DEF SInv, Steadily
    <2>2. todo[1] \in {"gone", "restore", "restored", "start", "ready", "stop", "drop"}
      BY <1>2 DEF RevertSteps, PowerSteps
    <2>3. RevertedTo'
      BY <1>1, <1>2, <1>3, <2>1, <2>2 DEF RevertedTo, Follows, Off
    <2>4. Remembered'
      BY <1>1, <1>2, <1>3, <2>1 DEF RevertedTo, Remembered, Off
    <2> QED BY <2>3, <2>4
  <1> QED
    BY <1>1, <1>4, <1>5 DEF SInv, Steadily, Snapped, Switching

LEMMA NextSInv == IInv /\ SInv /\ [Next]_vars => SInv'
  <1> SUFFICES ASSUME IInv, SInv, [Next]_vars PROVE SInv'
    OBVIOUS
  <1>1. CASE UNCHANGED vars
    BY <1>1 DEF vars, client, machine, storage, SInv, InTurn, Steadily, Remembered, Snapped,
                Switching, RevertedTo, Up, Off
  <1>2. CASE User
    BY <1>2, CallSInv
  <1>3. CASE Step
    <2>1. CASE Refused
      BY <2>1 DEF Refused, machine, storage, SInv, InTurn, Steadily, Remembered, Snapped,
                  Switching, RevertedTo
    <2>2. CASE Does("check") \/ Does("boot")
      <3>1. Waits \/ Refused
        <4>1. Head(todo) \in {"check", "boot"}
          BY <2>2 DEF Does
        <4> QED
          BY <1>3, <4>1
          DEF Step, Attach, Order, Restart, Note, Took, MakeSnapshot, MakeRestore, Does
      <3> QED BY <2>1, <2>2, <3>1, LooksSInv
    <2>3. CASE ~Refused /\ ~Does("check") /\ ~Does("boot")
      <3>1. call \in {"create", "destroy", "power", "snapshot", "revert"}
        BY <1>3, <2>3, StepIsTaken
      <3> QED BY <1>3, <2>3, <3>1, MakesSInv, PowerSInv, SnapshotSInv, RevertSInv
    <2> QED BY <2>1, <2>2, <2>3
  <1>4. CASE Cluster \/ GuestEnds \/ GuestWrites
    BY <1>4, ClusterSInv DEF Cluster
  <1> QED BY <1>1, <1>2, <1>3, <1>4 DEF Next

\* How revert() returns.
LEMMA Returns ==
    ASSUME IInv, SInv, Next, steady, call = "revert", call' = "none"
    PROVE  (strategy = "always") = wasUp[cur]
  <1>1. Step
    BY DEF Next, User, CallCreate, CallDestroy, CallPower, CallSnapshot, CallRevert, Calls,
           Cluster, Reconcile, GuestEnds, GuestWrites, RestoreDisk, TakeSnapshot, client
  <1>2. ~Refused
    BY DEF Refused
  <1>3. cur \in Snapshots /\ poweredOn[cur] = wasUp[cur]
    BY DEF IInv, TypeOK, SInv, Steadily, Remembered, InTurn
  <1>4. poweredOn[cur] \in BOOLEAN
    BY <1>3, Types DEF IInv
  <1>5. CASE Does("check") \/ Does("boot")
    <2>1. Goes /\ todo # <<>> /\ Head(todo) \in {"check", "boot"}
      BY <1>1, <1>2, <1>5
      DEF Step, Attach, Order, Restart, Waits, Note, Took, MakeSnapshot, MakeRestore, Does
    <2>2. Len(todo') = 0 /\ Len(todo) \in Nat \ {0} /\ todo[1] \in {"check", "boot"}
      BY <2>1, NextSteps, TodoFacts DEF IInv
    <2>3. Len(todo) = 1 /\ ~Branches
      BY <2>1, <2>2, Looked DEF IInv
    <2>4. todo[1] = "boot"
      BY <2>2, <2>3, Nexts DEF SInv
    <2> QED BY <1>3, <1>4, <2>3, <2>4 DEF Branches, SInv, Steadily, RevertedTo, Off
  <1>6. CASE ~Does("check") /\ ~Does("boot")
    <2>1. Len(todo) = 1 /\ Does(todo[1])
      BY <1>1, <1>2, <1>6, StepIsTaken
    <2>2. todo[1] \in {"ready", "drop"}
      BY <1>6, <2>1, Nexts DEF SInv
    <2> QED BY <1>3, <1>4, <2>2 DEF SInv, Steadily, RevertedTo, Off
  <1> QED BY <1>5, <1>6

\* "so reverting boots the machine again" (machine.py:54-86), of machines nobody stops
\* meanwhile: once revert() returned, the machine is to run if and only if it was when the
\* snapshot was taken, for any number of snapshots and however often it was stopped, started
\* and reverted since.
THEOREM SteadyAreReverted == Spec => SteadyRevertBoots
  <1>1. Init => SInv
    BY DEF Init, SInv, InTurn, Steadily, Remembered, Snapped, Switching, RevertedTo
  <1>2. Spec => [](IInv /\ SInv)
    BY <1>1, InitIInv, NextIInv, NextSInv, PTL DEF Spec
  <1>3. IInv /\ SInv /\ [Next]_vars =>
            [steady /\ call = "revert" /\ call' = "none" => (strategy = "always") = wasUp[cur]]_vars
    BY Returns
  <1> QED BY <1>2, <1>3, PTL DEF Spec, SteadyRevertBoots
=============================================================================
