---------------------------- MODULE PartsProofs ----------------------------
(***************************************************************************)
(* Proofs about the nine components of Parts: for every value of the       *)
(* constants that the components' assumptions allow, what Parts' runs      *)
(* check.  Each component has an inductive invariant of its own, of which  *)
(* the other parts' steps know nothing: its lemmas are about the component *)
(* alone (Sess!, Cooked!, ...), and its theorem puts them together.        *)
(*                                                                         *)
(* Where a fact is about every natural number, as the names of disks are,  *)
(* its proof looks at the least number without it (LeastOf).               *)
(***************************************************************************)
EXTENDS Parts, SequenceTheorems, FiniteSetTheorems, WellFoundedInduction, TLAPS

-----------------------------------------------------------------------------
(* What the parts' proofs share.                                           *)

\* A behaviour is one of a single part.
LEMMA PartStays ==
    ASSUME [Next]_vars
    PROVE  part' = part
  BY DEF vars, Next, Only, SessionStep, DefaultStep, TransferStep, GroupStep, BootStep,
         KVNetStep, DevicesStep, KVModelStep, NetStep

\* A sequence without its last element.
LEMMA FrontFacts ==
    ASSUME NEW S, NEW s \in Seq(S), s # <<>>
    PROVE  /\ Len(s) \in Nat \ {0} /\ s[Len(s)] \in S
           /\ SubSeq(s, 1, Len(s) - 1) \in Seq(S)
           /\ Len(SubSeq(s, 1, Len(s) - 1)) = Len(s) - 1
           /\ \A k \in 1 .. Len(s) - 1 : SubSeq(s, 1, Len(s) - 1)[k] = s[k]
  <1>1. Len(s) \in Nat \ {0}
    BY EmptySeq
  <1>2. \A k \in 1 .. Len(s) : s[k] \in S
    BY ElementOfSeq
  <1>3. \A k \in 1 .. Len(s) - 1 : s[k] \in S
    BY <1>1, <1>2
  <1>4. /\ SubSeq(s, 1, Len(s) - 1) \in Seq(S)
        /\ Len(SubSeq(s, 1, Len(s) - 1)) =
               IF 1 <= Len(s) - 1 THEN Len(s) - 1 - 1 + 1 ELSE 0
        /\ \A k \in 1 .. Len(s) - 1 - 1 + 1 : SubSeq(s, 1, Len(s) - 1)[k] = s[1 + k - 1]
    BY <1>1, <1>3, SubSeqProperties
  <1>5. 1 .. Len(s) - 1 - 1 + 1 = 1 .. Len(s) - 1
    BY <1>1
  <1>6. \A k \in 1 .. Len(s) - 1 : SubSeq(s, 1, Len(s) - 1)[k] = s[k]
    BY <1>1, <1>4, <1>5
  <1>7. Len(SubSeq(s, 1, Len(s) - 1)) = Len(s) - 1
    <2>1. \A n \in Nat \ {0} : (IF 1 <= n - 1 THEN n - 1 - 1 + 1 ELSE 0) = n - 1
      OBVIOUS
    <2> QED BY <1>1, <1>4, <2>1
  <1> QED BY <1>1, <1>2, <1>4, <1>6, <1>7

\* And with one more.
LEMMA AppendFacts ==
    ASSUME NEW S, NEW s \in Seq(S), NEW e \in S
    PROVE  /\ Len(s) \in Nat
           /\ Append(s, e) \in Seq(S)
           /\ Len(Append(s, e)) = Len(s) + 1
           /\ \A k \in 1 .. Len(s) : Append(s, e)[k] = s[k]
           /\ Append(s, e)[Len(s) + 1] = e
  BY AppendProperties, LenProperties

\* Some naturals have a least one, which CHOOSE takes.
LEMMA LeastOf ==
    ASSUME NEW S \in SUBSET Nat, S # {}
    PROVE  LET least == CHOOSE a \in S : \A b \in S : a <= b
           IN least \in S /\ \A b \in S : least <= b
  <1> DEFINE R == {p \in Nat \X Nat : p[1] < p[2]}
  <1>1. IsWellFoundedOn(R, Nat)
    BY NatLessThanWellFounded DEF OpToRel
  <1>2. \E a \in S : \A b \in S : ~ (<<b, a>> \in R)
    <2> HIDE DEF R
    <2> QED BY <1>1, WFMin
  <1>3. \E a \in S : \A b \in S : a <= b
    <2>1. \A a, b \in S : ~ (<<b, a>> \in R) => a <= b
      OBVIOUS
    <2> QED BY <1>2, <2>1
  <1> QED BY <1>3

-----------------------------------------------------------------------------
(* Session                                                                 *)

LEMMA SessionSteps ==
    ASSUME [Next]_vars, part = "session"
    PROVE  [Sess!Next]_sess
  BY DEF vars, Next, Only, SessionStep, DefaultStep, TransferStep, GroupStep, BootStep,
         KVNetStep, DevicesStep, KVModelStep, NetStep

SessionWorking == {"making", "creating", "appending"}

\* Where create() is: at an object that it made, once it's a resource's turn.
SessionPcOK ==
    /\ pc # "idle" => round > 0
    /\ pc \in {"creating", "appending"} => next <= Objects /\ made[next] = round
    /\ pc = "appending" => Sess!This \in host

\* Objects are made in order, from recipes that refer to those before them; those of
\* this round, until its create() is done, up to the next one.
SessionMadeInOrder ==
    /\ \A i, j \in Sess!Obj : i < j /\ made[j] # 0 => made[i] # 0
    /\ \A i \in Sess!Obj : made[i] # 0 => \A r \in refs[i] : r < i
    /\ pc \in SessionWorking => \A i \in Sess!Obj : i < next => made[i] = round

\* What is recorded is of this round, in order, and comes before what create() or
\* destroy() is busy with.
SessionCreatedInOrder ==
    /\ \A a \in 1 .. Len(created) : created[a][2] = round
    /\ \A a, b \in 1 .. Len(created) : a < b => created[a][1] < created[b][1]
    /\ pc \in SessionWorking => \A a \in 1 .. Len(created) : created[a][1] < next
    /\ pc = "popped" =>
           /\ out \in Sess!Thing /\ out[2] = round
           /\ \A a \in 1 .. Len(created) : created[a][1] < out[1]

SessionIInv ==
    Sess!TypeOK /\ SessionPcOK /\ SessionMadeInOrder /\ SessionCreatedInOrder
    /\ Sess!CreatedOnce /\ Sess!OnlyItsOwnFault

LEMMA SessionInitIInv ==
    ASSUME Sess!Assumptions, Sess!Init
    PROVE  SessionIInv
  <1>1. <<>> \in Seq(Sess!Thing) /\ Len(<<>>) = 0 /\ Sess!Range(<<>>) = {}
    BY EmptySeq DEF Sess!Range
  <1> QED
    BY <1>1 DEF Sess!Init, SessionIInv, Sess!TypeOK, SessionPcOK, SessionMadeInOrder,
                SessionCreatedInOrder, Sess!CreatedOnce,
                Sess!OnlyItsOwnFault, Sess!Busy, SessionWorking, Sess!Assumptions, Sess!Obj

\* What Append and PopLast do to the records, in terms of places.
LEMMA SessionRecordedFacts ==
    ASSUME Sess!TypeOK, NEW t \in Sess!Thing
    PROVE  /\ Sess!Recorded(created, t) \in Seq(Sess!Thing)
           /\ Len(Sess!Recorded(created, t)) = Len(created) + 1
           /\ \A a \in 1 .. Len(created) : Sess!Recorded(created, t)[a] = created[a]
           /\ Sess!Recorded(created, t)[Len(created) + 1] = t
           /\ Sess!Range(Sess!Recorded(created, t)) = Sess!Range(created) \cup {t}
  <1>1. /\ Append(created, t) \in Seq(Sess!Thing)
        /\ Len(Append(created, t)) = Len(created) + 1
        /\ \A a \in 1 .. Len(created) : Append(created, t)[a] = created[a]
        /\ Append(created, t)[Len(created) + 1] = t
    BY AppendProperties DEF Sess!TypeOK
  <1>2. /\ DOMAIN created = 1 .. Len(created) /\ Len(created) \in Nat
        /\ DOMAIN Append(created, t) = 1 .. Len(created) + 1
    BY <1>1, LenProperties DEF Sess!TypeOK
  <1>3. Sess!Range(Append(created, t)) = Sess!Range(created) \cup {t}
    BY <1>1, <1>2 DEF Sess!Range
  <1> QED BY <1>1, <1>3 DEF Sess!Recorded

LEMMA SessionPopLastFacts ==
    ASSUME Sess!TypeOK, created # <<>>
    PROVE  LET p == Sess!PopLast(created)
           IN /\ Len(created) \in Nat \ {0}
              /\ p.popped = created[Len(created)] /\ p.popped \in Sess!Thing
              /\ p.left \in Seq(Sess!Thing)
              /\ Len(p.left) = Len(created) - 1
              /\ \A a \in 1 .. Len(created) - 1 : p.left[a] = created[a]
              /\ Sess!Range(created) = Sess!Range(p.left) \cup {p.popped}
              /\ Sess!Range(p.left) = {created[a] : a \in 1 .. Len(created) - 1}
  <1>1. Len(created) \in Nat \ {0} /\ DOMAIN created = 1 .. Len(created)
    BY EmptySeq, LenProperties DEF Sess!TypeOK
  <1>2. \A a \in 1 .. Len(created) : created[a] \in Sess!Thing
    BY ElementOfSeq DEF Sess!TypeOK
  <1> DEFINE rest == SubSeq(created, 1, Len(created) - 1)
  <1>3. /\ rest \in Seq(Sess!Thing)
        /\ Len(rest) = Len(created) - 1
        /\ \A a \in 1 .. Len(created) - 1 : rest[a] = created[a]
    <2>1. \A a \in 1 .. Len(created) - 1 : created[a] \in Sess!Thing
      BY <1>1, <1>2
    <2>2. /\ rest \in Seq(Sess!Thing)
          /\ Len(rest) = IF 1 <= Len(created) - 1 THEN Len(created) - 1 - 1 + 1 ELSE 0
          /\ \A a \in 1 .. Len(created) - 1 - 1 + 1 : rest[a] = created[1 + a - 1]
      BY <1>1, <2>1, SubSeqProperties
    <2> QED BY <1>1, <2>2
  <1>4. DOMAIN rest = 1 .. Len(created) - 1
    BY <1>3, LenProperties
  <1>5. Sess!Range(rest) = {created[a] : a \in 1 .. Len(created) - 1}
    BY <1>3, <1>4 DEF Sess!Range
  <1>6. Sess!Range(created) = Sess!Range(rest) \cup {created[Len(created)]}
    <2>1. 1 .. Len(created) = (1 .. Len(created) - 1) \cup {Len(created)}
      BY <1>1
    <2> QED BY <1>1, <1>5, <2>1 DEF Sess!Range
  <1>7. Sess!PopLast(created) = [popped |-> created[Len(created)], left |-> rest]
    BY DEF Sess!PopLast
  <1> QED BY <1>1, <1>2, <1>3, <1>5, <1>6, <1>7

\* An entry of the records, by its place.
LEMMA SessionPlaces ==
    ASSUME Sess!TypeOK, NEW t \in Sess!Range(created)
    PROVE  \E a \in 1 .. Len(created) : t = created[a]
  BY LenProperties DEF Sess!TypeOK, Sess!Range

LEMMA SessionCreateIInv ==
    ASSUME Sess!Assumptions, SessionIInv, Sess!Create
    PROVE  SessionIInv'
  <1> USE DEF Sess!Create, SessionIInv, Sess!Assumptions
  <1>1. Sess!TypeOK'
    BY SMTT(30) DEF Sess!TypeOK, SessionPcOK, SessionCreatedInOrder, Sess!Obj, Sess!Round,
                    Sess!Thing, Sess!This, Sess!Start
  <1>2. SessionPcOK'
    BY DEF Sess!TypeOK, SessionPcOK, SessionMadeInOrder, Sess!Obj, Sess!This, Sess!Start
  <1>3. SessionMadeInOrder'
    BY SMTT(30) DEF Sess!TypeOK, SessionPcOK, SessionMadeInOrder, SessionWorking, Sess!Obj,
                    Sess!Start
  <1>4. SessionCreatedInOrder'
    BY EmptySeq DEF Sess!TypeOK, SessionPcOK, SessionCreatedInOrder, SessionWorking, Sess!Obj,
                    Sess!Start
  <1>5. Sess!CreatedOnce'
    BY <1>1 DEF Sess!CreatedOnce, Sess!Start
  <1>6. Sess!OnlyItsOwnFault'
    BY DEF Sess!OnlyItsOwnFault, Sess!Busy, Sess!This, Sess!Start
  <1> QED BY <1>1, <1>2, <1>3, <1>4, <1>5, <1>6

LEMMA SessionMakeIInv ==
    ASSUME Sess!Assumptions, SessionIInv, Sess!Make
    PROVE  SessionIInv'
  <1> USE DEF Sess!Make, SessionIInv, Sess!Assumptions
  <1>1. Sess!TypeOK'
    BY SMTT(30) DEF Sess!TypeOK, SessionPcOK, SessionCreatedInOrder, Sess!Obj, Sess!Round,
                    Sess!Thing, Sess!This, Sess!Resolves
  <1>2. SessionPcOK'
    BY DEF Sess!TypeOK, SessionPcOK, SessionMadeInOrder, Sess!Obj, Sess!This, Sess!Resolves
  <1>3. SessionMadeInOrder'
    BY SMTT(30) DEF Sess!TypeOK, SessionPcOK, SessionMadeInOrder, SessionWorking, Sess!Obj,
                    Sess!Resolves
  <1>4. SessionCreatedInOrder'
    <2>1. \A a \in 1 .. Len(created) : created[a][1] \in Int
      BY ElementOfSeq, SMTT(30) DEF Sess!TypeOK, Sess!Thing, Sess!Obj
    <2>2. /\ next \in Int /\ next' \in {next, next + 1}
          /\ pc = "making" /\ pc' # "popped"
          /\ round' = round /\ created' = created
      BY DEF Sess!TypeOK
    <2>3. SessionCreatedInOrder
      OBVIOUS
    <2> HIDE DEF Sess!Make, SessionIInv, Sess!Assumptions
    <2>4. \A a \in 1 .. Len(created) : created[a][1] < next'
      BY <2>1, <2>2, <2>3 DEF SessionCreatedInOrder, SessionWorking
    <2> QED BY <2>2, <2>3, <2>4 DEF SessionCreatedInOrder, SessionWorking
  <1>5. Sess!CreatedOnce'
    BY <1>1 DEF Sess!CreatedOnce, Sess!Resolves
  <1>6. Sess!OnlyItsOwnFault'
    BY DEF Sess!OnlyItsOwnFault, Sess!Busy, Sess!This, Sess!Resolves
  <1> QED BY <1>1, <1>2, <1>3, <1>4, <1>5, <1>6

LEMMA SessionMakeFailsIInv ==
    ASSUME Sess!Assumptions, SessionIInv, Sess!MakeFails
    PROVE  SessionIInv'
  <1> USE DEF Sess!MakeFails, SessionIInv, Sess!Assumptions
  <1>1. Sess!TypeOK'
    BY SMTT(30) DEF Sess!TypeOK, SessionPcOK, SessionCreatedInOrder, Sess!Obj, Sess!Round,
                    Sess!Thing, Sess!This
  <1>2. SessionPcOK'
    BY DEF Sess!TypeOK, SessionPcOK, SessionMadeInOrder, Sess!Obj, Sess!This
  <1>3. SessionMadeInOrder'
    BY SMTT(30) DEF Sess!TypeOK, SessionPcOK, SessionMadeInOrder, SessionWorking, Sess!Obj
  <1>4. SessionCreatedInOrder'
    BY DEF Sess!TypeOK, SessionPcOK, SessionCreatedInOrder, SessionWorking, Sess!Obj
  <1>5. Sess!CreatedOnce'
    BY <1>1 DEF Sess!CreatedOnce
  <1>6. Sess!OnlyItsOwnFault'
    BY DEF Sess!OnlyItsOwnFault, Sess!Busy, Sess!This
  <1> QED BY <1>1, <1>2, <1>3, <1>4, <1>5, <1>6

LEMMA SessionCreatedIInv ==
    ASSUME Sess!Assumptions, SessionIInv, Sess!Created
    PROVE  SessionIInv'
  <1> USE DEF Sess!Created, SessionIInv, Sess!Assumptions
  <1>1. Sess!TypeOK'
    BY SMTT(30) DEF Sess!TypeOK, SessionPcOK, SessionCreatedInOrder, Sess!Obj, Sess!Round,
                    Sess!Thing, Sess!This
  <1>2. SessionPcOK'
    BY DEF Sess!TypeOK, SessionPcOK, SessionMadeInOrder, Sess!Obj, Sess!This
  <1>3. SessionMadeInOrder'
    BY SMTT(30) DEF Sess!TypeOK, SessionPcOK, SessionMadeInOrder, SessionWorking, Sess!Obj
  <1>4. SessionCreatedInOrder'
    BY DEF Sess!TypeOK, SessionPcOK, SessionCreatedInOrder, SessionWorking, Sess!Obj
  <1>5. Sess!CreatedOnce'
    BY <1>1 DEF Sess!CreatedOnce
  <1>6. Sess!OnlyItsOwnFault'
    BY DEF Sess!OnlyItsOwnFault, Sess!Busy, Sess!This
  <1> QED BY <1>1, <1>2, <1>3, <1>4, <1>5, <1>6

LEMMA SessionCreateFailsIInv ==
    ASSUME Sess!Assumptions, SessionIInv, Sess!CreateFails
    PROVE  SessionIInv'
  <1> USE DEF Sess!CreateFails, SessionIInv, Sess!Assumptions
  <1>1. Sess!TypeOK'
    BY SMTT(30) DEF Sess!TypeOK, SessionPcOK, SessionCreatedInOrder, Sess!Obj, Sess!Round,
                    Sess!Thing, Sess!This
  <1>2. SessionPcOK'
    BY DEF Sess!TypeOK, SessionPcOK, SessionMadeInOrder, Sess!Obj, Sess!This
  <1>3. SessionMadeInOrder'
    BY SMTT(30) DEF Sess!TypeOK, SessionPcOK, SessionMadeInOrder, SessionWorking, Sess!Obj
  <1>4. SessionCreatedInOrder'
    BY DEF Sess!TypeOK, SessionPcOK, SessionCreatedInOrder, SessionWorking, Sess!Obj
  <1>5. Sess!CreatedOnce'
    BY <1>1 DEF Sess!CreatedOnce
  <1>6. Sess!OnlyItsOwnFault'
    BY DEF Sess!OnlyItsOwnFault, Sess!Busy, Sess!This
  <1> QED BY <1>1, <1>2, <1>3, <1>4, <1>5, <1>6

LEMMA SessionInterruptIInv ==
    ASSUME Sess!Assumptions, SessionIInv, Sess!Interrupt
    PROVE  SessionIInv'
  <1> USE DEF Sess!Interrupt, SessionIInv, Sess!Assumptions
  <1>1. Sess!TypeOK'
    BY SMTT(30) DEF Sess!TypeOK, SessionPcOK, SessionCreatedInOrder, Sess!Obj, Sess!Round,
                    Sess!Thing, Sess!This
  <1>2. SessionPcOK'
    BY DEF Sess!TypeOK, SessionPcOK, SessionMadeInOrder, Sess!Obj, Sess!This
  <1>3. SessionMadeInOrder'
    BY SMTT(30) DEF Sess!TypeOK, SessionPcOK, SessionMadeInOrder, SessionWorking, Sess!Obj
  <1>4. SessionCreatedInOrder'
    BY DEF Sess!TypeOK, SessionPcOK, SessionCreatedInOrder, SessionWorking, Sess!Obj
  <1>5. Sess!CreatedOnce'
    BY <1>1 DEF Sess!CreatedOnce
  <1>6. Sess!OnlyItsOwnFault'
    BY DEF Sess!OnlyItsOwnFault, Sess!Busy, Sess!This
  <1> QED BY <1>1, <1>2, <1>3, <1>4, <1>5, <1>6

LEMMA SessionUpIInv ==
    ASSUME Sess!Assumptions, SessionIInv, Sess!Up
    PROVE  SessionIInv'
  <1> USE DEF Sess!Up, SessionIInv, Sess!Assumptions
  <1>1. Sess!TypeOK'
    BY SMTT(30) DEF Sess!TypeOK, SessionPcOK, SessionCreatedInOrder, Sess!Obj, Sess!Round,
                    Sess!Thing, Sess!This
  <1>2. SessionPcOK'
    BY DEF Sess!TypeOK, SessionPcOK, SessionMadeInOrder, Sess!Obj, Sess!This
  <1>3. SessionMadeInOrder'
    BY SMTT(30) DEF Sess!TypeOK, SessionPcOK, SessionMadeInOrder, SessionWorking, Sess!Obj
  <1>4. SessionCreatedInOrder'
    BY DEF Sess!TypeOK, SessionPcOK, SessionCreatedInOrder, SessionWorking, Sess!Obj
  <1>5. Sess!CreatedOnce'
    BY <1>1 DEF Sess!CreatedOnce
  <1>6. Sess!OnlyItsOwnFault'
    BY DEF Sess!OnlyItsOwnFault, Sess!Busy, Sess!This
  <1> QED BY <1>1, <1>2, <1>3, <1>4, <1>5, <1>6

LEMMA SessionDestroyIInv ==
    ASSUME Sess!Assumptions, SessionIInv, Sess!Destroy
    PROVE  SessionIInv'
  <1> USE DEF Sess!Destroy, SessionIInv, Sess!Assumptions
  <1>1. Sess!TypeOK'
    BY SMTT(30) DEF Sess!TypeOK, SessionPcOK, SessionCreatedInOrder, Sess!Obj, Sess!Round,
                    Sess!Thing, Sess!This
  <1>2. SessionPcOK'
    BY DEF Sess!TypeOK, SessionPcOK, SessionMadeInOrder, Sess!Obj, Sess!This
  <1>3. SessionMadeInOrder'
    BY SMTT(30) DEF Sess!TypeOK, SessionPcOK, SessionMadeInOrder, SessionWorking, Sess!Obj
  <1>4. SessionCreatedInOrder'
    BY DEF Sess!TypeOK, SessionPcOK, SessionCreatedInOrder, SessionWorking, Sess!Obj
  <1>5. Sess!CreatedOnce'
    BY <1>1 DEF Sess!CreatedOnce
  <1>6. Sess!OnlyItsOwnFault'
    BY DEF Sess!OnlyItsOwnFault, Sess!Busy, Sess!This
  <1> QED BY <1>1, <1>2, <1>3, <1>4, <1>5, <1>6

LEMMA SessionDestroyedIInv ==
    ASSUME Sess!Assumptions, SessionIInv, Sess!Destroyed
    PROVE  SessionIInv'
  <1> USE DEF Sess!Destroyed, SessionIInv, Sess!Assumptions
  <1>1. Sess!TypeOK'
    BY SMTT(30) DEF Sess!TypeOK, SessionPcOK, SessionCreatedInOrder, Sess!Obj, Sess!Round,
                    Sess!Thing, Sess!This
  <1>2. SessionPcOK'
    BY DEF Sess!TypeOK, SessionPcOK, SessionMadeInOrder, Sess!Obj, Sess!This
  <1>3. SessionMadeInOrder'
    BY SMTT(30) DEF Sess!TypeOK, SessionPcOK, SessionMadeInOrder, SessionWorking, Sess!Obj
  <1>4. SessionCreatedInOrder'
    BY DEF Sess!TypeOK, SessionPcOK, SessionCreatedInOrder, SessionWorking, Sess!Obj
  <1>5. Sess!CreatedOnce'
    BY <1>1 DEF Sess!CreatedOnce
  <1>6. Sess!OnlyItsOwnFault'
    BY DEF Sess!OnlyItsOwnFault, Sess!Busy, Sess!This
  <1> QED BY <1>1, <1>2, <1>3, <1>4, <1>5, <1>6

LEMMA SessionDestroyFailsIInv ==
    ASSUME Sess!Assumptions, SessionIInv, Sess!DestroyFails
    PROVE  SessionIInv'
  <1> USE DEF Sess!DestroyFails, SessionIInv, Sess!Assumptions
  <1>1. Sess!TypeOK'
    BY SMTT(30) DEF Sess!TypeOK, SessionPcOK, SessionCreatedInOrder, Sess!Obj, Sess!Round,
                    Sess!Thing, Sess!This
  <1>2. SessionPcOK'
    BY DEF Sess!TypeOK, SessionPcOK, SessionMadeInOrder, Sess!Obj, Sess!This
  <1>3. SessionMadeInOrder'
    BY SMTT(30) DEF Sess!TypeOK, SessionPcOK, SessionMadeInOrder, SessionWorking, Sess!Obj
  <1>4. SessionCreatedInOrder'
    BY DEF Sess!TypeOK, SessionPcOK, SessionCreatedInOrder, SessionWorking, Sess!Obj
  <1>5. Sess!CreatedOnce'
    BY <1>1 DEF Sess!CreatedOnce
  <1>6. Sess!OnlyItsOwnFault'
    BY DEF Sess!OnlyItsOwnFault, Sess!Busy, Sess!This
  <1> QED BY <1>1, <1>2, <1>3, <1>4, <1>5, <1>6

LEMMA SessionDestroyInterruptedIInv ==
    ASSUME Sess!Assumptions, SessionIInv, Sess!DestroyInterrupted
    PROVE  SessionIInv'
  <1> USE DEF Sess!DestroyInterrupted, SessionIInv, Sess!Assumptions
  <1>1. Sess!TypeOK'
    BY SMTT(30) DEF Sess!TypeOK, SessionPcOK, SessionCreatedInOrder, Sess!Obj, Sess!Round,
                    Sess!Thing, Sess!This
  <1>2. SessionPcOK'
    BY DEF Sess!TypeOK, SessionPcOK, SessionMadeInOrder, Sess!Obj, Sess!This
  <1>3. SessionMadeInOrder'
    BY SMTT(30) DEF Sess!TypeOK, SessionPcOK, SessionMadeInOrder, SessionWorking, Sess!Obj
  <1>4. SessionCreatedInOrder'
    BY DEF Sess!TypeOK, SessionPcOK, SessionCreatedInOrder, SessionWorking, Sess!Obj
  <1>5. Sess!CreatedOnce'
    BY <1>1 DEF Sess!CreatedOnce
  <1>6. Sess!OnlyItsOwnFault'
    BY DEF Sess!OnlyItsOwnFault, Sess!Busy, Sess!This
  <1> QED BY <1>1, <1>2, <1>3, <1>4, <1>5, <1>6

LEMMA SessionAllDestroyedIInv ==
    ASSUME Sess!Assumptions, SessionIInv, Sess!AllDestroyed
    PROVE  SessionIInv'
  <1> USE DEF Sess!AllDestroyed, SessionIInv, Sess!Assumptions
  <1>1. Sess!TypeOK'
    BY SMTT(30) DEF Sess!TypeOK, SessionPcOK, SessionCreatedInOrder, Sess!Obj, Sess!Round,
                    Sess!Thing, Sess!This
  <1>2. SessionPcOK'
    BY DEF Sess!TypeOK, SessionPcOK, SessionMadeInOrder, Sess!Obj, Sess!This
  <1>3. SessionMadeInOrder'
    BY SMTT(30) DEF Sess!TypeOK, SessionPcOK, SessionMadeInOrder, SessionWorking, Sess!Obj
  <1>4. SessionCreatedInOrder'
    BY DEF Sess!TypeOK, SessionPcOK, SessionCreatedInOrder, SessionWorking, Sess!Obj
  <1>5. Sess!CreatedOnce'
    BY <1>1 DEF Sess!CreatedOnce
  <1>6. Sess!OnlyItsOwnFault'
    BY DEF Sess!OnlyItsOwnFault, Sess!Busy, Sess!This
  <1> QED BY <1>1, <1>2, <1>3, <1>4, <1>5, <1>6

\* create() records an object that comes after all of those it recorded.
LEMMA SessionAppendedIInv ==
    ASSUME Sess!Assumptions, SessionIInv, Sess!Appended
    PROVE  SessionIInv'
  <1> USE DEF Sess!Appended, SessionIInv, Sess!Assumptions
  <1>1. Sess!This \in Sess!Thing
    BY DEF Sess!TypeOK, SessionPcOK, Sess!Thing, Sess!This, Sess!Obj, Sess!Round
  <1>2. /\ created' \in Seq(Sess!Thing)
        /\ Len(created') = Len(created) + 1 /\ Len(created) \in Nat
        /\ \A a \in 1 .. Len(created) : created'[a] = created[a]
        /\ created'[Len(created) + 1] = Sess!This
        /\ Sess!Range(created') = Sess!Range(created) \cup {Sess!This}
    BY <1>1, SessionRecordedFacts, LenProperties DEF Sess!TypeOK
  <1> HIDE DEF Sess!Appended
  <1>3. /\ UNCHANGED <<refs, round, made, out, host, faulty>>
        /\ pc = "appending" /\ pc' = "making" /\ next' = next + 1
    BY DEF Sess!Appended
  <1>4. Sess!TypeOK'
    BY <1>2, <1>3 DEF Sess!TypeOK, SessionPcOK, Sess!Obj
  <1>5. SessionPcOK' /\ SessionMadeInOrder'
    BY <1>3 DEF Sess!TypeOK, SessionPcOK, SessionMadeInOrder, SessionWorking, Sess!Obj
  <1>6. SessionCreatedInOrder'
    <2>1. \A a \in 1 .. Len(created') : a = Len(created) + 1 \/ a \in 1 .. Len(created)
      BY <1>2
    <2>4. \A a \in 1 .. Len(created) :
              /\ created[a] \in Sess!Thing
              /\ created[a][2] = round /\ created[a][1] < next
      BY <1>3, ElementOfSeq DEF Sess!TypeOK, SessionCreatedInOrder, SessionWorking
    <2>5. Sess!This[1] = next /\ Sess!This[2] = round /\ next \in Int
      BY DEF Sess!This, Sess!TypeOK
    <2>2. \A a \in 1 .. Len(created') :
              /\ created'[a][2] = round
              /\ created'[a][1] < next'
      <3> SUFFICES ASSUME NEW a \in 1 .. Len(created')
                   PROVE  created'[a][2] = round /\ created'[a][1] < next'
        OBVIOUS
      <3>1. CASE a = Len(created) + 1
        BY <1>2, <1>3, <2>5, <3>1
      <3>2. CASE a \in 1 .. Len(created)
        <4>1. created'[a] = created[a] /\ created[a][2] = round /\ created[a][1] < next
          BY <1>2, <2>4, <3>2
        <4>2. created[a][1] \in Int
          BY <2>4, <3>2 DEF Sess!Thing, Sess!Obj
        <4> QED BY <1>3, <2>5, <4>1, <4>2
      <3> QED BY <2>1, <3>1, <3>2
    <2>3. \A a, b \in 1 .. Len(created') : a < b => created'[a][1] < created'[b][1]
      <3> SUFFICES ASSUME NEW a \in 1 .. Len(created'), NEW b \in 1 .. Len(created'), a < b
                   PROVE  created'[a][1] < created'[b][1]
        OBVIOUS
      <3>1. a \in 1 .. Len(created) /\ created'[a] = created[a]
        BY <1>2
      <3>2. CASE b = Len(created) + 1
        BY <1>2, <2>4, <2>5, <3>1, <3>2
      <3>3. CASE b \in 1 .. Len(created)
        BY <1>2, <3>1, <3>3 DEF SessionCreatedInOrder
      <3> QED BY <2>1, <3>2, <3>3
    <2> QED BY <1>3, <2>2, <2>3 DEF SessionCreatedInOrder, SessionWorking
  <1>7. Sess!CreatedOnce'
    BY <1>2, <1>3, <1>4 DEF Sess!CreatedOnce, SessionPcOK
  <1>8. Sess!OnlyItsOwnFault'
    BY <1>2, <1>3 DEF Sess!OnlyItsOwnFault, Sess!Busy
  <1> QED BY <1>4, <1>5, <1>6, <1>7, <1>8

\* destroy() takes the last record, which comes after all that are left.
LEMMA SessionPopIInv ==
    ASSUME Sess!Assumptions, SessionIInv, Sess!Pop
    PROVE  SessionIInv'
  <1> USE DEF Sess!Pop, SessionIInv, Sess!Assumptions
  <1>1. /\ Len(created) \in Nat \ {0}
        /\ out' = created[Len(created)] /\ out' \in Sess!Thing
        /\ created' \in Seq(Sess!Thing)
        /\ Len(created') = Len(created) - 1
        /\ \A a \in 1 .. Len(created) - 1 : created'[a] = created[a]
        /\ Sess!Range(created) = Sess!Range(created') \cup {out'}
        /\ Sess!Range(created') = {created[a] : a \in 1 .. Len(created) - 1}
    BY SessionPopLastFacts
  <1>2. /\ UNCHANGED <<refs, next, round, made, host, faulty>>
        /\ pc = "destroying" /\ pc' = "popped"
    OBVIOUS
  <1> HIDE DEF Sess!Pop
  <1>3. Sess!TypeOK'
    BY <1>1, <1>2 DEF Sess!TypeOK
  <1>4. SessionPcOK' /\ SessionMadeInOrder'
    BY <1>2 DEF SessionPcOK, SessionMadeInOrder, SessionWorking
  <1>5. SessionCreatedInOrder'
    <2>1. \A a \in 1 .. Len(created') :
              a \in 1 .. Len(created) /\ a < Len(created) /\ created'[a] = created[a]
      BY <1>1
    <2>2. Len(created) \in 1 .. Len(created)
      BY <1>1
    <2>3. /\ \A a \in 1 .. Len(created') : created'[a][2] = round
          /\ \A a, b \in 1 .. Len(created') : a < b => created'[a][1] < created'[b][1]
      BY <2>1 DEF SessionCreatedInOrder
    <2>4. /\ out'[2] = round
          /\ \A a \in 1 .. Len(created') : created'[a][1] < out'[1]
      BY <1>1, <2>1, <2>2 DEF SessionCreatedInOrder
    <2> QED BY <1>1, <1>2, <2>3, <2>4 DEF SessionCreatedInOrder, SessionWorking
  <1>6. Sess!CreatedOnce'
    <2>1. \A a \in 1 .. Len(created) - 1 : created[a][1] < out'[1]
      BY <1>1 DEF SessionCreatedInOrder
    <2>2. out'[1] \in Int
      BY <1>1 DEF Sess!Thing, Sess!Obj
    <2>3. \A a \in 1 .. Len(created) - 1 : created[a] # out'
      BY <2>1, <2>2
    <2>4. out' \notin Sess!Range(created')
      BY <1>1, <2>3
    <2> QED BY <1>1, <1>2, <1>3, <2>4 DEF Sess!CreatedOnce
  <1>7. Sess!OnlyItsOwnFault'
    BY <1>1, <1>2 DEF Sess!OnlyItsOwnFault, Sess!Busy
  <1> QED BY <1>3, <1>4, <1>5, <1>6, <1>7

LEMMA SessionNextIInv ==
    ASSUME Sess!Assumptions, SessionIInv, [Sess!Next]_sess
    PROVE  SessionIInv'
  <1>1. CASE UNCHANGED sess
    BY <1>1 DEF sess, SessionIInv, Sess!TypeOK, SessionPcOK, SessionMadeInOrder,
                SessionCreatedInOrder, Sess!CreatedOnce,
                Sess!OnlyItsOwnFault, Sess!Busy, SessionWorking, Sess!This
  <1> QED
    BY <1>1, SessionCreateIInv, SessionMakeIInv, SessionMakeFailsIInv, SessionCreatedIInv,
       SessionCreateFailsIInv,
       SessionAppendedIInv, SessionInterruptIInv, SessionUpIInv, SessionDestroyIInv,
       SessionPopIInv, SessionDestroyedIInv,
       SessionDestroyFailsIInv, SessionDestroyInterruptedIInv, SessionAllDestroyedIInv
    DEF Sess!Next

\* Only Destroyed takes something off the host, and what is still there and recorded
\* comes before it.
LEMMA SessionStepInOrder ==
    ASSUME Sess!Assumptions, SessionIInv, Sess!Next
    PROVE  Sess!DependentsFirst
  <1>1. CASE Sess!Destroyed
    <2> SUFFICES ASSUME NEW t \in host \ host', NEW u \in host',
                        u[2] = t[2], u[1] > t[1], u \notin faulty
                 PROVE  FALSE
      BY DEF Sess!DependentsFirst
    <2>1. t = out /\ u # out /\ pc = "popped" /\ u \in host
      BY <1>1 DEF Sess!Destroyed
    <2>2. u \in Sess!Range(created)
      BY <2>1 DEF SessionIInv, Sess!OnlyItsOwnFault, Sess!Busy
    <2>3. PICK a \in 1 .. Len(created) : u = created[a]
      BY <2>2, SessionPlaces DEF SessionIInv
    <2>4. u[1] < t[1] /\ u[1] \in Int /\ t[1] \in Int
      BY <2>1, <2>3 DEF SessionIInv, Sess!TypeOK, SessionCreatedInOrder, Sess!Thing, Sess!Obj
    <2> QED BY <2>4
  <1>2. CASE ~Sess!Destroyed
    <2>1. host \subseteq host'
      BY <1>2 DEF Sess!Next, Sess!Create, Sess!Make, Sess!MakeFails, Sess!Created,
                  Sess!CreateFails, Sess!Appended, Sess!Interrupt,
                  Sess!Up, Sess!Destroy, Sess!Pop, Sess!DestroyFails, Sess!DestroyInterrupted,
                  Sess!AllDestroyed
    <2> QED BY <2>1 DEF Sess!DependentsFirst
  <1> QED BY <1>1, <1>2

\* Only Make changes self._made, and what it resolves comes before, so is of this round.
LEMMA SessionStepResolves ==
    ASSUME Sess!Assumptions, SessionIInv, Sess!Next
    PROVE  Sess!RefsOfThisRound
  <1>1. CASE Sess!Make
    <2> SUFFICES ASSUME NEW i \in Sess!Obj, made'[i] # made[i], NEW r \in refs[i]
                 PROVE  made[r] = round
      BY DEF Sess!RefsOfThisRound
    <2>1. i = next /\ pc = "making" /\ next \in Sess!Obj
      BY <1>1 DEF Sess!Make, SessionIInv, Sess!TypeOK, Sess!Obj
    <2>2. r \in Sess!Obj /\ made[r] # 0
      BY <1>1, <2>1 DEF Sess!Make, Sess!Resolves, SessionIInv, Sess!TypeOK, Sess!Assumptions
    <2>3. r < next
      BY <2>1, <2>2 DEF SessionIInv, Sess!TypeOK, SessionMadeInOrder, Sess!Obj
    <2> QED BY <2>1, <2>2, <2>3 DEF SessionIInv, SessionMadeInOrder, SessionWorking
  <1>2. CASE ~Sess!Make
    <2>1. made' = made
      BY <1>2 DEF Sess!Next, Sess!Create, Sess!MakeFails, Sess!Created, Sess!CreateFails,
                  Sess!Appended, Sess!Interrupt,
                  Sess!Up, Sess!Destroy, Sess!Pop, Sess!Destroyed, Sess!DestroyFails,
                  Sess!DestroyInterrupted, Sess!AllDestroyed
    <2> QED BY <2>1 DEF Sess!RefsOfThisRound
  <1> QED BY <1>1, <1>2

\* Session.create() and destroy() (session.py:44-63): no fault makes a session lose another
\* object than the one it happened to; and nothing that was created is recorded twice, so
\* nothing is destroyed twice, or without having been created.
THEOREM SessionFaultsAreTheirOwn == Spec => []SessionLosesNothing
  <1>1. Init => (part = "session" => SessionIInv)
    BY PartsAssumption, SessionInitIInv DEF Init
  <1>2. (part = "session" => SessionIInv) /\ [Next]_vars => (part = "session" => SessionIInv)'
    BY PartsAssumption, PartStays, SessionSteps, SessionNextIInv
  <1>3. (part = "session" => SessionIInv) => SessionLosesNothing
    BY DEF SessionIInv, SessionLosesNothing
  <1> QED BY <1>1, <1>2, <1>3, PTL DEF Spec

\* Session.destroy() destroys in reverse: what may refer to an object of the same round goes
\* before it, unless its own create() or destroy() failed. And "they refer to the ones
\* before": Reference.resolve (__init__.py:68-75) never finds an object of an earlier
\* round, although _made keeps those.
THEOREM SessionGoesInReverse == Spec => SessionInOrder
  <1> DEFINE Ordered == part = "session" => Sess!DependentsFirst /\ Sess!RefsOfThisRound
  <1>1. Init => (part = "session" => SessionIInv)
    BY PartsAssumption, SessionInitIInv DEF Init
  <1>2. (part = "session" => SessionIInv) /\ [Next]_vars => (part = "session" => SessionIInv)'
    BY PartsAssumption, PartStays, SessionSteps, SessionNextIInv
  <1>3. (part = "session" => SessionIInv) /\ [Next]_vars => [Ordered]_sess
    BY PartsAssumption, SessionSteps, SessionStepInOrder, SessionStepResolves
  <1> QED BY <1>1, <1>2, <1>3, PTL DEF Spec, SessionInOrder

-----------------------------------------------------------------------------
(* DefaultSession                                                          *)

\* Each session() under way created the first objects of its recipe, none of which asks for
\* the default.  No two are one cooking, and there's none once a session is cached.
CookStack ==
    /\ \A d \in 1 .. Len(stack) :
           /\ stack[d].cooking <= cooked /\ Len(stack[d].created) <= CookedObjects
           /\ \A k \in 1 .. Len(stack[d].created) : stack[d].created[k] = k /\ k \notin asks
    /\ \A d, e \in 1 .. Len(stack) : d < e => stack[d].cooking < stack[e].cooking
    /\ raising => stack # <<>>
    /\ session # None => stack = <<>>

\* Where no object asks, a second session() comes only after a failure.
CookNested ==
    asks = {} =>
        /\ Len(stack) <= 1
        /\ raising => failures > 0
        /\ failures = 0 /\ session = None /\ stack = <<>> => cooked = 0

\* Whoever got an answer got the cached session's.
CookAnswers == answers # {} => session # None /\ answers = {Cooked!DefaultOf(session)}


LEMMA CookSteps ==
    ASSUME [Next]_vars, part = "default"
    PROVE  [Cooked!Next]_cook
  BY DEF vars, Next, Only, SessionStep, DefaultStep, TransferStep, GroupStep, BootStep,
         KVNetStep, DevicesStep, KVModelStep, NetStep

Frame == [cooking : Cooked!Cooking, created : Seq(Cooked!Obj)]

\* What the cached session, the calls under way and those that failed put on the host.
OfSession(t) == session # None /\ \E i \in Cooked!Obj : t = <<session, i>>

OfStack(t) ==
    \E d \in 1 .. Len(stack) : \E k \in 1 .. Len(stack[d].created) :
        t = <<stack[d].cooking, k>>

OfFailures(t) ==
    t \in halfway \/ \E u \in stuck : \E i \in 1 .. u[2] : t = <<u[1], i>>

CookThings ==
    \A t : /\ OfSession(t) \/ OfStack(t) => t \in things
           /\ t \in things => OfSession(t) \/ OfStack(t) \/ OfFailures(t)

CookIInv ==
    /\ Cooked!TypeOK /\ CookStack /\ CookNested /\ CookAnswers /\ CookThings
    /\ asks = {} => Cooked!CookedOnce

LEMMA CookFrames ==
    ASSUME Cooked!TypeOK
    PROVE  /\ stack \in Seq(Frame) /\ Len(stack) \in Nat /\ DOMAIN stack = 1 .. Len(stack)
           /\ \A d \in 1 .. Len(stack) :
                  /\ stack[d] \in Frame /\ stack[d].cooking \in Cooked!Cooking
                  /\ stack[d].created \in Seq(Cooked!Obj)
                  /\ Len(stack[d].created) \in Nat
                  /\ DOMAIN stack[d].created = 1 .. Len(stack[d].created)
  <1>1. stack \in Seq(Frame)
    BY DEF Cooked!TypeOK, Frame
  <1>2. \A d \in 1 .. Len(stack) : stack[d] \in Frame
    BY <1>1, ElementOfSeq
  <1>3. Len(stack) \in Nat /\ DOMAIN stack = 1 .. Len(stack)
    BY <1>1, LenProperties
  <1>4. \A d \in 1 .. Len(stack) :
            stack[d].cooking \in Cooked!Cooking /\ stack[d].created \in Seq(Cooked!Obj)
    BY <1>2 DEF Frame
  <1>5. \A s \in Seq(Cooked!Obj) : Len(s) \in Nat /\ DOMAIN s = 1 .. Len(s)
    BY LenProperties
  <1> QED BY <1>1, <1>2, <1>3, <1>4, <1>5

\* DefaultSession's sets of things, thing by thing.
LEMMA CookOwned ==
    ASSUME Cooked!TypeOK, CookStack
    PROVE  \A t : /\ t \in Cooked!Owned <=> OfSession(t) \/ OfStack(t)
                  /\ t \in Cooked!Left <=> OfFailures(t)
  <1> DEFINE created_ == UNION {{<<stack[d].cooking, i>> :
                                   i \in Cooked!Range(stack[d].created)} : d \in DOMAIN stack}
             sessions == {<<session, i>> : i \in {j \in Cooked!Obj : session # None}}
             failed_ == UNION {{<<u[1], i>> : i \in 1 .. u[2]} : u \in stuck}
  <1>1. \A d \in 1 .. Len(stack) :
            Cooked!Range(stack[d].created) = 1 .. Len(stack[d].created)
    <2> TAKE d \in 1 .. Len(stack)
    <2>1. DOMAIN stack[d].created = 1 .. Len(stack[d].created)
      BY CookFrames
    <2>2. \A k \in 1 .. Len(stack[d].created) : stack[d].created[k] = k
      BY DEF CookStack
    <2> QED BY <2>1, <2>2 DEF Cooked!Range
  <1>2. DOMAIN stack = 1 .. Len(stack)
    BY CookFrames
  <1>3. \A t : t \in created_ <=> OfStack(t)
    BY <1>1, <1>2 DEF OfStack
  <1>4. \A t : t \in sessions <=> OfSession(t)
    BY DEF OfSession
  <1>5. \A t : t \in failed_ <=> \E u \in stuck : \E i \in 1 .. u[2] : t = <<u[1], i>>
    OBVIOUS
  <1>6. Cooked!Owned = sessions \cup created_ /\ Cooked!Left = halfway \cup failed_
    BY DEF Cooked!Owned, Cooked!Left
  <1> HIDE DEF sessions, created_, failed_
  <1> QED BY <1>3, <1>4, <1>5, <1>6 DEF OfFailures

LEMMA CookOneDefault ==
    ASSUME CookIInv
    PROVE  Cooked!OneDefault
  <1>1. Cooked!Owned \subseteq things /\ things \subseteq Cooked!Owned \cup Cooked!Left
    BY CookOwned DEF CookIInv, CookThings
  <1>2. \A a, b \in answers : a = b
    BY DEF CookIInv, CookAnswers
  <1> QED BY <1>1, <1>2 DEF CookIInv, Cooked!OneDefault

\* Nothing of a failure is forgotten.
LEMMA CookFailures ==
    ASSUME halfway \subseteq halfway', stuck \subseteq stuck'
    PROVE  \A t : OfFailures(t) => OfFailures(t)'
  BY DEF OfFailures

LEMMA CookInit ==
    ASSUME Cooked!Assumptions, Cooked!Init
    PROVE  CookIInv
  <1>1. stack = <<>> /\ Len(stack) = 0 /\ stack \in Seq(Frame) /\ things = {} /\ session = None
        /\ halfway = {} /\ stuck = {}
    BY EmptySeq DEF Cooked!Init
  <1>2. Cooked!TypeOK
    <2>1. /\ {CookedObjects, Cookings, CookingFaults} \subseteq Nat /\ Recursion \in Nat
          /\ cooked = 0 /\ failures = 0 /\ raising = FALSE /\ answers = {} /\ default = None
          /\ asks \subseteq Cooked!Obj /\ named \in {"runner", "other", "nothing"}
      BY DEF Cooked!Assumptions, Cooked!Init
    <2>2. stack \in Seq([cooking : Cooked!Cooking, created : Seq(Cooked!Obj)])
      BY <1>1 DEF Frame
    <2>3. Len(stack) <= Recursion /\ cooked \in 0 .. Cookings /\ failures \in 0 .. CookingFaults
      BY <1>1, <2>1
    <2> QED BY <1>1, <2>1, <2>2, <2>3 DEF Cooked!TypeOK
  <1>3. CookStack /\ CookThings
    BY <1>1 DEF CookStack, CookThings, OfSession, OfStack, Cooked!Init
  <1>4. CookNested /\ CookAnswers /\ Cooked!CookedOnce
    BY <1>1 DEF CookNested, CookAnswers, Cooked!Init, Cooked!CookedOnce
  <1> QED BY <1>2, <1>3, <1>4 DEF CookIInv

LEMMA CookGet ==
    ASSUME Cooked!Assumptions, CookIInv, Cooked!Get
    PROVE  CookIInv'
  <1>1. /\ UNCHANGED <<asks, named, stack, raising, cooked, session, things, halfway,
                       stuck, failures>>
        /\ session # None /\ session \in Cooked!Cooking
        /\ default' = IF default = None THEN Cooked!DefaultOf(session) ELSE default
        /\ answers' = answers \cup {default'}
    BY DEF Cooked!Get, Cooked!failings, CookIInv, Cooked!TypeOK
  <1>2. default' = Cooked!DefaultOf(session)
    BY <1>1 DEF CookIInv, CookAnswers, Cooked!TypeOK
  <1>3. answers' = {Cooked!DefaultOf(session)}
    BY <1>1, <1>2 DEF CookIInv, CookAnswers
  <1>4. Cooked!DefaultOf(session) \in ({"session"} \X Cooked!Cooking) \cup {<<"own", 0>>}
    BY <1>1 DEF Cooked!DefaultOf
  <1>5. Cooked!TypeOK'
    BY <1>1, <1>2, <1>3, <1>4 DEF CookIInv, Cooked!TypeOK
  <1>6. CookStack' /\ CookNested' /\ CookThings' /\ (asks = {} => Cooked!CookedOnce)'
    BY <1>1 DEF CookIInv, CookStack, CookNested, CookThings, OfSession, OfStack, OfFailures,
                Cooked!CookedOnce
  <1>7. CookAnswers'
    BY <1>1, <1>3 DEF CookAnswers, Cooked!DefaultOf
  <1> QED BY <1>5, <1>6, <1>7 DEF CookIInv

\* A new session() begins with nothing created.
LEMMA CookCook ==
    ASSUME Cooked!Assumptions, CookIInv, Cooked!Cook
    PROVE  CookIInv'
  <1> DEFINE frame == [cooking |-> cooked', created |-> <<>>]
  <1>1. /\ UNCHANGED <<asks, named, raising, session, default, answers, things, halfway,
                       stuck, failures>>
        /\ session = None /\ cooked < Cookings /\ cooked' = cooked + 1
        /\ stack' = Append(stack, frame)
        /\ stack = <<>> \/ (Cooked!Asking /\ Len(stack) < Recursion)
    BY DEF Cooked!Cook, Cooked!failings
  <1>2. cooked \in Nat /\ cooked' \in Cooked!Cooking /\ Cookings \in Nat
        /\ Recursion \in Nat \ {0} /\ CookedObjects \in Nat
    BY <1>1 DEF CookIInv, Cooked!TypeOK, Cooked!Cooking, Cooked!Assumptions
  <1>3. frame \in Frame /\ frame.cooking = cooked' /\ 1 .. Len(frame.created) = {}
        /\ Len(frame.created) = 0
    BY <1>2, EmptySeq DEF Frame
  <1>4. /\ stack \in Seq(Frame) /\ Len(stack) \in Nat /\ stack' \in Seq(Frame)
        /\ Len(stack') = Len(stack) + 1
        /\ \A d \in 1 .. Len(stack) : stack'[d] = stack[d]
        /\ stack'[Len(stack) + 1] = frame
    BY <1>1, <1>3, CookFrames, AppendFacts DEF CookIInv
  <1>5. \A d \in 1 .. Len(stack') : d \in 1 .. Len(stack) \/ d = Len(stack) + 1
    BY <1>4
  <1>6. raising = FALSE /\ (asks = {} => stack = <<>>)
    BY <1>1 DEF Cooked!Asking, Cooked!Working, CookIInv, CookStack, Cooked!TypeOK
  <1>7. Len(stack') <= Recursion
    BY <1>1, <1>2, <1>4, EmptySeq
  <1>8. Cooked!TypeOK'
    BY <1>1, <1>2, <1>4, <1>7 DEF CookIInv, Cooked!TypeOK, Frame, Cooked!Obj, Cooked!Cooking
  <1>9. stack' # <<>>
    BY <1>4, EmptySeq
  <1>10. CookStack'
    <2>1. \A d \in 1 .. Len(stack') :
              /\ stack'[d].cooking <= cooked' /\ Len(stack'[d].created) <= CookedObjects
              /\ \A k \in 1 .. Len(stack'[d].created) :
                     stack'[d].created[k] = k /\ k \notin asks'
      <3> TAKE d \in 1 .. Len(stack')
      <3>1. CASE d = Len(stack) + 1
        <4>1. stack'[d] = frame
          BY <1>4, <3>1
        <4> HIDE DEF frame
        <4> QED BY <1>1, <1>2, <1>3, <4>1
      <3>2. CASE d \in 1 .. Len(stack)
        <4>1. stack[d].cooking \in Nat
          BY <3>2, CookFrames DEF CookIInv, Cooked!Cooking
        <4> QED BY <1>1, <1>2, <1>4, <3>2, <4>1 DEF CookIInv, CookStack
      <3> QED BY <1>5, <3>1, <3>2
    <2>2. \A d, e \in 1 .. Len(stack') : d < e => stack'[d].cooking < stack'[e].cooking
      <3> SUFFICES ASSUME NEW d \in 1 .. Len(stack'), NEW e \in 1 .. Len(stack'), d < e
                   PROVE  stack'[d].cooking < stack'[e].cooking
        OBVIOUS
      <3>1. d \in 1 .. Len(stack) /\ stack'[d] = stack[d] /\ stack[d].cooking \in Nat
        <4>1. d \in 1 .. Len(stack)
          BY <1>4
        <4> QED BY <1>4, <4>1, CookFrames DEF CookIInv, Cooked!Cooking
      <3>2. CASE e = Len(stack) + 1
        <4>1. stack[d].cooking <= cooked
          BY <3>1 DEF CookIInv, CookStack
        <4> QED BY <1>1, <1>2, <1>4, <3>1, <3>2, <4>1
      <3>3. CASE e \in 1 .. Len(stack)
        BY <1>4, <3>1, <3>3 DEF CookIInv, CookStack
      <3> QED BY <1>5, <3>2, <3>3
    <2> QED BY <1>1, <1>6, <1>9, <2>1, <2>2 DEF CookStack
  <1>11. CookThings'
    <2> SUFFICES ASSUME NEW t
                 PROVE  /\ OfSession(t)' <=> OfSession(t)
                        /\ OfStack(t)' <=> OfStack(t)
                        /\ OfFailures(t)' <=> OfFailures(t)
      BY <1>1 DEF CookIInv, CookThings
    <2>1. (\E d \in 1 .. Len(stack') : \E k \in 1 .. Len(stack'[d].created) :
                t = <<stack'[d].cooking, k>>)
          <=> (\E d \in 1 .. Len(stack) : \E k \in 1 .. Len(stack[d].created) :
                t = <<stack[d].cooking, k>>)
      <3> HIDE DEF frame
      <3>1. \A d \in 1 .. Len(stack') : \A k \in 1 .. Len(stack'[d].created) :
                d \in 1 .. Len(stack)
        BY <1>3, <1>4, <1>5
      <3>2. \A d \in 1 .. Len(stack) : d \in 1 .. Len(stack')
        BY <1>4
      <3> QED BY <1>4, <3>1, <3>2
    <2> QED BY <1>1, <2>1 DEF OfSession, OfStack, OfFailures, Cooked!Obj
  <1>12. CookNested' /\ (asks = {} => Cooked!CookedOnce)'
    BY <1>1, <1>2, <1>4, <1>6, <1>9, EmptySeq DEF CookIInv, CookNested, Cooked!CookedOnce
  <1>13. CookAnswers'
    BY <1>1 DEF CookIInv, CookAnswers, Cooked!DefaultOf
  <1> QED BY <1>8, <1>10, <1>11, <1>12, <1>13 DEF CookIInv

\* The innermost call.
LEMMA CookTop ==
    ASSUME CookIInv, stack # <<>>
    PROVE  /\ Len(stack) \in Nat \ {0} /\ Len(stack) \in 1 .. Len(stack)
           /\ Cooked!Top = stack[Len(stack)] /\ Cooked!Top \in Frame
           /\ Cooked!Top.cooking \in Cooked!Cooking
           /\ Cooked!Top.created \in Seq(Cooked!Obj) /\ Len(Cooked!Top.created) \in Nat
           /\ Cooked!NextObj = Len(Cooked!Top.created) + 1
           /\ session = None
           /\ Cooked!Below \in Seq(Frame)
           /\ Len(Cooked!Below) = Len(stack) - 1
           /\ \A d \in 1 .. Len(stack) - 1 :
                  d \in 1 .. Len(stack) /\ Cooked!Below[d] = stack[d]
  <1>1. stack \in Seq(Frame) /\ Len(stack) \in Nat \ {0}
    BY CookFrames, FrontFacts DEF CookIInv
  <1>2. Len(stack) \in 1 .. Len(stack)
    BY <1>1
  <1>3. Cooked!Top = stack[Len(stack)]
    BY DEF Cooked!Top
  <1>4. session = None
    BY DEF CookIInv, CookStack
  <1>5. /\ Cooked!Below \in Seq(Frame)
        /\ Len(Cooked!Below) = Len(stack) - 1
        /\ \A d \in 1 .. Len(stack) - 1 : Cooked!Below[d] = stack[d]
    BY <1>1, FrontFacts DEF Cooked!Below
  <1>6. \A d \in 1 .. Len(stack) - 1 : d \in 1 .. Len(stack)
    BY <1>1
  <1>7. /\ stack[Len(stack)] \in Frame /\ stack[Len(stack)].cooking \in Cooked!Cooking
        /\ stack[Len(stack)].created \in Seq(Cooked!Obj)
        /\ Len(stack[Len(stack)].created) \in Nat
    BY <1>2, CookFrames DEF CookIInv
  <1> QED BY <1>1, <1>2, <1>3, <1>4, <1>5, <1>6, <1>7 DEF Cooked!NextObj

\* An exception, which may leave its object.
LEMMA CookRaises ==
    ASSUME Cooked!Assumptions, CookIInv, Cooked!TooDeep \/ Cooked!CreateFails
    PROVE  CookIInv'
  <1>1. /\ UNCHANGED <<asks, named, stack, cooked, session, default, answers, stuck>>
        /\ raising' = TRUE /\ Cooked!Working
        /\ \/ /\ UNCHANGED <<things, halfway>>
              /\ failures' = failures /\ Cooked!Asking
           \/ /\ failures' = failures + 1 /\ failures < CookingFaults
              /\ Cooked!NextObj \in Cooked!Obj
              /\ things' \in {things, things \cup {<<Cooked!Top.cooking, Cooked!NextObj>>}}
              /\ halfway' = halfway \cup {<<Cooked!Top.cooking, Cooked!NextObj>>}
    BY DEF Cooked!TooDeep, Cooked!CreateFails, Cooked!Asking, Cooked!failings
  <1>2. failures' \in 0 .. CookingFaults /\ failures' >= failures /\ failures \in Nat
        /\ (asks = {} => failures' > 0)
    BY <1>1 DEF Cooked!Assumptions, CookIInv, Cooked!TypeOK, Cooked!Asking
  <1>3. Cooked!TypeOK'
    <2>1. Cooked!Top.cooking \in Cooked!Cooking
      BY <1>1, CookTop DEF Cooked!Working
    <2>2. {things', halfway', stuck'} \subseteq SUBSET (Cooked!Cooking \X Cooked!Obj)
      BY <1>1, <2>1 DEF CookIInv, Cooked!TypeOK
    <2> QED BY <1>1, <1>2, <2>2 DEF CookIInv, Cooked!TypeOK
  <1>4. CookStack' /\ CookAnswers'
    BY <1>1 DEF CookIInv, CookStack, CookAnswers, Cooked!Working, Cooked!DefaultOf
  <1>5. CookThings'
    <2> SUFFICES ASSUME NEW t
                 PROVE  /\ OfSession(t)' \/ OfStack(t)' => t \in things'
                        /\ t \in things' => OfSession(t)' \/ OfStack(t)' \/ OfFailures(t)'
      BY DEF CookThings
    <2>1. (OfSession(t)' <=> OfSession(t)) /\ (OfStack(t)' <=> OfStack(t))
      BY <1>1 DEF OfSession, OfStack, Cooked!Obj
    <2>2. OfFailures(t) => OfFailures(t)'
      BY <1>1, CookFailures
    <2>3. things \subseteq things' /\ (t \in things' => t \in things \/ t \in halfway')
      BY <1>1
    <2> QED BY <2>1, <2>2, <2>3 DEF CookIInv, CookThings, OfFailures
  <1>6. CookNested' /\ (asks = {} => Cooked!CookedOnce)'
    BY <1>1, <1>2 DEF CookIInv, CookNested, Cooked!CookedOnce
  <1> QED BY <1>3, <1>4, <1>5, <1>6 DEF CookIInv

LEMMA FrameExcept ==
    ASSUME NEW f \in Frame, NEW c
    PROVE  [f EXCEPT !.created = c] = [cooking |-> f.cooking, created |-> c]
  BY DEF Frame

\* The innermost call creates the next object of its recipe.
LEMMA CookCreateNext ==
    ASSUME Cooked!Assumptions, CookIInv, Cooked!CreateNext
    PROVE  CookIInv'
  <1> DEFINE L == Len(stack)
             next_ == Len(stack[L].created) + 1
             frame == [cooking |-> stack[L].cooking, created |-> Append(stack[L].created, next_)]
  <1>1. /\ UNCHANGED <<asks, named, raising, cooked, session, default, answers, halfway, stuck,
                       failures>>
        /\ stack # <<>> /\ ~raising
    BY DEF Cooked!CreateNext, Cooked!Working, Cooked!failings
  <1>2. /\ L \in Nat \ {0} /\ L \in 1 .. L /\ stack[L] \in Frame /\ session = None
        /\ stack[L].cooking \in Cooked!Cooking /\ stack[L].created \in Seq(Cooked!Obj)
        /\ Len(stack[L].created) \in Nat
    BY <1>1, CookTop
  <1>3. /\ next_ \in Cooked!Obj /\ next_ \notin asks
        /\ stack' = [stack EXCEPT ![L].created = Append(@, next_)]
        /\ things' = things \cup {<<stack[L].cooking, next_>>}
    BY <1>1, CookTop DEF Cooked!CreateNext
  <1>4. /\ frame \in Frame /\ frame.cooking = stack[L].cooking
        /\ Len(frame.created) = next_ /\ frame.created[next_] = next_
        /\ \A k \in 1 .. next_ - 1 : frame.created[k] = stack[L].created[k]
    <2>1. /\ Append(stack[L].created, next_) \in Seq(Cooked!Obj)
          /\ Len(Append(stack[L].created, next_)) = next_
          /\ \A k \in 1 .. next_ - 1 :
                 Append(stack[L].created, next_)[k] = stack[L].created[k]
          /\ Append(stack[L].created, next_)[next_] = next_
      BY <1>2, <1>3, AppendFacts
    <2> QED BY <1>2, <2>1 DEF Frame
  <1>5. stack' = [stack EXCEPT ![L] = frame]
    <2>1. [stack[L] EXCEPT !.created = Append(stack[L].created, next_)] = frame
      BY <1>2, FrameExcept
    <2>2. stack' = [stack EXCEPT ![L] =
                       [stack[L] EXCEPT !.created = Append(stack[L].created, next_)]]
      BY <1>2, <1>3
    <2> QED BY <2>1, <2>2
  <1> HIDE DEF frame
  <1>6. /\ stack' \in Seq(Frame) /\ Len(stack') = L
        /\ \A d \in 1 .. L : stack'[d] = IF d = L THEN frame ELSE stack[d]
    BY <1>2, <1>4, <1>5, CookFrames, ExceptSeq DEF CookIInv
  <1>7. next_ <= CookedObjects /\ CookedObjects \in Nat
    BY <1>3 DEF Cooked!Obj, Cooked!Assumptions
  <1>8. stack' # <<>>
    BY <1>2, <1>6, EmptySeq
  <1>9. Cooked!TypeOK'
    <2>1. things' \subseteq Cooked!Cooking \X Cooked!Obj
      BY <1>2, <1>3 DEF CookIInv, Cooked!TypeOK
    <2>2. {things', halfway', stuck'} \subseteq SUBSET (Cooked!Cooking \X Cooked!Obj)
      BY <1>1, <2>1 DEF CookIInv, Cooked!TypeOK
    <2> QED BY <1>1, <1>6, <2>2 DEF CookIInv, Cooked!TypeOK, Frame, Cooked!Obj, Cooked!Cooking
  <1>10. CookStack'
    <2>1. \A d \in 1 .. L :
              /\ stack'[d].cooking = stack[d].cooking
              /\ Len(stack'[d].created) <= CookedObjects
              /\ \A k \in 1 .. Len(stack'[d].created) :
                     stack'[d].created[k] = k /\ k \notin asks
      <3> TAKE d \in 1 .. L
      <3>1. CASE d = L
        <4>1. stack'[d] = frame
          BY <1>6, <3>1
        <4>2. \A k \in 1 .. next_ : k = next_ \/ k \in 1 .. next_ - 1
          BY <1>2
        <4>3. \A k \in 1 .. Len(stack[L].created) : stack[L].created[k] = k /\ k \notin asks
          BY <1>2 DEF CookIInv, CookStack
        <4>4. \A k \in 1 .. next_ - 1 : frame.created[k] = k /\ k \notin asks
          BY <1>2, <1>4, <4>3
        <4> QED BY <1>3, <1>4, <1>7, <3>1, <4>1, <4>2, <4>4
      <3>2. CASE d # L
        BY <1>6, <3>2 DEF CookIInv, CookStack
      <3> QED BY <3>1, <3>2
    <2>2. \A d \in 1 .. L : stack'[d].cooking <= cooked
      BY <2>1 DEF CookIInv, CookStack
    <2> QED BY <1>1, <1>2, <1>6, <1>8, <2>1, <2>2 DEF CookIInv, CookStack
  <1>11. CookThings'
    <2>1. \A t : (\E d \in 1 .. L : \E k \in 1 .. Len(stack'[d].created) :
                    t = <<stack'[d].cooking, k>>)
              <=> \/ \E d \in 1 .. L : \E k \in 1 .. Len(stack[d].created) :
                         t = <<stack[d].cooking, k>>
                  \/ t = <<stack[L].cooking, next_>>
      <3>1. \A k : k \in 1 .. next_ <=> k \in 1 .. Len(stack[L].created) \/ k = next_
        BY <1>2
      <3>2. stack'[L] = frame /\ \A d \in 1 .. L : d # L => stack'[d] = stack[d]
        BY <1>2, <1>6
      <3>3. \A d \in 1 .. L : d # L => stack'[d] = stack[d]
        BY <3>2
      <3>4. \A k : k \in 1 .. Len(stack'[L].created)
                    <=> k \in 1 .. Len(stack[L].created) \/ k = next_
        BY <1>4, <3>1, <3>2
      <3>5. stack'[L].cooking = stack[L].cooking
        BY <1>4, <3>2
      <3> HIDE DEF next_, L
      <3> QED BY <1>2, <3>3, <3>4, <3>5
    <2>2. \A t : OfStack(t)' <=> OfStack(t) \/ t = <<stack[L].cooking, next_>>
      BY <1>6, <2>1 DEF OfStack
    <2>3. \A t : (OfSession(t)' <=> OfSession(t)) /\ (OfFailures(t)' <=> OfFailures(t))
      BY <1>1 DEF OfSession, OfFailures, Cooked!Obj
    <2>4. \A t : t \in things' <=> t \in things \/ t = <<stack[L].cooking, next_>>
      BY <1>3
    <2> HIDE DEF next_, L
    <2> QED BY <2>2, <2>3, <2>4 DEF CookIInv, CookThings
  <1>12. CookNested' /\ (asks = {} => Cooked!CookedOnce)' /\ CookAnswers'
    BY <1>1, <1>6, <1>8 DEF CookIInv, CookNested, Cooked!CookedOnce, CookAnswers,
                            Cooked!DefaultOf
  <1> QED BY <1>9, <1>10, <1>11, <1>12 DEF CookIInv

\* The session that is returned created all of its objects, and was the only one.
LEMMA CookReturn ==
    ASSUME Cooked!Assumptions, CookIInv, Cooked!Return
    PROVE  CookIInv'
  <1>1. /\ UNCHANGED <<asks, named, raising, cooked, default, answers, things, halfway,
                       stuck, failures>>
        /\ stack # <<>> /\ raising = FALSE
        /\ session' = Cooked!Top.cooking /\ stack' = Cooked!Below
        /\ Cooked!NextObj > CookedObjects
    BY DEF Cooked!Return, Cooked!failings, Cooked!Working, Cooked!Cached, CookIInv, Cooked!TypeOK
  <1>2. CookedObjects \in Nat /\ None \notin Cooked!Cooking
    BY DEF Cooked!Assumptions
  <1>3. /\ Len(stack[Len(stack)].created) = CookedObjects
        /\ \A k \in Cooked!Obj : k \notin asks
    <2>1. Len(stack[Len(stack)].created) <= CookedObjects
      BY <1>1, CookTop DEF CookIInv, CookStack
    <2>2. Len(stack[Len(stack)].created) = CookedObjects
      BY <1>1, <1>2, <2>1, CookTop
    <2> QED BY <1>1, <2>2, CookTop DEF CookIInv, CookStack, Cooked!Obj
  <1>4. asks = {}
    BY <1>3 DEF CookIInv, Cooked!TypeOK
  <1>5. Len(stack) = 1
    <2>1. Len(stack) <= 1 /\ Len(stack) \in Nat \ {0}
      BY <1>1, <1>4, CookTop DEF CookIInv, CookNested
    <2>2. \A n \in Nat \ {0} : n <= 1 => n = 1
      OBVIOUS
    <2> QED BY <2>1, <2>2
  <1>6. stack' = <<>> /\ Len(stack') = 0 /\ stack' \in Seq(Frame)
    BY <1>1, <1>5, CookTop, EmptySeq
  <1>7. session' \in Cooked!Cooking /\ session' # None /\ session = None
        /\ session' = stack[1].cooking
    BY <1>1, <1>2, <1>5, CookTop
  <1>8. Cooked!TypeOK'
    <2>1. Len(stack') <= Recursion
      BY <1>6 DEF Cooked!Assumptions
    <2> QED BY <1>1, <1>6, <1>7, <2>1 DEF CookIInv, Cooked!TypeOK, Frame, Cooked!Obj, Cooked!Cooking
  <1>9. CookStack'
    BY <1>1, <1>6 DEF CookIInv, CookStack
  <1>10. CookThings'
    <2> SUFFICES \A t : /\ OfSession(t)' \/ OfStack(t)' => t \in things'
                        /\ t \in things' => OfSession(t)' \/ OfStack(t)' \/ OfFailures(t)'
      BY DEF CookThings
    <2> TAKE t
    <2>1. OfStack(t) <=> \E k \in 1 .. CookedObjects : t = <<stack[1].cooking, k>>
      BY <1>3, <1>5 DEF OfStack
    <2>2. OfSession(t)' <=> OfStack(t)
      BY <1>7, <2>1 DEF OfSession, Cooked!Obj
    <2>3. ~OfStack(t)' /\ ~OfSession(t)
      BY <1>6, <1>7 DEF OfStack, OfSession
    <2>4. OfFailures(t)' <=> OfFailures(t)
      BY <1>1 DEF OfFailures
    <2> QED BY <1>1, <2>2, <2>3, <2>4 DEF CookIInv, CookThings
  <1>11. CookNested' /\ (asks = {} => Cooked!CookedOnce)' /\ CookAnswers'
    BY <1>1, <1>6, <1>7 DEF CookIInv, CookNested, Cooked!CookedOnce, CookAnswers
  <1> QED BY <1>8, <1>9, <1>10, <1>11 DEF CookIInv

\* The last object that the innermost call created.
LEMMA CookLast ==
    ASSUME CookIInv, stack # <<>>, Cooked!Top.created # <<>>
    PROVE  LET L == Len(stack)
               n == Len(stack[L].created)
               front == SubSeq(stack[L].created, 1, n - 1)
           IN /\ Cooked!Top = stack[L] /\ n \in Nat \ {0} /\ n \in Cooked!Obj
              /\ Cooked!Last = n
              /\ front \in Seq(Cooked!Obj) /\ Len(front) = n - 1
              /\ \A k \in 1 .. n - 1 : front[k] = k /\ k \notin asks
  <1> DEFINE L == Len(stack)
             n == Len(stack[L].created)
             front == SubSeq(stack[L].created, 1, n - 1)
  <1>1. /\ L \in 1 .. L /\ Cooked!Top = stack[L] /\ stack[L].created \in Seq(Cooked!Obj)
        /\ stack[L].created # <<>>
    BY CookTop
  <1>2. \A k \in 1 .. n : stack[L].created[k] = k /\ k \notin asks
    BY <1>1 DEF CookIInv, CookStack
  <1>3. /\ n \in Nat \ {0} /\ stack[L].created[n] \in Cooked!Obj
        /\ front \in Seq(Cooked!Obj) /\ Len(front) = n - 1
        /\ \A k \in 1 .. n - 1 : front[k] = stack[L].created[k]
    BY <1>1, FrontFacts
  <1>4. n \in 1 .. n /\ \A k \in 1 .. n - 1 : k \in 1 .. n
    BY <1>3
  <1>5. Cooked!Last = n
    BY <1>1, <1>2, <1>4 DEF Cooked!Last
  <1> HIDE DEF n, front, L
  <1>6. \A k \in 1 .. n - 1 : front[k] = k /\ k \notin asks
    BY <1>2, <1>3, <1>4
  <1>7. n \in Cooked!Obj
    BY <1>2, <1>3, <1>4
  <1> QED BY <1>1, <1>3, <1>5, <1>6, <1>7 DEF n, front, L

\* No two calls under way are of one cooking.
LEMMA CookApart ==
    ASSUME CookIInv, NEW d \in 1 .. Len(stack), NEW e \in 1 .. Len(stack), d < e
    PROVE  stack[d].cooking # stack[e].cooking
  <1>1. stack[d].cooking < stack[e].cooking
    BY DEF CookIInv, CookStack
  <1>2. stack[d].cooking \in Nat /\ stack[e].cooking \in Nat
    BY CookFrames DEF CookIInv, Cooked!Cooking
  <1> QED BY <1>1, <1>2

\* The innermost call destroys what it created last, and nothing of another.
LEMMA CookDestroyLast ==
    ASSUME Cooked!Assumptions, CookIInv, Cooked!DestroyLast
    PROVE  CookIInv'
  <1> DEFINE L == Len(stack)
             n == Len(stack[L].created)
             front == SubSeq(stack[L].created, 1, n - 1)
             frame == [cooking |-> stack[L].cooking, created |-> front]
  <1>1. /\ UNCHANGED <<asks, named, raising, cooked, session, default, answers, halfway, stuck,
                       failures>>
        /\ raising /\ stack # <<>> /\ Cooked!Top.created # <<>>
        /\ stack' = [stack EXCEPT ![L].created = SubSeq(@, 1, Len(@) - 1)]
        /\ things' = things \ {<<Cooked!Top.cooking, Cooked!Last>>}
    BY DEF Cooked!DestroyLast, Cooked!failings, CookIInv, CookStack
  <1>2. /\ L \in Nat \ {0} /\ L \in 1 .. L /\ stack[L] \in Frame /\ session = None
        /\ stack[L].cooking \in Cooked!Cooking
    BY <1>1, CookTop
  <1>3. /\ Cooked!Top = stack[L] /\ n \in Nat \ {0} /\ n \in Cooked!Obj
        /\ Cooked!Last = n
        /\ front \in Seq(Cooked!Obj) /\ Len(front) = n - 1
        /\ \A k \in 1 .. n - 1 : front[k] = k /\ k \notin asks
    BY <1>1, CookLast
  <1>4. frame \in Frame /\ frame.cooking = stack[L].cooking /\ frame.created = front
    BY <1>2, <1>3 DEF Frame
  <1>5. stack' = [stack EXCEPT ![L] = frame]
    <2>1. [stack[L] EXCEPT !.created = front] = frame
      BY <1>2, FrameExcept
    <2>2. stack' = [stack EXCEPT ![L] = [stack[L] EXCEPT !.created = front]]
      BY <1>1, <1>2
    <2> QED BY <2>1, <2>2
  <1> HIDE DEF frame, front
  <1>6. /\ stack' \in Seq(Frame) /\ Len(stack') = L
        /\ \A d \in 1 .. L : stack'[d] = IF d = L THEN frame ELSE stack[d]
    BY <1>2, <1>4, <1>5, CookFrames, ExceptSeq DEF CookIInv
  <1>7. n <= CookedObjects /\ CookedObjects \in Nat
    BY <1>3 DEF Cooked!Obj, Cooked!Assumptions
  <1>8. stack' # <<>>
    BY <1>2, <1>6, EmptySeq
  <1>9. Cooked!TypeOK'
    <2>1. {things', halfway', stuck'} \subseteq SUBSET (Cooked!Cooking \X Cooked!Obj)
      BY <1>1 DEF CookIInv, Cooked!TypeOK
    <2> QED BY <1>1, <1>6, <2>1 DEF CookIInv, Cooked!TypeOK, Frame, Cooked!Obj, Cooked!Cooking
  <1>10. CookStack'
    <2>1. \A d \in 1 .. L :
              /\ stack'[d].cooking = stack[d].cooking
              /\ Len(stack'[d].created) <= CookedObjects
              /\ \A k \in 1 .. Len(stack'[d].created) :
                     stack'[d].created[k] = k /\ k \notin asks
      <3> TAKE d \in 1 .. L
      <3>1. CASE d = L
        <4>1. stack'[d] = frame
          BY <1>6, <3>1
        <4>2. n - 1 <= CookedObjects
          BY <1>3, <1>7
        <4> QED BY <1>3, <1>4, <3>1, <4>1, <4>2
      <3>2. CASE d # L
        BY <1>6, <3>2 DEF CookIInv, CookStack
      <3> QED BY <3>1, <3>2
    <2>2. \A d \in 1 .. L : stack'[d].cooking <= cooked
      BY <2>1 DEF CookIInv, CookStack
    <2> QED BY <1>1, <1>2, <1>6, <1>8, <2>1, <2>2 DEF CookIInv, CookStack
  <1>11. CookThings'
    <2> SUFFICES ASSUME NEW t
                 PROVE  /\ OfSession(t)' \/ OfStack(t)' => t \in things'
                        /\ t \in things' => OfSession(t)' \/ OfStack(t)' \/ OfFailures(t)'
      BY DEF CookThings
    <2>1. (OfSession(t)' <=> OfSession(t)) /\ (OfFailures(t)' <=> OfFailures(t)) /\ ~OfSession(t)
      BY <1>1, <1>2 DEF OfSession, OfFailures, Cooked!Obj
    <2>2. t \in things' <=> t \in things /\ t # <<stack[L].cooking, n>>
      BY <1>1, <1>3
    <2>3. stack'[L].cooking = stack[L].cooking /\ Len(stack'[L].created) = n - 1
      BY <1>2, <1>3, <1>4, <1>6
    <2>4. ASSUME NEW d \in 1 .. L, d # L
          PROVE  stack'[d] = stack[d] /\ stack[d].cooking # stack[L].cooking
      <3>1. d < L
        BY <1>2, <2>4
      <3>2. stack[d].cooking # stack[L].cooking
        BY <1>2, <3>1, CookApart
      <3> QED BY <1>6, <2>4, <3>2
    <2>5. \A k : k \in 1 .. n - 1 <=> k \in 1 .. n /\ k # n
      BY <1>3
    <2> HIDE DEF n, L
    <2>6. ASSUME OfStack(t)'
          PROVE  OfStack(t) /\ t # <<stack[L].cooking, n>>
      <3>1. PICK d \in 1 .. L : \E k \in 1 .. Len(stack'[d].created) :
                t = <<stack'[d].cooking, k>>
        BY <1>6, <2>6 DEF OfStack
      <3>2. CASE d = L
        <4>1. PICK k \in 1 .. n - 1 : t = <<stack[L].cooking, k>>
          BY <2>3, <3>1, <3>2
        <4>2. k \in 1 .. n /\ k # n
          BY <2>5
        <4> QED BY <1>2, <4>1, <4>2 DEF OfStack, n, L
      <3>3. CASE d # L
        <4>1. stack'[d] = stack[d] /\ stack[d].cooking # stack[L].cooking
          BY <2>4, <3>3
        <4>2. PICK k \in 1 .. Len(stack[d].created) : t = <<stack[d].cooking, k>>
          BY <3>1, <4>1
        <4> QED BY <4>1, <4>2 DEF OfStack, L
      <3> QED BY <3>2, <3>3
    <2>7. ASSUME OfStack(t), t # <<stack[L].cooking, n>>
          PROVE  OfStack(t)'
      <3>1. PICK d \in 1 .. L : \E k \in 1 .. Len(stack[d].created) :
                t = <<stack[d].cooking, k>>
        BY <2>7 DEF OfStack, L
      <3>2. CASE d = L
        <4>1. PICK k \in 1 .. n : t = <<stack[L].cooking, k>>
          BY <3>1, <3>2 DEF n
        <4>2. k \in 1 .. n - 1
          BY <2>5, <2>7, <4>1
        <4> QED BY <1>2, <1>6, <2>3, <4>1, <4>2 DEF OfStack
      <3>3. CASE d # L
        BY <1>6, <2>4, <3>1, <3>3 DEF OfStack
      <3> QED BY <3>2, <3>3
    <2> QED BY <2>1, <2>2, <2>6, <2>7 DEF CookIInv, CookThings
  <1>12. CookNested' /\ (asks = {} => Cooked!CookedOnce)' /\ CookAnswers'
    BY <1>1, <1>6, <1>8 DEF CookIInv, CookNested, Cooked!CookedOnce, CookAnswers,
                            Cooked!DefaultOf
  <1> QED BY <1>9, <1>10, <1>11, <1>12 DEF CookIInv

\* The innermost call ends with an exception, with nothing created any more, or with a
\* destroy() that failed.
LEMMA CookLeaves ==
    ASSUME Cooked!Assumptions, CookIInv, Cooked!Unwound \/ Cooked!DestroyFails
    PROVE  CookIInv'
  <1> DEFINE L == Len(stack)
             n == Len(stack[L].created)
             failing == <<stack[L].cooking, n>>
  <1>1. /\ UNCHANGED <<asks, named, cooked, session, default, answers, halfway>>
        /\ raising /\ stack # <<>>
        /\ stack' = Cooked!Below /\ raising' = (L > 1)
    BY DEF Cooked!Unwound, Cooked!DestroyFails, Cooked!Leaves, CookIInv, CookStack
  <1>2. /\ L \in Nat \ {0} /\ L \in 1 .. L /\ session = None
        /\ stack' \in Seq(Frame) /\ Len(stack') = L - 1
        /\ \A d \in 1 .. Len(stack') : d \in 1 .. L /\ stack'[d] = stack[d]
        /\ Cooked!Top = stack[L] /\ stack[L].cooking \in Cooked!Cooking /\ n \in Nat
    BY <1>1, CookTop
  <1>3. \/ n = 0 /\ UNCHANGED <<things, stuck, failures>>
        \/ /\ n \in Cooked!Obj
           /\ things' \in {things, things \ {failing}} /\ stuck' = stuck \cup {failing}
           /\ failures < CookingFaults /\ failures' = failures + 1
    <2>1. CASE Cooked!Unwound
      <3>1. stack[L].created = <<>>
        BY <1>2, <2>1 DEF Cooked!Unwound
      <3>2. n = 0
        BY <3>1, EmptySeq
      <3> QED BY <2>1, <3>2 DEF Cooked!Unwound
    <2>2. CASE Cooked!DestroyFails
      <3>1. Cooked!Top.created # <<>>
        BY <2>2 DEF Cooked!DestroyFails
      <3>2. Cooked!Last = n /\ n \in Cooked!Obj
        BY <1>1, <3>1, CookLast
      <3> QED BY <1>2, <2>2, <3>2 DEF Cooked!DestroyFails
    <2> QED BY <2>1, <2>2
  <1>4. raising' => stack' # <<>>
    <2>1. \A m \in Nat \ {0} : m > 1 => m - 1 # 0
      OBVIOUS
    <2>2. raising' => Len(stack') # 0
      BY <1>1, <1>2, <2>1
    <2> QED BY <2>2, EmptySeq
  <1>5. /\ failures' \in 0 .. CookingFaults /\ failures' >= failures /\ failures \in Nat
        /\ failures = failures' \/ failures' > 0
    BY <1>3 DEF Cooked!Assumptions, CookIInv, Cooked!TypeOK
  <1>6. Cooked!TypeOK'
    <2>1. Len(stack') <= Recursion
      BY <1>2 DEF Cooked!Assumptions, CookIInv, Cooked!TypeOK
    <2>2. {things', halfway', stuck'} \subseteq SUBSET (Cooked!Cooking \X Cooked!Obj)
      BY <1>1, <1>2, <1>3 DEF CookIInv, Cooked!TypeOK
    <2>3. raising' \in BOOLEAN
      BY <1>1
    <2> QED BY <1>1, <1>2, <1>5, <2>1, <2>2, <2>3
        DEF CookIInv, Cooked!TypeOK, Frame, Cooked!Obj, Cooked!Cooking
  <1>7. CookStack'
    <2> HIDE DEF n, failing
    <2>1. \A d \in 1 .. Len(stack') : d \in 1 .. Len(stack) /\ stack'[d] = stack[d]
      BY <1>2
    <2>2. session' = None
      BY <1>1, <1>2
    <2>3. \A d \in 1 .. Len(stack') :
              /\ stack'[d].cooking <= cooked' /\ Len(stack'[d].created) <= CookedObjects
              /\ \A k \in 1 .. Len(stack'[d].created) :
                     stack'[d].created[k] = k /\ k \notin asks'
      BY <1>1, <2>1 DEF CookIInv, CookStack
    <2>4. \A d, e \in 1 .. Len(stack') : d < e => stack'[d].cooking < stack'[e].cooking
      BY <2>1 DEF CookIInv, CookStack
    <2> QED BY <1>4, <2>2, <2>3, <2>4 DEF CookStack
  <1>8. CookThings'
    <2> SUFFICES ASSUME NEW t
                 PROVE  /\ OfSession(t)' \/ OfStack(t)' => t \in things'
                        /\ t \in things' => OfSession(t)' \/ OfStack(t)' \/ OfFailures(t)'
      BY DEF CookThings
    <2>1. ~OfSession(t)' /\ ~OfSession(t)
      BY <1>1, <1>2 DEF OfSession
    <2>2. stuck \subseteq stuck' /\ halfway \subseteq halfway' /\ things' \subseteq things
      BY <1>1, <1>3
    <2>3. OfFailures(t) => OfFailures(t)'
      BY <2>2, CookFailures
    <2>4. ASSUME OfStack(t)'
          PROVE  OfStack(t) /\ t \in things'
      <3>1. PICK d \in 1 .. Len(stack') : \E k \in 1 .. Len(stack'[d].created) :
                t = <<stack'[d].cooking, k>>
        BY <2>4 DEF OfStack
      <3>2. d \in 1 .. L /\ stack'[d] = stack[d] /\ d < L
        BY <1>2
      <3>3. stack[d].cooking # stack[L].cooking
        BY <1>2, <3>2, CookApart
      <3>4. OfStack(t) /\ t # failing
        BY <3>1, <3>2, <3>3 DEF OfStack
      <3>5. t \in things
        BY <3>4 DEF CookIInv, CookThings
      <3> QED BY <1>3, <3>4, <3>5
    <2>5. ASSUME OfStack(t), t \in things'
          PROVE  OfStack(t)' \/ OfFailures(t)'
      <3>1. PICK d \in 1 .. L : \E k \in 1 .. Len(stack[d].created) :
                t = <<stack[d].cooking, k>>
        BY <2>5 DEF OfStack
      <3>2. CASE d = L
        <4>1. PICK k \in 1 .. n : t = <<stack[L].cooking, k>>
          BY <3>1, <3>2
        <4>2. stuck' = stuck \cup {failing}
          BY <1>2, <1>3, <4>1
        <4>3. failing \in stuck' /\ failing[1] = stack[L].cooking /\ failing[2] = n
          BY <4>2
        <4> HIDE DEF failing, n
        <4> QED BY <4>1, <4>3 DEF OfFailures
      <3>3. CASE d # L
        <4>1. d \in 1 .. Len(stack')
          BY <1>2, <3>3
        <4> QED BY <1>2, <3>1, <4>1 DEF OfStack
      <3> QED BY <3>2, <3>3
    <2> QED BY <2>1, <2>2, <2>3, <2>4, <2>5 DEF CookIInv, CookThings
  <1>9. CookNested' /\ (asks = {} => Cooked!CookedOnce)' /\ CookAnswers'
    BY <1>1, <1>2, <1>5 DEF CookIInv, CookNested, Cooked!CookedOnce, CookAnswers, Cooked!DefaultOf
  <1> QED BY <1>6, <1>7, <1>8, <1>9 DEF CookIInv

LEMMA CookNext ==
    ASSUME Cooked!Assumptions, CookIInv, [Cooked!Next]_cook
    PROVE  CookIInv'
  <1>1. CASE UNCHANGED cook
    BY <1>1 DEF cook, CookIInv, Cooked!TypeOK, CookStack, CookNested, CookAnswers, CookThings,
                OfSession, OfStack, OfFailures, Cooked!Obj, Cooked!CookedOnce, Cooked!DefaultOf
  <1> QED
    BY <1>1, CookGet, CookCook, CookRaises, CookCreateNext, CookReturn, CookDestroyLast,
       CookLeaves
    DEF Cooked!Next

\* environment.session() and HOST's default (environment.py:13-26, variable.py, recipes'
\* session.py:44-63): whatever a recipe asks for, however deep its cookings nested, and
\* whichever create() and destroy() fail in them, the cached session and what the calls
\* under way created is on the host as a whole; besides, only what a failing create() or
\* destroy() left, as its object or those created before it, is; all callers of HOST.get()
\* get one answer; and a recipe that asks for nothing is cooked once unless one fails.
THEOREM DefaultIsOne == Spec => []OneDefault
  <1>1. Init => (part = "default" => CookIInv)
    BY PartsAssumption, CookInit DEF Init
  <1>2. (part = "default" => CookIInv) /\ [Next]_vars => (part = "default" => CookIInv)'
    BY PartsAssumption, PartStays, CookSteps, CookNext
  <1>3. (part = "default" => CookIInv) => OneDefault
    BY CookOneDefault DEF OneDefault
  <1> QED BY <1>1, <1>2, <1>3, PTL DEF Spec
-----------------------------------------------------------------------------
(* BootWait                                                                *)

\* What a wait_until_booted() knows at each of its steps: what it sleeps or waits for ends
\* soon enough, and the console was quiet since it was last heard of.
BootPhases ==
    /\ phase \in {"listen", "read"} => up
    /\ phase = "ping" => until <= end + PingTimeout
    /\ phase = "sleep" => until <= end + PingTimeout + Interval
    /\ phase \in {"test", "listen"} => now <= end + PingTimeout + Interval
    /\ phase = "read" => until <= end
    /\ phase = "read" /\ ~written => noise + quietTime <= until /\ reply + quietTime <= until
    /\ phase = "listen" \/ (phase = "read" /\ written) => now = noise \/ now = reply

BootIInv ==
    /\ Boot!TypeOK /\ BootPhases
    /\ Boot!BootedMeansQuiet /\ Boot!GivenUpForAReason /\ Boot!EndsInTime

LEMMA BootSteps ==
    ASSUME [Next]_vars, part = "boot"
    PROVE  [Boot!Next]_boot
  BY DEF vars, Next, Only, SessionStep, DefaultStep, TransferStep, GroupStep, BootStep,
         KVNetStep, DevicesStep, KVModelStep, NetStep

LEMMA BootInit ==
    ASSUME Boot!Assumptions, Boot!Init
    PROVE  BootIInv
  <1>1. /\ end \in Nat /\ PingTimeout \in Nat /\ Interval \in Nat
        /\ quietTime \in QuietTimes /\ end \in Timeouts /\ MaxTime \in Nat
    BY DEF Boot!Assumptions, Boot!Init
  <1>2. Boot!TypeOK
    <2>1. {up, written, ended} \subseteq BOOLEAN
      BY DEF Boot!Init
    <2>2. {noise, reply} \subseteq 0 .. now /\ now \in 0 .. MaxTime /\ until \in Nat
      BY <1>1 DEF Boot!Init
    <2>3. phase = "test"
      BY DEF Boot!Init
    <2> QED BY <1>1, <2>1, <2>2, <2>3 DEF Boot!TypeOK
  <1>3. BootPhases
    BY <1>1 DEF Boot!Init, BootPhases
  <1>4. Boot!BootedMeansQuiet /\ Boot!GivenUpForAReason /\ Boot!EndsInTime
    BY <1>1 DEF Boot!Init, Boot!BootedMeansQuiet, Boot!GivenUpForAReason, Boot!EndsInTime
  <1> QED BY <1>2, <1>3, <1>4 DEF BootIInv

LEMMA BootTest ==
    ASSUME Boot!Assumptions, BootIInv, phase \notin Boot!Done, Boot!Test
    PROVE  BootIInv'
  BY DEF Boot!Assumptions, Boot!Test, Boot!Passed, Boot!Remaining, Boot!PingUntil, Boot!Done, Boot!world,
         BootIInv, BootPhases, Boot!TypeOK, Boot!BootedMeansQuiet,
         Boot!GivenUpForAReason, Boot!EndsInTime, Boot!Latest

LEMMA BootReplied ==
    ASSUME Boot!Assumptions, BootIInv, phase \notin Boot!Done, Boot!Replied
    PROVE  BootIInv'
  BY DEF Boot!Assumptions, Boot!Replied, Boot!Done, Boot!world,
         BootIInv, BootPhases, Boot!TypeOK, Boot!BootedMeansQuiet,
         Boot!GivenUpForAReason, Boot!EndsInTime, Boot!Latest

LEMMA BootUnanswered ==
    ASSUME Boot!Assumptions, BootIInv, phase \notin Boot!Done, Boot!Unanswered
    PROVE  BootIInv'
  BY DEF Boot!Assumptions, Boot!Unanswered, Boot!Done, Boot!world,
         BootIInv, BootPhases, Boot!TypeOK, Boot!BootedMeansQuiet,
         Boot!GivenUpForAReason, Boot!EndsInTime, Boot!Latest

LEMMA BootPingFails ==
    ASSUME Boot!Assumptions, BootIInv, phase \notin Boot!Done, Boot!PingFails
    PROVE  BootIInv'
  BY DEF Boot!Assumptions, Boot!PingFails, Boot!Done, Boot!world,
         BootIInv, BootPhases, Boot!TypeOK, Boot!BootedMeansQuiet,
         Boot!GivenUpForAReason, Boot!EndsInTime, Boot!Latest

LEMMA BootSlept ==
    ASSUME Boot!Assumptions, BootIInv, phase \notin Boot!Done, Boot!Slept
    PROVE  BootIInv'
  BY DEF Boot!Assumptions, Boot!Slept, Boot!Done, Boot!world,
         BootIInv, BootPhases, Boot!TypeOK, Boot!BootedMeansQuiet,
         Boot!GivenUpForAReason, Boot!EndsInTime, Boot!Latest

LEMMA BootListen ==
    ASSUME Boot!Assumptions, BootIInv, phase \notin Boot!Done, Boot!Listen
    PROVE  BootIInv'
  BY DEF Boot!Assumptions, Boot!Listen, Boot!Enough, Boot!Remaining, Boot!ListenUntil, Boot!Done, Boot!world,
         BootIInv, BootPhases, Boot!TypeOK, Boot!BootedMeansQuiet,
         Boot!GivenUpForAReason, Boot!EndsInTime, Boot!Latest

LEMMA BootHeard ==
    ASSUME Boot!Assumptions, BootIInv, phase \notin Boot!Done, Boot!Heard
    PROVE  BootIInv'
  BY DEF Boot!Assumptions, Boot!Heard, Boot!AfterOutput, Boot!Done, Boot!world,
         BootIInv, BootPhases, Boot!TypeOK, Boot!BootedMeansQuiet,
         Boot!GivenUpForAReason, Boot!EndsInTime, Boot!Latest

LEMMA BootQuiet ==
    ASSUME Boot!Assumptions, BootIInv, phase \notin Boot!Done, Boot!Quiet
    PROVE  BootIInv'
  BY DEF Boot!Assumptions, Boot!Quiet, Boot!Done, Boot!world,
         BootIInv, BootPhases, Boot!TypeOK, Boot!BootedMeansQuiet,
         Boot!GivenUpForAReason, Boot!EndsInTime, Boot!Latest

LEMMA BootConsoleEnded ==
    ASSUME Boot!Assumptions, BootIInv, phase \notin Boot!Done, Boot!ConsoleEnded
    PROVE  BootIInv'
  BY DEF Boot!Assumptions, Boot!ConsoleEnded, Boot!Done, Boot!world,
         BootIInv, BootPhases, Boot!TypeOK, Boot!BootedMeansQuiet,
         Boot!GivenUpForAReason, Boot!EndsInTime, Boot!Latest

LEMMA BootComesUp ==
    ASSUME Boot!Assumptions, BootIInv, phase \notin Boot!Done, Boot!ComesUp
    PROVE  BootIInv'
  BY DEF Boot!Assumptions, Boot!ComesUp, Boot!Done, Boot!world,
         BootIInv, BootPhases, Boot!TypeOK, Boot!BootedMeansQuiet,
         Boot!GivenUpForAReason, Boot!EndsInTime, Boot!Latest

LEMMA BootWrites ==
    ASSUME Boot!Assumptions, BootIInv, phase \notin Boot!Done, Boot!Writes
    PROVE  BootIInv'
  BY DEF Boot!Assumptions, Boot!Writes, Boot!Done, Boot!world,
         BootIInv, BootPhases, Boot!TypeOK, Boot!BootedMeansQuiet,
         Boot!GivenUpForAReason, Boot!EndsInTime, Boot!Latest

LEMMA BootConsoleEnds ==
    ASSUME Boot!Assumptions, BootIInv, phase \notin Boot!Done, Boot!ConsoleEnds
    PROVE  BootIInv'
  BY DEF Boot!Assumptions, Boot!ConsoleEnds, Boot!Done, Boot!world,
         BootIInv, BootPhases, Boot!TypeOK, Boot!BootedMeansQuiet,
         Boot!GivenUpForAReason, Boot!EndsInTime, Boot!Latest

LEMMA BootTick ==
    ASSUME Boot!Assumptions, BootIInv, phase \notin Boot!Done, Boot!Tick
    PROVE  BootIInv'
  BY DEF Boot!Assumptions, Boot!Tick, Boot!Waiting, Boot!Done, Boot!world,
         BootIInv, BootPhases, Boot!TypeOK, Boot!BootedMeansQuiet,
         Boot!GivenUpForAReason, Boot!EndsInTime, Boot!Latest

LEMMA BootNext ==
    ASSUME Boot!Assumptions, BootIInv, [Boot!Next]_boot
    PROVE  BootIInv'
  <1>1. CASE UNCHANGED boot
    BY <1>1 DEF boot, BootIInv, BootPhases, Boot!TypeOK, Boot!BootedMeansQuiet,
                Boot!GivenUpForAReason, Boot!EndsInTime, Boot!Latest, Boot!Done
  <1> QED
    BY <1>1, BootTest, BootReplied, BootUnanswered, BootPingFails, BootSlept, BootListen,
       BootHeard, BootQuiet, BootConsoleEnded, BootComesUp, BootWrites, BootConsoleEnds,
       BootTick
    DEF Boot!Next

\* wait_until_booted() (wait.py): whenever the machine comes up, its console writes or ends,
\* and time passes, one that is called booted answered and was quiet for the time asked for,
\* and a wait ends in its time, or for a reason.
THEOREM BootedMeansBooted == Spec => []BootedForAReason
  <1>1. Init => (part = "boot" => BootIInv)
    BY PartsAssumption, BootInit DEF Init
  <1>2. (part = "boot" => BootIInv) /\ [Next]_vars => (part = "boot" => BootIInv)'
    BY PartsAssumption, PartStays, BootSteps, BootNext
  <1>3. (part = "boot" => BootIInv) => BootedForAReason
    BY DEF BootedForAReason, BootIInv
  <1> QED BY <1>1, <1>2, <1>3, PTL DEF Spec

-----------------------------------------------------------------------------
(* NetworkModel                                                            *)

\* In a network that isn't odd, each interface has one host.
NetMacs ==
    ~odd =>
        /\ \A k \in 1 .. Len(hosts) : hosts[k].mac \in connected
        /\ \A k, l \in 1 .. Len(hosts) : k # l => hosts[k].mac # hosts[l].mac

NetIInv == Net!TypeOK /\ NetMacs /\ Net!FreeIps

LEMMA NetSteps ==
    ASSUME [Next]_vars, part = "net"
    PROVE  [Net!Next]_net
  BY DEF vars, Next, Only, SessionStep, DefaultStep, TransferStep, GroupStep, BootStep,
         KVNetStep, DevicesStep, KVModelStep, NetStep

\* A network is where its address is.
LEMMA NetBounds ==
    ASSUME Net!Assumptions, NEW n \in Net!Elements
    PROVE  /\ n.address \in Nat /\ n.size \in Nat \ {0} /\ n.dhcp \in BOOLEAN
           /\ Net!First(n) \in Nat /\ Net!Last(n) = Net!First(n) + n.size - 1
           /\ Net!First(n) <= n.address /\ n.address <= Net!Last(n)
           /\ Net!First(n) .. Net!Last(n) \subseteq Addresses
  <1>1. /\ n.address \in Addresses /\ n.size \in Sizes /\ n.dhcp \in BOOLEAN
        /\ n.address \in Nat /\ n.size \in Nat \ {0}
    BY DEF Net!Assumptions, Net!Elements
  <1>2. \A a \in Nat, s \in Nat \ {0} :
            a % s \in 0 .. s - 1 /\ a - (a % s) \in Nat /\ a - (a % s) <= a
    OBVIOUS
  <1>3. n.address % n.size \in 0 .. n.size - 1 /\ Net!First(n) \in Nat
        /\ Net!First(n) = n.address - (n.address % n.size)
    BY <1>1, <1>2 DEF Net!First
  <1>4. Net!First(n) .. Net!Last(n) \subseteq Addresses
    BY <1>1 DEF Net!Assumptions, Net!First, Net!Last
  <1> QED BY <1>1, <1>3, <1>4 DEF Net!Last

LEMMA NetHosts ==
    ASSUME Net!Assumptions, NEW n \in Net!Elements
    PROVE  Net!HostsOf(n) \subseteq Addresses /\ Net!HostsOf(n) \subseteq Nat
  <1>1. Net!HostsOf(n) \subseteq Net!First(n) .. Net!Last(n)
    BY NetBounds DEF Net!HostsOf
  <1> QED BY <1>1, NetBounds DEF Net!Assumptions

\* DHCP's ranges, below and above the network's own address, are all of its hosts.
LEMMA NetRanges ==
    ASSUME Net!Assumptions, NEW n \in Net!Elements, n.size > 2
    PROVE  UNION {r[1] .. r[2] : r \in Net!Ranges(n)} = Net!HostsOf(n) \ {n.address}
  <1> DEFINE f == Net!First(n)
             l == Net!Last(n)
             below == <<f + 1, n.address - 1>>
             above == <<n.address + 1, l - 1>>
  <1>1. f \in Nat /\ l \in Nat /\ n.address \in Nat /\ f <= n.address /\ n.address <= l
    BY NetBounds
  <1>2. Net!HostsOf(n) = f + 1 .. l - 1
    BY NetBounds DEF Net!HostsOf
  <1>3. \A x : x \in UNION {r[1] .. r[2] : r \in Net!Ranges(n)} <=>
            x \in f + 1 .. n.address - 1 \/ x \in n.address + 1 .. l - 1
    <2>1. Net!Ranges(n) = {r \in {below, above} : r[1] <= r[2]}
      BY DEF Net!Ranges
    <2>2. \A x : x \in UNION {r[1] .. r[2] : r \in Net!Ranges(n)} <=>
              \E r \in {below, above} : r[1] <= r[2] /\ x \in r[1] .. r[2]
      BY <2>1
    <2>3. \A a, b \in Int : \A x : x \in a .. b => a <= b
      OBVIOUS
    <2>4. /\ below[1] = f + 1 /\ below[2] = n.address - 1
          /\ above[1] = n.address + 1 /\ above[2] = l - 1
      OBVIOUS
    <2>5. /\ f + 1 \in Int /\ n.address - 1 \in Int /\ n.address + 1 \in Int /\ l - 1 \in Int
      BY <1>1
    <2> HIDE DEF below, above, f, l
    <2> QED BY <2>2, <2>3, <2>4, <2>5
  <1> HIDE DEF f, l
  <1> QED BY <1>1, <1>2, <1>3

LEMMA NetInit ==
    ASSUME Net!Assumptions, Net!Init
    PROVE  NetIInv
  <1>1. CASE ip = Net!NoIp /\ hosts = <<>>
    BY <1>1, EmptySeq DEF Net!Init, NetIInv, NetMacs, Net!TypeOK, Net!FreeIps
  <1>2. ASSUME odd, ip \in {n \in Net!Elements : n.dhcp},
               NEW a \in Net!HostsOf(ip) \ {ip.address},
               hosts = <<[mac |-> Named, ip |-> a]>>
        PROVE  NetIInv
    <2>1. a \in Addresses
      BY <1>2, NetHosts
    <2>2. hosts \in Seq([mac : Macs \cup {Named}, ip : Addresses])
      BY <1>2, <2>1
    <2> QED BY <1>2, <2>2 DEF Net!Init, NetIInv, NetMacs, Net!TypeOK, Net!FreeIps
  <1> QED BY <1>1, <1>2 DEF Net!Init

\* Where there's one host for each interface, all of their IPs are taken.
LEMMA NetUsed ==
    ASSUME NetIInv, ~odd, Net!Assumptions
    PROVE  \A k \in 1 .. Len(hosts) : hosts[k].ip \in Net!GetHosts
  <1> TAKE k \in 1 .. Len(hosts)
  <1>1. hosts[k].mac \in connected /\ connected \subseteq Macs /\ Named \notin Macs
        /\ Len(hosts) \in Nat
    BY LenProperties DEF NetIInv, NetMacs, Net!TypeOK, Net!Assumptions
  <1>2. \A l \in k + 1 .. Len(hosts) : hosts[l].mac # hosts[k].mac
    BY <1>1 DEF NetIInv, NetMacs
  <1> QED BY <1>1, <1>2 DEF Net!GetHosts

\* A host of an interface that had none, with an IP that was free.
LEMMA NetReserve ==
    ASSUME Net!Assumptions, NetIInv, NEW mac \in Macs, NEW a \in Net!Free,
           ip.dhcp, odd \/ mac \notin connected, Net!Reserve(mac, a),
           connected' = connected \cup {mac}, UNCHANGED <<odd, ip>>
    PROVE  NetIInv'
  <1> DEFINE host_ == [mac |-> mac, ip |-> a]
             Host == [mac : Macs \cup {Named}, ip : Addresses]
  <1>1. ip \in Net!Elements
    BY DEF NetIInv, Net!TypeOK, Net!NoIp
  <1>2. a \in Net!HostsOf(ip) /\ a # ip.address /\ a \notin Net!GetHosts /\ a \in Addresses
    BY <1>1, NetHosts DEF Net!Free, Net!Used
  <1>3. host_ \in Host /\ hosts \in Seq(Host) /\ hosts' = Append(hosts, host_)
        /\ outcome' = "returned"
    BY <1>2 DEF Net!Reserve, NetIInv, Net!TypeOK
  <1>4. /\ Len(hosts) \in Nat /\ hosts' \in Seq(Host) /\ Len(hosts') = Len(hosts) + 1
        /\ \A k \in 1 .. Len(hosts) : hosts'[k] = hosts[k]
        /\ hosts'[Len(hosts) + 1] = host_
    BY <1>3, AppendFacts
  <1>5. \A k \in 1 .. Len(hosts') : k \in 1 .. Len(hosts) \/ k = Len(hosts) + 1
    BY <1>4
  <1>6. Net!TypeOK'
    BY <1>3, <1>4 DEF NetIInv, Net!TypeOK
  <1>7. NetMacs'
    <2> SUFFICES ASSUME ~odd
                 PROVE  /\ \A k \in 1 .. Len(hosts') : hosts'[k].mac \in connected'
                        /\ \A k, l \in 1 .. Len(hosts') : k # l => hosts'[k].mac # hosts'[l].mac
      BY DEF NetMacs
    <2>1. /\ \A k \in 1 .. Len(hosts) : hosts[k].mac \in connected
          /\ \A k, l \in 1 .. Len(hosts) : k # l => hosts[k].mac # hosts[l].mac
      BY DEF NetIInv, NetMacs
    <2>2. \A k \in 1 .. Len(hosts) : hosts'[k].mac = hosts[k].mac
      BY <1>4
    <2>3. hosts'[Len(hosts) + 1].mac = mac /\ mac \notin connected
      BY <1>4
    <2> QED BY <1>5, <2>1, <2>2, <2>3
  <1>8. ~odd => \A k \in 1 .. Len(hosts) : hosts[k].ip # a
    BY <1>2, NetUsed
  <1>9. Net!FreeIps'
    <2> SUFFICES ASSUME ~odd
                 PROVE  /\ \A k \in 1 .. Len(hosts') :
                               hosts'[k].ip \in Net!HostsOf(ip') \ {ip'.address}
                        /\ \A k, l \in 1 .. Len(hosts') : k # l => hosts'[k].ip # hosts'[l].ip
      BY DEF Net!FreeIps, Net!HostsOf, Net!First, Net!Last
    <2>1. \A k \in 1 .. Len(hosts) : hosts'[k].ip = hosts[k].ip /\ hosts[k].ip # a
      BY <1>4, <1>8
    <2>2. hosts'[Len(hosts) + 1].ip = a
      BY <1>4
    <2> QED BY <1>2, <1>5, <2>1, <2>2 DEF NetIInv, Net!FreeIps
  <1> QED BY <1>6, <1>7, <1>9 DEF NetIInv

\* No host is added.
LEMMA NetSame ==
    ASSUME NetIInv, NEW mac \in Macs, outcome' \in {"returned", "raised"},
           connected' = connected \cup {mac}, UNCHANGED <<odd, ip, hosts>>
    PROVE  NetIInv'
  BY DEF NetIInv, NetMacs, Net!TypeOK, Net!FreeIps, Net!HostsOf, Net!First, Net!Last

LEMMA NetNext ==
    ASSUME Net!Assumptions, NetIInv, [Net!Next]_net
    PROVE  NetIInv'
  <1>1. CASE UNCHANGED net
    BY <1>1 DEF net, NetIInv, NetMacs, Net!TypeOK, Net!FreeIps, Net!HostsOf, Net!First, Net!Last
  <1>2. ASSUME NEW n \in Net!Elements, Net!Ip(n)
        PROVE  NetIInv'
    <2>1. hosts' = <<>> /\ Len(hosts') = 0 /\ hosts' \in Seq([mac : Macs \cup {Named}, ip : Addresses])
      BY <1>2, EmptySeq DEF Net!Ip, Net!NewHosts
    <2> QED BY <1>2, <2>1 DEF Net!Ip, NetIInv, NetMacs, Net!TypeOK, Net!FreeIps
  <1>3. ASSUME NEW mac \in Macs, Net!Interface(mac)
        PROVE  NetIInv'
    <2>1. CASE ip.dhcp /\ Net!Free # {} /\ Net!Reserve(mac, Net!NextFree)
      <3>1. ip \in Net!Elements
        BY <2>1 DEF NetIInv, Net!TypeOK, Net!NoIp
      <3>2. Net!Free \in SUBSET Nat
        BY <3>1, NetHosts DEF Net!Free
      <3>3. Net!NextFree \in Net!Free
        BY <2>1, <3>2, LeastOf DEF Net!NextFree
      <3> QED BY <1>3, <2>1, <3>3, NetReserve DEF Net!Interface
    <2>2. CASE ~(ip.dhcp /\ Net!Free # {} /\ Net!Reserve(mac, Net!NextFree))
      BY <1>3, <2>2, NetSame DEF Net!Interface, Net!Raise
    <2> QED BY <2>1, <2>2
  <1>4. ASSUME NEW mac \in Macs, NEW a \in Addresses, Net!InterfaceAt(mac, a)
        PROVE  NetIInv'
    BY <1>4, NetReserve, NetSame DEF Net!InterfaceAt, Net!Raise
  <1> QED BY <1>1, <1>2, <1>3, <1>4 DEF Net!Next

LEMMA NetHolds ==
    ASSUME Net!Assumptions, NetIInv
    PROVE  Net!RangesAreTheHosts
  BY NetRanges DEF NetIInv, Net!TypeOK, Net!NoIp, Net!RangesAreTheHosts

\* LVNetworkModel.ip() and interface() (network_model.py:64-111): DHCP's ranges are all of
\* the network's hosts but its own address, and no two interfaces are given one IP, or one
\* that isn't a host's, whatever the network's size and however full it is.
THEOREM IpsAreFree == Spec => []FreeIps
  <1>1. Init => (part = "net" => NetIInv)
    BY PartsAssumption, NetInit DEF Init
  <1>2. (part = "net" => NetIInv) /\ [Next]_vars => (part = "net" => NetIInv)'
    BY PartsAssumption, PartStays, NetSteps, NetNext
  <1>3. (part = "net" => NetIInv) => FreeIps
    BY PartsAssumption, NetHolds DEF FreeIps, NetIInv
  <1> QED BY <1>1, <1>2, <1>3, PTL DEF Spec

-----------------------------------------------------------------------------
(* KVNetwork                                                               *)

\* What is left of the steps of each method.
KVNetCreates ==
    {<<"pod", "ready", "check", "add", "up", "rm", "define">>,
     <<"ready", "check", "add", "up", "rm", "define">>,
     <<"check", "add", "up", "rm", "define">>, <<"add", "up", "rm", "define">>,
     <<"up", "rm", "define">>, <<"rm", "define">>, <<"define">>}

KVNetDestroys ==
    {<<"undefine", "pod", "ready", "del", "rm">>, <<"pod", "ready", "del", "rm">>,
     <<"ready", "del", "rm">>, <<"del", "rm">>, <<"rm">>}

KVNetSniffs == {<<"spod", "sready", "tcpdump">>, <<"sready", "tcpdump">>, <<"tcpdump">>}

KVNetUnsniffs == {<<"untcpdump", "srm">>, <<"srm">>}

\* Where a network's method is, and what it goes with.
KVNetCalled(n) ==
    /\ \/ call[n] = "none" /\ todo[n] = <<>>
       \/ call[n] = "create" /\ todo[n] \in KVNetCreates /\ ~owned[n]
       \/ call[n] = "destroy" /\ todo[n] \in KVNetDestroys /\ owned[n] /\ ~sniffed[n]
       \/ call[n] = "sniff" /\ todo[n] \in KVNetSniffs /\ owned[n] /\ ~sniffed[n]
       \/ call[n] = "unsniff" /\ todo[n] \in KVNetUnsniffs /\ sniffed[n]
       \/ call[n] = "undo" /\ todo[n] = <<"rm">> /\ ~owned[n]
       \/ call[n] = "undo" /\ todo[n] = <<"srm">> /\ owned[n] /\ ~sniffed[n]
    /\ sniffed[n] => owned[n]
    /\ killed[n] => ~owned[n] /\ call[n] = "none"
    /\ machine[n] # "none" => killed[n] \/ (owned[n] /\ call[n] # "destroy")

\* The pods that there are at each step, and that tcpdump runs in the sniffer's.
KVNetPods(n) ==
    /\ ~killed[n] /\ pod[n] =>
           \/ KVNet!PodBroke(n)
           \/ call[n] = "create" /\ Head(todo[n]) \in {"ready", "check", "add", "up", "rm"}
           \/ call[n] = "destroy" /\ Head(todo[n]) \in {"ready", "del", "rm"}
           \/ call[n] = "undo" /\ Head(todo[n]) = "rm"
    /\ ~killed[n] /\ spod[n] =>
           \/ KVNet!SnifferBroke(n) \/ sniffed[n]
           \/ call[n] = "sniff" /\ Head(todo[n]) \in {"sready", "tcpdump"}
           \/ call[n] = "undo" /\ Head(todo[n]) = "srm"
    /\ call[n] = "sniff" /\ Head(todo[n]) \in {"sready", "tcpdump"} => spod[n]
    /\ sniffed[n] => tcpdump[n]
    /\ tcpdump[n] => spod[n]

\* The bridge at each step.
KVNetBridge(n) ==
    /\ ~killed[n] =>
           IF call[n] = "create" /\ Head(todo[n]) = "up" THEN bridge[n] = "down"
           ELSE IF \/ call[n] = "create" /\ Head(todo[n]) \in {"rm", "define"}
                   \/ owned[n] /\ ~(call[n] = "destroy" /\ Head(todo[n]) = "rm")
             THEN bridge[n] = "up"
           ELSE bridge[n] = "none" \/ KVNet!BridgeBroke(n)
    /\ address[n] \/ machine[n] # "none" => bridge[n] # "none"

\* A network whose bridge is to get its address.
KVNetPending(n) ==
    /\ ~address[n] /\ call[n] # "destroy"
    /\ call[n] = "create" \/ owned[n] \/ machine[n] = "starting"

\* Whether it has yet to look at the node for that address.
KVNetUnchecked(n) == call[n] = "create" /\ Head(todo[n]) \in {"pod", "ready", "check"}

\* There's one such network at most, and from its look at the node on, no other bridge
\* has that address.
KVNetAddresses ==
    inTurn =>
        /\ \A n, o \in Networks : KVNetPending(n) /\ KVNetPending(o) => n = o
        /\ \A n, o \in Networks :
               KVNetPending(n) /\ ~KVNetUnchecked(n) /\ address[o] => HostIp[o] # HostIp[n]

KVNetTypes ==
    /\ inTurn \in BOOLEAN
    /\ call \in [Networks -> {"none", "create", "destroy", "sniff", "unsniff", "undo"}]
    /\ DOMAIN todo = Networks
    /\ {owned, sniffed, pod, spod, address, defined, tcpdump, killed}
           \subseteq [Networks -> BOOLEAN]
    /\ bridge \in [Networks -> {"none", "down", "up"}]
    /\ machine \in [Networks -> {"none", "starting", "attached"}]
    /\ DOMAIN broken = Networks /\ faults \in 0 .. NetworkFaults

KVNetFits(n) == KVNetCalled(n) /\ KVNetPods(n) /\ KVNetBridge(n)

KVNetIInv ==
    /\ KVNetTypes /\ KVNetAddresses /\ KVNet!OneBridgePerAddress
    /\ \A n \in Networks : KVNetFits(n)

LEMMA KVNetSteps ==
    ASSUME [Next]_vars, part = "kvnet"
    PROVE  [KVNet!Next]_kvnet
  BY DEF vars, Next, Only, SessionStep, DefaultStep, TransferStep, GroupStep, BootStep,
         KVNetStep, DevicesStep, KVModelStep, NetStep

\* The steps of each method, one after another.
LEMMA KVNetCreatesGo ==
    ASSUME NEW t \in KVNetCreates
    PROVE  /\ t # <<>>
           /\ \/ Head(t) = "pod" /\ Tail(t) \in KVNetCreates /\ Head(Tail(t)) = "ready" /\ Len(t) > 1
              \/ Head(t) = "ready" /\ Tail(t) \in KVNetCreates /\ Head(Tail(t)) = "check" /\ Len(t) > 1
              \/ Head(t) = "check" /\ Tail(t) \in KVNetCreates /\ Head(Tail(t)) = "add" /\ Len(t) > 1
              \/ Head(t) = "add" /\ Tail(t) \in KVNetCreates /\ Head(Tail(t)) = "up" /\ Len(t) > 1
              \/ Head(t) = "up" /\ Tail(t) \in KVNetCreates /\ Head(Tail(t)) = "rm" /\ Len(t) > 1
              \/ Head(t) = "rm" /\ Tail(t) \in KVNetCreates /\ Head(Tail(t)) = "define" /\ Len(t) > 1
              \/ Head(t) = "define" /\ Tail(t) = <<>> /\ Len(t) = 1
  <1>1. CASE t = <<"pod", "ready", "check", "add", "up", "rm", "define">>
    BY <1>1 DEF KVNetCreates
  <1>2. CASE t = <<"ready", "check", "add", "up", "rm", "define">>
    BY <1>2 DEF KVNetCreates
  <1>3. CASE t = <<"check", "add", "up", "rm", "define">>
    BY <1>3 DEF KVNetCreates
  <1>4. CASE t = <<"add", "up", "rm", "define">>
    BY <1>4 DEF KVNetCreates
  <1>5. CASE t = <<"up", "rm", "define">>
    BY <1>5 DEF KVNetCreates
  <1>6. CASE t = <<"rm", "define">>
    BY <1>6 DEF KVNetCreates
  <1>7. CASE t = <<"define">>
    BY <1>7 DEF KVNetCreates
  <1> QED BY <1>1, <1>2, <1>3, <1>4, <1>5, <1>6, <1>7 DEF KVNetCreates

LEMMA KVNetDestroysGo ==
    ASSUME NEW t \in KVNetDestroys
    PROVE  /\ t # <<>>
           /\ \/ Head(t) = "undefine" /\ Tail(t) \in KVNetDestroys /\ Head(Tail(t)) = "pod" /\ Len(t) > 1
              \/ Head(t) = "pod" /\ Tail(t) \in KVNetDestroys /\ Head(Tail(t)) = "ready" /\ Len(t) > 1
              \/ Head(t) = "ready" /\ Tail(t) \in KVNetDestroys /\ Head(Tail(t)) = "del" /\ Len(t) > 1
              \/ Head(t) = "del" /\ Tail(t) \in KVNetDestroys /\ Head(Tail(t)) = "rm" /\ Len(t) > 1
              \/ Head(t) = "rm" /\ Tail(t) = <<>> /\ Len(t) = 1
  <1>1. CASE t = <<"undefine", "pod", "ready", "del", "rm">>
    BY <1>1 DEF KVNetDestroys
  <1>2. CASE t = <<"pod", "ready", "del", "rm">>
    BY <1>2 DEF KVNetDestroys
  <1>3. CASE t = <<"ready", "del", "rm">>
    BY <1>3 DEF KVNetDestroys
  <1>4. CASE t = <<"del", "rm">>
    BY <1>4 DEF KVNetDestroys
  <1>5. CASE t = <<"rm">>
    BY <1>5 DEF KVNetDestroys
  <1> QED BY <1>1, <1>2, <1>3, <1>4, <1>5 DEF KVNetDestroys

LEMMA KVNetSniffsGo ==
    /\ \A t \in KVNetSniffs :
           /\ t # <<>>
           /\ \/ Head(t) = "spod" /\ Tail(t) \in KVNetSniffs /\ Head(Tail(t)) = "sready" /\ Len(t) > 1
              \/ Head(t) = "sready" /\ Tail(t) \in KVNetSniffs /\ Head(Tail(t)) = "tcpdump" /\ Len(t) > 1
              \/ Head(t) = "tcpdump" /\ Tail(t) = <<>> /\ Len(t) = 1
    /\ \A t \in KVNetUnsniffs :
           /\ t # <<>>
           /\ \/ Head(t) = "untcpdump" /\ Tail(t) \in KVNetUnsniffs /\ Head(Tail(t)) = "srm" /\ Len(t) > 1
              \/ Head(t) = "srm" /\ Tail(t) = <<>> /\ Len(t) = 1
    /\ \A s : /\ <<s>> # <<>> /\ Head(<<s>>) = s /\ Tail(<<s>>) = <<>> /\ Len(<<s>>) = 1
  <1>1. ASSUME NEW t \in KVNetSniffs
        PROVE  /\ t # <<>>
               /\ \/ Head(t) = "spod" /\ Tail(t) \in KVNetSniffs /\ Head(Tail(t)) = "sready" /\ Len(t) > 1
                  \/ Head(t) = "sready" /\ Tail(t) \in KVNetSniffs /\ Head(Tail(t)) = "tcpdump" /\ Len(t) > 1
                  \/ Head(t) = "tcpdump" /\ Tail(t) = <<>> /\ Len(t) = 1
    <2>1. CASE t = <<"spod", "sready", "tcpdump">>
      BY <2>1 DEF KVNetSniffs
    <2>2. CASE t = <<"sready", "tcpdump">>
      BY <2>2 DEF KVNetSniffs
    <2>3. CASE t = <<"tcpdump">>
      BY <2>3 DEF KVNetSniffs
    <2> QED BY <2>1, <2>2, <2>3 DEF KVNetSniffs
  <1>2. ASSUME NEW t \in KVNetUnsniffs
        PROVE  /\ t # <<>>
               /\ \/ Head(t) = "untcpdump" /\ Tail(t) \in KVNetUnsniffs /\ Head(Tail(t)) = "srm" /\ Len(t) > 1
                  \/ Head(t) = "srm" /\ Tail(t) = <<>> /\ Len(t) = 1
    <2>1. CASE t = <<"untcpdump", "srm">>
      BY <2>1 DEF KVNetUnsniffs
    <2>2. CASE t = <<"srm">>
      BY <2>2 DEF KVNetUnsniffs
    <2> QED BY <2>1, <2>2 DEF KVNetUnsniffs
  <1>3. \A s : /\ <<s>> # <<>> /\ Head(<<s>>) = s /\ Tail(<<s>>) = <<>> /\ Len(<<s>>) = 1
    OBVIOUS
  <1> QED BY <1>1, <1>2, <1>3

\* What a step that goes well changes of the methods: the last one returns.
LEMMA KVNetGoesAt ==
    ASSUME KVNetTypes, NEW n \in Networks, KVNet!Goes(n)
    PROVE  /\ todo'[n] = Tail(todo[n])
           /\ Len(todo[n]) > 1 =>
                  /\ call'[n] = call[n]
                  /\ owned'[n] <=> owned[n]
                  /\ sniffed'[n] <=> sniffed[n]
           /\ Len(todo[n]) = 1 =>
                  /\ call'[n] = "none"
                  /\ owned'[n] <=>
                         call[n] = "create" \/ (owned[n] /\ call[n] # "destroy")
                  /\ sniffed'[n] <=>
                         call[n] = "sniff" \/ (sniffed[n] /\ call[n] # "unsniff")
           /\ \A o \in Networks \ {n} :
                  /\ todo'[o] = todo[o] /\ call'[o] = call[o]
                  /\ owned'[o] = owned[o] /\ sniffed'[o] = sniffed[o]
           /\ DOMAIN todo' = Networks
           /\ call' \in [Networks -> {"none", "create", "destroy", "sniff", "unsniff", "undo"}]
           /\ {owned', sniffed'} \subseteq [Networks -> BOOLEAN]
           /\ UNCHANGED <<inTurn, broken, killed, faults>>
  <1>1. /\ todo' = [todo EXCEPT ![n] = Tail(todo[n])] /\ DOMAIN todo = Networks
        /\ UNCHANGED <<inTurn, broken, killed, faults>>
    BY DEF KVNetTypes, KVNet!Goes, KVNet!Done
  <1>2. /\ Len(todo[n]) > 1 => call' = call
        /\ ~(Len(todo[n]) > 1) => call' = [call EXCEPT ![n] = "none"]
    BY DEF KVNet!Goes, KVNet!Done
  <1>3. /\ Len(todo[n]) = 1 /\ call[n] \in {"create", "destroy"} =>
               owned' = [owned EXCEPT ![n] = (call[n] = "create")]
        /\ ~(Len(todo[n]) = 1 /\ call[n] \in {"create", "destroy"}) => owned' = owned
        /\ Len(todo[n]) = 1 /\ call[n] \in {"sniff", "unsniff"} =>
               sniffed' = [sniffed EXCEPT ![n] = (call[n] = "sniff")]
        /\ ~(Len(todo[n]) = 1 /\ call[n] \in {"sniff", "unsniff"}) => sniffed' = sniffed
    BY DEF KVNet!Goes, KVNet!Done
  <1>4. /\ call \in [Networks -> {"none", "create", "destroy", "sniff", "unsniff", "undo"}]
        /\ owned \in [Networks -> BOOLEAN] /\ sniffed \in [Networks -> BOOLEAN]
    BY DEF KVNetTypes
  <1>5. Len(todo[n]) = 1 => ~(Len(todo[n]) > 1)
    OBVIOUS
  <1>6. owned' \in [Networks -> BOOLEAN] /\ sniffed' \in [Networks -> BOOLEAN]
    BY <1>3, <1>4
  <1>7. /\ \A o \in Networks \ {n} : owned'[o] = owned[o] /\ sniffed'[o] = sniffed[o]
        /\ Len(todo[n]) = 1 =>
               /\ owned'[n] <=> call[n] = "create" \/ (owned[n] /\ call[n] # "destroy")
               /\ sniffed'[n] <=> call[n] = "sniff" \/ (sniffed[n] /\ call[n] # "unsniff")
    BY <1>3, <1>4
  <1>8. Len(todo[n]) > 1 => (owned'[n] <=> owned[n]) /\ (sniffed'[n] <=> sniffed[n])
    BY <1>3, <1>5
  <1> QED BY <1>1, <1>2, <1>4, <1>5, <1>6, <1>7, <1>8

LEMMA KVNetCalledGoes ==
    ASSUME KVNetTypes, NEW n \in Networks, KVNetCalled(n), todo[n] # <<>>, KVNet!Goes(n),
           machine'[n] = machine[n]
    PROVE  KVNetCalled(n)'
  <1> DEFINE t == todo[n]
  <1>1. /\ todo'[n] = Tail(t)
        /\ Len(t) > 1 =>
               /\ call'[n] = call[n] /\ (owned'[n] <=> owned[n])
               /\ (sniffed'[n] <=> sniffed[n])
        /\ Len(t) = 1 =>
               /\ call'[n] = "none"
               /\ owned'[n] <=> call[n] = "create" \/ (owned[n] /\ call[n] # "destroy")
               /\ sniffed'[n] <=> call[n] = "sniff" \/ (sniffed[n] /\ call[n] # "unsniff")
        /\ killed'[n] = killed[n] /\ machine'[n] = machine[n]
    BY KVNetGoesAt
  <1>2. CASE call[n] = "create"
    <2>1. t \in KVNetCreates
      BY <1>2 DEF KVNetCalled
    <2>2. (Tail(t) \in KVNetCreates /\ Len(t) > 1) \/ (Tail(t) = <<>> /\ Len(t) = 1)
      BY <2>1, KVNetCreatesGo
    <2> HIDE DEF t
    <2> QED BY <1>1, <1>2, <2>2 DEF KVNetCalled
  <1>3. CASE call[n] = "destroy"
    <2>1. t \in KVNetDestroys
      BY <1>3 DEF KVNetCalled
    <2>2. (Tail(t) \in KVNetDestroys /\ Len(t) > 1) \/ (Tail(t) = <<>> /\ Len(t) = 1)
      BY <2>1, KVNetDestroysGo
    <2> HIDE DEF t
    <2> QED BY <1>1, <1>3, <2>2 DEF KVNetCalled
  <1>4. CASE call[n] = "sniff"
    <2>1. t \in KVNetSniffs
      BY <1>4 DEF KVNetCalled
    <2>2. (Tail(t) \in KVNetSniffs /\ Len(t) > 1) \/ (Tail(t) = <<>> /\ Len(t) = 1)
      BY <2>1, KVNetSniffsGo
    <2> HIDE DEF t
    <2> QED BY <1>1, <1>4, <2>2 DEF KVNetCalled
  <1>5. CASE call[n] = "unsniff"
    <2>1. t \in KVNetUnsniffs
      BY <1>5 DEF KVNetCalled
    <2>2. (Tail(t) \in KVNetUnsniffs /\ Len(t) > 1) \/ (Tail(t) = <<>> /\ Len(t) = 1)
      BY <2>1, KVNetSniffsGo
    <2> HIDE DEF t
    <2> QED BY <1>1, <1>5, <2>2 DEF KVNetCalled
  <1>6. CASE call[n] = "undo"
    <2>1. Tail(t) = <<>> /\ Len(t) = 1
      BY <1>6, KVNetSniffsGo DEF KVNetCalled
    <2> HIDE DEF t
    <2> QED BY <1>1, <1>6, <2>1 DEF KVNetCalled
  <1> QED BY <1>2, <1>3, <1>4, <1>5, <1>6 DEF KVNetCalled

\* Where a method is after a step that went well.
KVNetAfter(n) ==
    LET Moves(method_, from, to) ==
            /\ call[n] = method_ /\ Head(todo[n]) = from
            /\ call'[n] = method_ /\ Head(todo'[n]) = to
            /\ owned'[n] <=> owned[n]
            /\ sniffed'[n] <=> sniffed[n]
        Ends(method_, from) ==
            /\ call[n] = method_ /\ Head(todo[n]) = from /\ call'[n] = "none"
            /\ owned'[n] <=> method_ = "create" \/ (owned[n] /\ method_ # "destroy")
            /\ sniffed'[n] <=> method_ = "sniff" \/ (sniffed[n] /\ method_ # "unsniff")
    IN \/ Moves("create", "pod", "ready") \/ Moves("create", "ready", "check")
       \/ Moves("create", "check", "add") \/ Moves("create", "add", "up")
       \/ Moves("create", "up", "rm") \/ Moves("create", "rm", "define")
       \/ Ends("create", "define")
       \/ Moves("destroy", "undefine", "pod") \/ Moves("destroy", "pod", "ready")
       \/ Moves("destroy", "ready", "del") \/ Moves("destroy", "del", "rm")
       \/ Ends("destroy", "rm")
       \/ Moves("sniff", "spod", "sready") \/ Moves("sniff", "sready", "tcpdump")
       \/ Ends("sniff", "tcpdump")
       \/ Moves("unsniff", "untcpdump", "srm") \/ Ends("unsniff", "srm")
       \/ Ends("undo", "rm") \/ Ends("undo", "srm")

LEMMA KVNetGoesOn ==
    ASSUME KVNetTypes, NEW n \in Networks, KVNetCalled(n), todo[n] # <<>>, KVNet!Goes(n)
    PROVE  KVNetAfter(n)
  <1> DEFINE t == todo[n]
  <1>1. /\ todo'[n] = Tail(t)
        /\ Len(t) > 1 =>
               /\ call'[n] = call[n] /\ (owned'[n] <=> owned[n])
               /\ (sniffed'[n] <=> sniffed[n])
        /\ Len(t) = 1 =>
               /\ call'[n] = "none"
               /\ owned'[n] <=> call[n] = "create" \/ (owned[n] /\ call[n] # "destroy")
               /\ sniffed'[n] <=> call[n] = "sniff" \/ (sniffed[n] /\ call[n] # "unsniff")
    BY KVNetGoesAt
  <1>2. CASE call[n] = "create"
    <2>1. t \in KVNetCreates
      BY <1>2 DEF KVNetCalled
    <2>2. \/ Head(t) = "pod" /\ Head(Tail(t)) = "ready" /\ Len(t) > 1
          \/ Head(t) = "ready" /\ Head(Tail(t)) = "check" /\ Len(t) > 1
          \/ Head(t) = "check" /\ Head(Tail(t)) = "add" /\ Len(t) > 1
          \/ Head(t) = "add" /\ Head(Tail(t)) = "up" /\ Len(t) > 1
          \/ Head(t) = "up" /\ Head(Tail(t)) = "rm" /\ Len(t) > 1
          \/ Head(t) = "rm" /\ Head(Tail(t)) = "define" /\ Len(t) > 1
          \/ Head(t) = "define" /\ Len(t) = 1
      BY <2>1, KVNetCreatesGo
    <2> QED BY <1>1, <1>2, <2>2 DEF KVNetAfter
  <1>3. CASE call[n] = "destroy"
    <2>1. t \in KVNetDestroys
      BY <1>3 DEF KVNetCalled
    <2>2. \/ Head(t) = "undefine" /\ Head(Tail(t)) = "pod" /\ Len(t) > 1
          \/ Head(t) = "pod" /\ Head(Tail(t)) = "ready" /\ Len(t) > 1
          \/ Head(t) = "ready" /\ Head(Tail(t)) = "del" /\ Len(t) > 1
          \/ Head(t) = "del" /\ Head(Tail(t)) = "rm" /\ Len(t) > 1
          \/ Head(t) = "rm" /\ Len(t) = 1
      BY <2>1, KVNetDestroysGo
    <2> QED BY <1>1, <1>3, <2>2 DEF KVNetAfter
  <1>4. CASE call[n] = "sniff"
    <2>1. t \in KVNetSniffs
      BY <1>4 DEF KVNetCalled
    <2>2. \/ Head(t) = "spod" /\ Head(Tail(t)) = "sready" /\ Len(t) > 1
          \/ Head(t) = "sready" /\ Head(Tail(t)) = "tcpdump" /\ Len(t) > 1
          \/ Head(t) = "tcpdump" /\ Len(t) = 1
      BY <2>1, KVNetSniffsGo
    <2> QED BY <1>1, <1>4, <2>2 DEF KVNetAfter
  <1>5. CASE call[n] = "unsniff"
    <2>1. t \in KVNetUnsniffs
      BY <1>5 DEF KVNetCalled
    <2>2. \/ Head(t) = "untcpdump" /\ Head(Tail(t)) = "srm" /\ Len(t) > 1
          \/ Head(t) = "srm" /\ Len(t) = 1
      BY <2>1, KVNetSniffsGo
    <2> QED BY <1>1, <1>5, <2>2 DEF KVNetAfter
  <1>6. CASE call[n] = "undo"
    <2>1. Head(t) \in {"rm", "srm"} /\ Len(t) = 1
      BY <1>6, KVNetSniffsGo DEF KVNetCalled
    <2> QED BY <1>1, <1>6, <2>1 DEF KVNetAfter
  <1> QED BY <1>2, <1>3, <1>4, <1>5, <1>6 DEF KVNetCalled

\* What a network's state is made of.
KVNetSame(n) ==
    /\ call'[n] = call[n] /\ todo'[n] = todo[n] /\ owned'[n] = owned[n]
    /\ sniffed'[n] = sniffed[n] /\ pod'[n] = pod[n] /\ spod'[n] = spod[n]
    /\ bridge'[n] = bridge[n] /\ address'[n] = address[n] /\ machine'[n] = machine[n]
    /\ tcpdump'[n] = tcpdump[n] /\ broken'[n] = broken[n] /\ killed'[n] = killed[n]

LEMMA KVNetBrokeSame ==
    ASSUME NEW n \in Networks, broken'[n] = broken[n]
    PROVE  /\ KVNet!PodBroke(n)' <=> KVNet!PodBroke(n)
           /\ KVNet!SnifferBroke(n)' <=> KVNet!SnifferBroke(n)
           /\ KVNet!BridgeBroke(n)' <=> KVNet!BridgeBroke(n)
  BY DEF KVNet!PodBroke, KVNet!SnifferBroke, KVNet!BridgeBroke, KVNet!Broke

\* A failing step is on record, with those before it.
LEMMA KVNetBrokeMore ==
    ASSUME NEW n \in Networks, NEW method_, NEW step,
           broken'[n] = broken[n] \cup {<<method_, step>>}
    PROVE  /\ KVNet!PodBroke(n) => KVNet!PodBroke(n)'
           /\ KVNet!SnifferBroke(n) => KVNet!SnifferBroke(n)'
           /\ KVNet!BridgeBroke(n) => KVNet!BridgeBroke(n)'
           /\ method_ \in {"create", "destroy", "undo"} /\ step \in {"pod", "rm"}
                  => KVNet!PodBroke(n)'
           /\ method_ = "sniff" /\ step = "spod" => KVNet!SnifferBroke(n)'
           /\ method_ = "undo" /\ step = "srm" => KVNet!SnifferBroke(n)'
           /\ method_ = "unsniff" /\ step \in {"untcpdump", "srm"} => KVNet!SnifferBroke(n)'
           /\ method_ = "create" /\ step \in {"add", "up", "rm", "define"}
                  => KVNet!BridgeBroke(n)'
           /\ method_ = "destroy" /\ step \in {"undefine", "pod", "ready", "del"}
                  => KVNet!BridgeBroke(n)'
  <1>1. <<method_, step>> \in broken'[n] /\ broken[n] \subseteq broken'[n]
    OBVIOUS
  <1> QED BY <1>1 DEF KVNet!PodBroke, KVNet!SnifferBroke, KVNet!BridgeBroke, KVNet!Broke

LEMMA KVNetOthers ==
    ASSUME NEW n \in Networks, KVNetFits(n), KVNetSame(n)
    PROVE  /\ KVNetFits(n)'
           /\ KVNetPending(n)' <=> KVNetPending(n)
           /\ KVNetUnchecked(n)' <=> KVNetUnchecked(n)
  <1>1. KVNetCalled(n)'
    BY DEF KVNetFits, KVNetSame, KVNetCalled
  <1>2. KVNetPods(n)'
    BY KVNetBrokeSame DEF KVNetFits, KVNetSame, KVNetPods
  <1>3. KVNetBridge(n)'
    BY KVNetBrokeSame DEF KVNetFits, KVNetSame, KVNetBridge
  <1>4. (KVNetPending(n)' <=> KVNetPending(n)) /\ (KVNetUnchecked(n)' <=> KVNetUnchecked(n))
    BY DEF KVNetSame, KVNetPending, KVNetUnchecked
  <1> QED BY <1>1, <1>2, <1>3, <1>4 DEF KVNetFits

\* A step of one network's that gives no network an address, or a claim to one, leaves the
\* addresses as they were.
LEMMA KVNetNoClaim ==
    ASSUME KVNetIInv, NEW n \in Networks, inTurn' = inTurn,
           \A o \in Networks \ {n} : KVNetSame(o),
           address'[n] => address[n],
           KVNetPending(n)' => KVNetPending(n) /\ (KVNetUnchecked(n) => KVNetUnchecked(n)')
    PROVE  KVNetAddresses' /\ KVNet!OneBridgePerAddress'
  <1>1. \A o \in Networks : KVNetPending(o)' => KVNetPending(o) /\ (KVNetUnchecked(o) => KVNetUnchecked(o)')
    BY KVNetOthers DEF KVNetIInv
  <1>2. \A o \in Networks : address'[o] => address[o]
    BY DEF KVNetSame
  <1>3. KVNetAddresses /\ KVNet!OneBridgePerAddress
    BY DEF KVNetIInv
  <1>4. ASSUME inTurn, NEW o \in Networks, NEW p \in Networks, KVNetPending(o)'
        PROVE  /\ KVNetPending(p)' => o = p
               /\ ~KVNetUnchecked(o)' /\ address'[p] => HostIp[p] # HostIp[o]
    BY <1>1, <1>2, <1>3, <1>4 DEF KVNetAddresses
  <1>5. KVNetAddresses'
    BY <1>4 DEF KVNetAddresses
  <1>6. KVNet!OneBridgePerAddress'
    BY <1>2, <1>3 DEF KVNet!OneBridgePerAddress
  <1> QED BY <1>5, <1>6
\* What all of a step's lemmas come to.
LEMMA KVNetAllFit ==
    ASSUME KVNetIInv, NEW n \in Networks, KVNetTypes', KVNetFits(n)',
           \A o \in Networks \ {n} : KVNetSame(o),
           KVNetAddresses', KVNet!OneBridgePerAddress'
    PROVE  KVNetIInv'
  <1>1. \A o \in Networks \ {n} : KVNetFits(o)'
    BY KVNetOthers DEF KVNetIInv
  <1> QED BY <1>1 DEF KVNetIInv

\* A call under way has steps left.
LEMMA KVNetHasSteps ==
    ASSUME NEW n \in Networks, KVNetCalled(n), call[n] # "none"
    PROVE  todo[n] # <<>>
  BY KVNetCreatesGo, KVNetDestroysGo, KVNetSniffsGo DEF KVNetCalled

LEMMA KVNetCallCreate ==
    ASSUME KVNetIInv, NEW n \in Networks, KVNet!CallCreate(n)
    PROVE  KVNetIInv'
  <1>1. /\ call[n] = "none" /\ ~owned[n] /\ ~killed[n] /\ bridge[n] = "none" /\ ~pod[n]
        /\ call' = [call EXCEPT ![n] = "create"]
        /\ todo' = [todo EXCEPT ![n] = KVNet!Create]
        /\ inTurn => \A o \in Networks : call[o] = "none" /\ machine[o] # "starting"
                                         /\ (owned[o] => address[o])
        /\ UNCHANGED <<inTurn, owned, sniffed, pod, spod, bridge, address, defined,
                       machine, tcpdump, broken, killed, faults>>
    BY DEF KVNet!CallCreate, KVNet!Calls, KVNet!node
  <1>2. KVNetTypes /\ KVNetFits(n)
    BY DEF KVNetIInv
  <1>3. /\ call'[n] = "create" /\ todo'[n] = KVNet!Create
        /\ \A o \in Networks \ {n} : call'[o] = call[o] /\ todo'[o] = todo[o]
    BY <1>1, <1>2 DEF KVNetTypes
  <1>4. KVNet!Create \in KVNetCreates /\ Head(KVNet!Create) = "pod"
    BY DEF KVNet!Create, KVNetCreates
  <1>5. KVNetTypes'
    BY <1>1, <1>2 DEF KVNetTypes
  <1>6. \A o \in Networks \ {n} : KVNetSame(o)
    BY <1>1, <1>3 DEF KVNetSame
  <1>7. KVNetFits(n)'
    <2> HIDE DEF KVNet!Create
    <2>1. KVNetCalled(n)'
      BY <1>1, <1>2, <1>3, <1>4 DEF KVNetFits, KVNetCalled
    <2>2. KVNetPods(n)'
      BY <1>1, <1>2, <1>3, <1>4, KVNetBrokeSame DEF KVNetFits, KVNetPods
    <2>3. KVNetBridge(n)'
      BY <1>1, <1>2, <1>3, <1>4, KVNetBrokeSame DEF KVNetFits, KVNetBridge
    <2> QED BY <2>1, <2>2, <2>3 DEF KVNetFits
  <1>8. KVNet!OneBridgePerAddress'
    BY <1>1 DEF KVNetIInv, KVNet!OneBridgePerAddress
  <1>9. KVNetAddresses'
    <2>1. ASSUME inTurn, NEW o \in Networks \ {n}
          PROVE  ~ KVNetPending(o)'
      <3>1. ~ KVNetPending(o)
        BY <1>1, <2>1 DEF KVNetPending
      <3> QED BY <3>1, <1>6, <2>1, KVNetOthers DEF KVNetIInv
    <2>2. KVNetUnchecked(n)'
      BY <1>3, <1>4 DEF KVNetUnchecked
    <2> QED BY <1>1, <2>1, <2>2 DEF KVNetAddresses
  <1> QED BY <1>5, <1>6, <1>7, <1>8, <1>9, KVNetAllFit

LEMMA KVNetCallOthers ==
    ASSUME KVNetIInv, NEW n \in Networks,
           KVNet!CallDestroy(n) \/ KVNet!CallSniff(n) \/ KVNet!CallUnsniff(n)
    PROVE  KVNetIInv'
  <1>1. PICK name_, steps :
          /\ \/ /\ name_ = "destroy" /\ steps = KVNet!Destroy
                /\ owned[n] /\ ~sniffed[n] /\ machine[n] = "none"
             \/ name_ = "sniff" /\ steps = KVNet!Sniff /\ owned[n] /\ ~sniffed[n]
             \/ name_ = "unsniff" /\ steps = KVNet!Unsniff /\ sniffed[n]
          /\ call[n] = "none"
          /\ call' = [call EXCEPT ![n] = name_] /\ todo' = [todo EXCEPT ![n] = steps]
          /\ UNCHANGED <<inTurn, owned, sniffed, pod, spod, bridge, address, defined,
                         machine, tcpdump, broken, killed, faults>>
    BY DEF KVNet!CallDestroy, KVNet!CallSniff, KVNet!CallUnsniff, KVNet!Calls, KVNet!node
  <1>2. KVNetTypes /\ KVNetFits(n)
    BY DEF KVNetIInv
  <1>3. /\ call'[n] = name_ /\ todo'[n] = steps
        /\ \A o \in Networks \ {n} : call'[o] = call[o] /\ todo'[o] = todo[o]
    BY <1>1, <1>2 DEF KVNetTypes
  <1>4. /\ KVNet!Destroy \in KVNetDestroys /\ Head(KVNet!Destroy) = "undefine"
        /\ KVNet!Sniff \in KVNetSniffs /\ Head(KVNet!Sniff) = "spod"
        /\ KVNet!Unsniff \in KVNetUnsniffs /\ Head(KVNet!Unsniff) = "untcpdump"
    BY DEF KVNet!Destroy, KVNetDestroys, KVNet!Sniff, KVNetSniffs, KVNet!Unsniff, KVNetUnsniffs
  <1>5. KVNetTypes'
    BY <1>1, <1>2 DEF KVNetTypes
  <1>6. \A o \in Networks \ {n} : KVNetSame(o)
    BY <1>1, <1>3 DEF KVNetSame
  <1>7. KVNetFits(n)'
    <2>1. KVNetCalled(n)'
      BY <1>1, <1>2, <1>3, <1>4 DEF KVNetFits, KVNetCalled
    <2>2. KVNetPods(n)'
      BY <1>1, <1>2, <1>3, <1>4, KVNetBrokeSame DEF KVNetFits, KVNetPods
    <2>3. KVNetBridge(n)'
      BY <1>1, <1>2, <1>3, <1>4, KVNetBrokeSame DEF KVNetFits, KVNetBridge
    <2> QED BY <2>1, <2>2, <2>3 DEF KVNetFits
  <1>8. KVNetPending(n)' => KVNetPending(n) /\ ~KVNetUnchecked(n)
    BY <1>1, <1>3 DEF KVNetPending, KVNetUnchecked
  <1>9. KVNetAddresses' /\ KVNet!OneBridgePerAddress'
    BY <1>1, <1>6, <1>8, KVNetNoClaim
  <1> QED BY <1>5, <1>6, <1>7, <1>9, KVNetAllFit

\* What a step that goes well does to all but the node.
LEMMA KVNetStepGoes ==
    ASSUME KVNetIInv, NEW n \in Networks, todo[n] # <<>>, KVNet!Goes(n),
           UNCHANGED machine
    PROVE  /\ KVNetTypes /\ KVNetFits(n) /\ KVNetAfter(n) /\ KVNetCalled(n)'
           /\ broken'[n] = broken[n] /\ killed'[n] = killed[n] /\ inTurn' = inTurn
           /\ \A o \in Networks \ {n} :
                  /\ todo'[o] = todo[o] /\ call'[o] = call[o]
                  /\ owned'[o] = owned[o] /\ sniffed'[o] = sniffed[o]
                  /\ broken'[o] = broken[o] /\ killed'[o] = killed[o]
                  /\ machine'[o] = machine[o]
           /\ {pod', spod', address', defined', tcpdump'} \subseteq [Networks -> BOOLEAN]
              /\ bridge' \in [Networks -> {"none", "down", "up"}] => KVNetTypes'
           /\ (address'[n] <=> address[n]) /\ Head(todo[n]) # "check" =>
                  (KVNetPending(n)' => KVNetPending(n) /\ (KVNetUnchecked(n) => KVNetUnchecked(n)'))
  <1>1. KVNetTypes /\ KVNetFits(n) /\ KVNetCalled(n)
    BY DEF KVNetIInv, KVNetFits
  <1>2. KVNetAfter(n)
    BY <1>1, KVNetGoesOn
  <1>3. KVNetCalled(n)'
    BY <1>1, KVNetCalledGoes
  <1>4. /\ \A o \in Networks \ {n} :
               /\ todo'[o] = todo[o] /\ call'[o] = call[o]
               /\ owned'[o] = owned[o] /\ sniffed'[o] = sniffed[o]
        /\ DOMAIN todo' = Networks
        /\ call' \in [Networks -> {"none", "create", "destroy", "sniff", "unsniff", "undo"}]
        /\ {owned', sniffed'} \subseteq [Networks -> BOOLEAN]
        /\ UNCHANGED <<inTurn, broken, killed, faults>>
    BY <1>1, KVNetGoesAt
  <1>5. {pod', spod', address', defined', tcpdump'} \subseteq [Networks -> BOOLEAN]
        /\ bridge' \in [Networks -> {"none", "down", "up"}] => KVNetTypes'
    BY <1>1, <1>4 DEF KVNetTypes
  <1>6. ASSUME address'[n] <=> address[n], Head(todo[n]) # "check", KVNetPending(n)'
        PROVE  KVNetPending(n) /\ (KVNetUnchecked(n) => KVNetUnchecked(n)')
    <2>1. KVNetPending(n)
      BY <1>1, <1>2, <1>6 DEF KVNetPending, KVNetAfter, KVNetCalled
    <2>2. KVNetUnchecked(n) => KVNetUnchecked(n)'
      BY <1>2, <1>6 DEF KVNetUnchecked, KVNetAfter
    <2> QED BY <2>1, <2>2
  <1> QED BY <1>1, <1>2, <1>3, <1>4, <1>5, <1>6

\* What a step's command does to the node.
LEMMA KVNetEffect ==
    ASSUME KVNetTypes, NEW n \in Networks, KVNet!Effect(n)
    PROVE  LET step == Head(todo[n]) IN
           /\ todo[n] # <<>> /\ UNCHANGED machine
           /\ step = "check" => ~KVNet!OnNode(n)
           /\ pod'[n] <=> step = "pod" \/ (pod[n] /\ step # "rm")
           /\ spod'[n] <=> step = "spod" \/ (spod[n] /\ step # "srm")
           /\ tcpdump'[n] <=> step = "tcpdump" \/ (tcpdump[n] /\ step # "srm")
           /\ bridge'[n] = IF step = "add" THEN "down" ELSE IF step = "up" THEN "up"
                           ELSE IF step = "del" THEN "none" ELSE bridge[n]
           /\ address'[n] <=> address[n] /\ step # "del"
           /\ \A o \in Networks \ {n} :
                  /\ pod'[o] = pod[o] /\ spod'[o] = spod[o] /\ tcpdump'[o] = tcpdump[o]
                  /\ bridge'[o] = bridge[o] /\ address'[o] = address[o]
                  /\ machine'[o] = machine[o]
           /\ {pod', spod', address', defined', tcpdump'} \subseteq [Networks -> BOOLEAN]
           /\ bridge' \in [Networks -> {"none", "down", "up"}]
  <1> DEFINE step == Head(todo[n])
  <1>1. /\ {pod, spod, address, defined, tcpdump} \subseteq [Networks -> BOOLEAN]
        /\ bridge \in [Networks -> {"none", "down", "up"}]
    BY DEF KVNetTypes
  <1>2. CASE KVNet!Pods(n)
    <2>1. /\ todo[n] # <<>> /\ UNCHANGED <<bridge, address, machine>>
          /\ step \in {"pod", "rm", "spod", "srm", "define", "undefine"}
          /\ pod' = IF step \in {"pod", "rm"} THEN [pod EXCEPT ![n] = (step = "pod")] ELSE pod
          /\ spod' = IF step \in {"spod", "srm"} THEN [spod EXCEPT ![n] = (step = "spod")]
                     ELSE spod
          /\ tcpdump' = IF step = "srm" THEN [tcpdump EXCEPT ![n] = FALSE] ELSE tcpdump
          /\ defined' = IF step \in {"define", "undefine"}
                        THEN [defined EXCEPT ![n] = (step = "define")] ELSE defined
      BY <1>2 DEF KVNet!Pods, KVNet!Does, KVNet!Done
    <2> HIDE DEF step
    <2>2. /\ pod' \in [Networks -> BOOLEAN] /\ \A o \in Networks \ {n} : pod'[o] = pod[o]
          /\ pod'[n] <=> step = "pod" \/ (pod[n] /\ step # "rm")
      BY <1>1, <2>1
    <2>3. /\ spod' \in [Networks -> BOOLEAN] /\ \A o \in Networks \ {n} : spod'[o] = spod[o]
          /\ spod'[n] <=> step = "spod" \/ (spod[n] /\ step # "srm")
      BY <1>1, <2>1
    <2>4. /\ tcpdump' \in [Networks -> BOOLEAN]
          /\ \A o \in Networks \ {n} : tcpdump'[o] = tcpdump[o]
          /\ tcpdump'[n] <=> step = "tcpdump" \/ (tcpdump[n] /\ step # "srm")
      BY <1>1, <2>1
    <2>5. defined' \in [Networks -> BOOLEAN]
      BY <1>1, <2>1
    <2>6. step \notin {"add", "up", "del", "check"}
      BY <2>1
    <2> QED BY <1>1, <2>1, <2>2, <2>3, <2>4, <2>5, <2>6 DEF step
  <1>3. CASE KVNet!Waits(n)
    <2>1. /\ todo[n] # <<>> /\ step \in {"ready", "sready", "check"}
          /\ step = "check" => ~KVNet!OnNode(n)
          /\ UNCHANGED <<pod, spod, bridge, address, defined, machine, tcpdump>>
      BY <1>3 DEF KVNet!Waits, KVNet!Does, KVNet!node
    <2> HIDE DEF step
    <2> QED BY <1>1, <2>1 DEF step
  <1>4. CASE KVNet!Links(n)
    <2>1. /\ todo[n] # <<>> /\ step \in {"add", "up", "del"}
          /\ bridge' = [bridge EXCEPT ![n] = IF step = "add" THEN "down"
                                             ELSE IF step = "up" THEN "up" ELSE "none"]
          /\ address' = IF step = "del" THEN [address EXCEPT ![n] = FALSE] ELSE address
          /\ UNCHANGED <<pod, spod, defined, machine, tcpdump>>
      BY <1>4 DEF KVNet!Links, KVNet!Does, KVNet!Done
    <2> HIDE DEF step
    <2>2. /\ bridge' \in [Networks -> {"none", "down", "up"}]
          /\ \A o \in Networks \ {n} : bridge'[o] = bridge[o]
          /\ bridge'[n] = IF step = "add" THEN "down" ELSE IF step = "up" THEN "up" ELSE "none"
      BY <1>1, <2>1
    <2>3. /\ address' \in [Networks -> BOOLEAN]
          /\ \A o \in Networks \ {n} : address'[o] = address[o]
          /\ address'[n] <=> address[n] /\ step # "del"
      BY <1>1, <2>1
    <2> QED BY <1>1, <2>1, <2>2, <2>3 DEF step
  <1>5. CASE KVNet!Captures(n)
    <2>1. /\ todo[n] # <<>> /\ step \in {"tcpdump", "untcpdump"}
          /\ tcpdump' = IF step = "tcpdump" THEN [tcpdump EXCEPT ![n] = TRUE] ELSE tcpdump
          /\ UNCHANGED <<pod, spod, bridge, address, defined, machine>>
      BY <1>5 DEF KVNet!Captures, KVNet!Does, KVNet!Done
    <2> HIDE DEF step
    <2>2. /\ tcpdump' \in [Networks -> BOOLEAN]
          /\ \A o \in Networks \ {n} : tcpdump'[o] = tcpdump[o]
          /\ tcpdump'[n] <=> step = "tcpdump" \/ (tcpdump[n] /\ step # "srm")
      BY <1>1, <2>1
    <2> QED BY <1>1, <2>1, <2>2 DEF step
  <1> QED BY <1>2, <1>3, <1>4, <1>5 DEF KVNet!Effect

\* A command that succeeds.
LEMMA KVNetRuns ==
    ASSUME KVNetIInv, NEW n \in Networks, KVNet!Runs(n)
    PROVE  KVNetIInv'
  <1> DEFINE step == Head(todo[n])
  <1>1. KVNet!Effect(n) /\ KVNet!Goes(n) /\ KVNetTypes
    BY DEF KVNet!Runs, KVNetIInv
  <1>2. /\ todo[n] # <<>> /\ UNCHANGED machine
        /\ step = "check" => ~KVNet!OnNode(n)
        /\ pod'[n] <=> step = "pod" \/ (pod[n] /\ step # "rm")
        /\ spod'[n] <=> step = "spod" \/ (spod[n] /\ step # "srm")
        /\ tcpdump'[n] <=> step = "tcpdump" \/ (tcpdump[n] /\ step # "srm")
        /\ bridge'[n] = IF step = "add" THEN "down" ELSE IF step = "up" THEN "up"
                        ELSE IF step = "del" THEN "none" ELSE bridge[n]
        /\ address'[n] <=> address[n] /\ step # "del"
        /\ \A o \in Networks \ {n} :
               /\ pod'[o] = pod[o] /\ spod'[o] = spod[o] /\ tcpdump'[o] = tcpdump[o]
               /\ bridge'[o] = bridge[o] /\ address'[o] = address[o]
               /\ machine'[o] = machine[o]
    BY <1>1, KVNetEffect
  <1>3. /\ KVNetFits(n) /\ KVNetAfter(n) /\ KVNetCalled(n)' /\ KVNetTypes'
        /\ broken'[n] = broken[n] /\ killed'[n] = killed[n] /\ inTurn' = inTurn
        /\ \A o \in Networks \ {n} :
               /\ todo'[o] = todo[o] /\ call'[o] = call[o]
               /\ owned'[o] = owned[o] /\ sniffed'[o] = sniffed[o]
               /\ broken'[o] = broken[o] /\ killed'[o] = killed[o]
    BY <1>1, <1>2, KVNetEffect, KVNetStepGoes
  <1>4. \A o \in Networks \ {n} : KVNetSame(o)
    BY <1>2, <1>3 DEF KVNetSame
  <1>5. KVNetPods(n)'
    BY <1>2, <1>3, KVNetBrokeSame DEF KVNetFits, KVNetCalled, KVNetPods, KVNetAfter
  <1>6. KVNetBridge(n)'
    BY <1>2, <1>3, KVNetBrokeSame DEF KVNetFits, KVNetCalled, KVNetBridge, KVNetAfter
  <1>7. KVNetAddresses' /\ KVNet!OneBridgePerAddress'
    <2>1. CASE step # "check"
      <3>1. KVNetPending(n)' => KVNetPending(n) /\ (KVNetUnchecked(n) => KVNetUnchecked(n)')
        <4>1. CASE step = "del"
          BY <1>2, <1>3, <4>1 DEF KVNetPending, KVNetAfter
        <4>2. CASE step # "del"
          BY <1>1, <1>2, <2>1, <4>2, KVNetStepGoes
        <4> QED BY <4>1, <4>2
      <3> QED BY <1>2, <1>3, <1>4, <3>1, KVNetNoClaim
    <2>2. CASE step = "check"
      <3>1. \A o \in Networks : address[o] => HostIp[o] # HostIp[n]
        BY <1>2, <2>2 DEF KVNet!OnNode
      <3>2. KVNetPending(n)' => KVNetPending(n)
        BY <1>2, <1>3, <2>2 DEF KVNetPending, KVNetAfter
      <3>3. \A o \in Networks \ {n} : /\ KVNetPending(o)' => KVNetPending(o)
                                      /\ KVNetUnchecked(o)' <=> KVNetUnchecked(o)
        BY <1>4, KVNetOthers DEF KVNetIInv
      <3>4. KVNetAddresses /\ KVNet!OneBridgePerAddress
        BY DEF KVNetIInv
      <3>5. \A o \in Networks : address'[o] <=> address[o]
        BY <1>2, <2>2
      <3>6. ASSUME inTurn, NEW o \in Networks, NEW p \in Networks, KVNetPending(o)'
            PROVE  /\ KVNetPending(p)' => o = p
                   /\ ~KVNetUnchecked(o)' /\ address'[p] => HostIp[p] # HostIp[o]
        BY <3>1, <3>2, <3>3, <3>4, <3>5, <3>6 DEF KVNetAddresses
      <3>7. KVNetAddresses'
        BY <1>3, <3>6 DEF KVNetAddresses
      <3> QED BY <1>3, <3>4, <3>5, <3>7 DEF KVNet!OneBridgePerAddress
    <2> QED BY <2>1, <2>2
  <1> QED BY <1>3, <1>4, <1>5, <1>6, <1>7, KVNetAllFit DEF KVNetFits

\* How a method goes on when a step raises: what's in its `with` or `try` is cleaned up.
KVNetRaised(n) ==
    LET step == Head(todo[n]) IN
    \/ /\ \/ call[n] = "create" /\ step \in {"ready", "check", "add", "up"}
          \/ call[n] = "destroy" /\ step \in {"ready", "del"}
       /\ call'[n] = "undo" /\ todo'[n] = <<"rm">>
    \/ /\ call[n] = "sniff" /\ step \in {"sready", "tcpdump"}
       /\ call'[n] = "undo" /\ todo'[n] = <<"srm">>
    \/ /\ \/ call[n] = "create" /\ step \in {"pod", "rm", "define"}
          \/ call[n] = "destroy" /\ step \in {"undefine", "pod", "rm"}
          \/ call[n] = "sniff" /\ step = "spod"
          \/ call[n] = "unsniff" /\ step \in {"untcpdump", "srm"}
          \/ call[n] = "undo" /\ step \in {"rm", "srm"}
       /\ call'[n] = "none" /\ todo'[n] = <<>>

LEMMA KVNetRaisedAt ==
    ASSUME KVNetTypes, NEW n \in Networks, KVNetCalled(n), call[n] # "none", KVNet!Raises(n)
    PROVE  /\ KVNetRaised(n) /\ todo[n] # <<>>
           /\ owned'[n] <=> owned[n] /\ call[n] \notin {"create", "destroy"}
           /\ sniffed'[n] <=> sniffed[n] /\ call[n] \notin {"sniff", "unsniff"}
           /\ \A o \in Networks \ {n} :
                  /\ todo'[o] = todo[o] /\ call'[o] = call[o]
                  /\ owned'[o] = owned[o] /\ sniffed'[o] = sniffed[o]
           /\ DOMAIN todo' = Networks
           /\ call' \in [Networks -> {"none", "create", "destroy", "sniff", "unsniff", "undo"}]
           /\ {owned', sniffed'} \subseteq [Networks -> BOOLEAN]
  <1> DEFINE step == Head(todo[n])
  <1>1. /\ todo' = [todo EXCEPT ![n] = KVNet!Cleanup(n)]
        /\ call' = [call EXCEPT ![n] = IF KVNet!Cleanup(n) = <<>> THEN "none" ELSE "undo"]
        /\ owned' = IF call[n] \in {"create", "destroy"} THEN [owned EXCEPT ![n] = FALSE]
                    ELSE owned
        /\ sniffed' = IF call[n] \in {"sniff", "unsniff"} THEN [sniffed EXCEPT ![n] = FALSE]
                      ELSE sniffed
    BY DEF KVNet!Raises, KVNet!Done
  <1>2. /\ DOMAIN todo = Networks
        /\ call \in [Networks -> {"none", "create", "destroy", "sniff", "unsniff", "undo"}]
        /\ owned \in [Networks -> BOOLEAN] /\ sniffed \in [Networks -> BOOLEAN]
    BY DEF KVNetTypes
  <1>3. /\ owned' \in [Networks -> BOOLEAN]
        /\ owned'[n] <=> owned[n] /\ call[n] \notin {"create", "destroy"}
        /\ \A o \in Networks \ {n} : owned'[o] = owned[o]
    BY <1>1, <1>2
  <1>4. /\ sniffed' \in [Networks -> BOOLEAN]
        /\ sniffed'[n] <=> sniffed[n] /\ call[n] \notin {"sniff", "unsniff"}
        /\ \A o \in Networks \ {n} : sniffed'[o] = sniffed[o]
    BY <1>1, <1>2
  <1>5. /\ \/ call[n] = "create" /\ step \in {"pod", "ready", "check", "add", "up", "rm", "define"}
           \/ call[n] = "destroy" /\ step \in {"undefine", "pod", "ready", "del", "rm"}
           \/ call[n] = "sniff" /\ step \in {"spod", "sready", "tcpdump"}
           \/ call[n] = "unsniff" /\ step \in {"untcpdump", "srm"}
           \/ call[n] = "undo" /\ step \in {"rm", "srm"}
        /\ todo[n] # <<>>
    <2>1. \A t \in KVNetCreates : /\ t # <<>>
              /\ Head(t) \in {"pod", "ready", "check", "add", "up", "rm", "define"}
      BY KVNetCreatesGo
    <2>2. \A t \in KVNetDestroys :
              t # <<>> /\ Head(t) \in {"undefine", "pod", "ready", "del", "rm"}
      BY KVNetDestroysGo
    <2>3. /\ \A t \in KVNetSniffs : t # <<>> /\ Head(t) \in {"spod", "sready", "tcpdump"}
          /\ \A t \in KVNetUnsniffs : t # <<>> /\ Head(t) \in {"untcpdump", "srm"}
          /\ \A s : <<s>> # <<>> /\ Head(<<s>>) = s
      BY KVNetSniffsGo
    <2> QED BY <2>1, <2>2, <2>3 DEF KVNetCalled
  <1>6. /\ step \in {"ready", "check", "add", "up", "del"} => KVNet!Cleanup(n) = <<"rm">>
        /\ step \in {"sready", "tcpdump"} => KVNet!Cleanup(n) = <<"srm">>
        /\ step \in {"pod", "rm", "define", "undefine", "spod", "untcpdump", "srm"}
               => KVNet!Cleanup(n) = <<>>
    BY DEF KVNet!Cleanup
  <1>7. <<"rm">> # <<>> /\ <<"srm">> # <<>>
    BY KVNetSniffsGo
  <1>8. /\ todo'[n] = KVNet!Cleanup(n)
        /\ call'[n] = IF KVNet!Cleanup(n) = <<>> THEN "none" ELSE "undo"
        /\ \A o \in Networks \ {n} : todo'[o] = todo[o] /\ call'[o] = call[o]
        /\ DOMAIN todo' = Networks
        /\ call' \in [Networks -> {"none", "create", "destroy", "sniff", "unsniff", "undo"}]
    BY <1>1, <1>2
  <1>9. KVNetRaised(n)
    BY <1>5, <1>6, <1>7, <1>8 DEF KVNetRaised
  <1> QED BY <1>3, <1>4, <1>5, <1>8, <1>9

\* A step that raises, with its command's effect or without it.
LEMMA KVNetRaises ==
    ASSUME KVNetIInv, NEW n \in Networks, call[n] # "none", KVNet!Raises(n),
           KVNet!Effect(n) \/ UNCHANGED KVNet!node,
           \/ UNCHANGED broken /\ Head(todo[n]) = "check"
           \/ broken' = [broken EXCEPT ![n] = broken[n] \cup {<<call[n], Head(todo[n])>>}],
           UNCHANGED <<inTurn, killed>>, faults' \in 0 .. NetworkFaults
    PROVE  KVNetIInv'
  <1> DEFINE step == Head(todo[n])
  <1>1. KVNetTypes /\ KVNetFits(n) /\ KVNetCalled(n) /\ KVNetPods(n) /\ KVNetBridge(n)
    BY DEF KVNetIInv, KVNetFits
  <1>2. /\ KVNetRaised(n) /\ todo[n] # <<>>
        /\ owned'[n] <=> owned[n] /\ call[n] \notin {"create", "destroy"}
        /\ sniffed'[n] <=> sniffed[n] /\ call[n] \notin {"sniff", "unsniff"}
        /\ \A o \in Networks \ {n} :
               /\ todo'[o] = todo[o] /\ call'[o] = call[o]
               /\ owned'[o] = owned[o] /\ sniffed'[o] = sniffed[o]
        /\ DOMAIN todo' = Networks
        /\ call' \in [Networks -> {"none", "create", "destroy", "sniff", "unsniff", "undo"}]
        /\ {owned', sniffed'} \subseteq [Networks -> BOOLEAN]
    BY <1>1, KVNetRaisedAt
  <1>3. /\ UNCHANGED machine
        /\ (pod'[n] <=> pod[n]) \/ step \in {"pod", "rm"}
        /\ \/ spod'[n] <=> spod[n]
           \/ step = "spod" /\ spod'[n]
           \/ step = "srm" /\ ~spod'[n] /\ ~tcpdump'[n]
        /\ (tcpdump'[n] <=> tcpdump[n]) \/ step = "tcpdump" \/ (step = "srm" /\ ~tcpdump'[n])
        /\ bridge'[n] = bridge[n] \/ step \in {"add", "up", "del"}
        /\ bridge'[n] # "none" \/ bridge[n] = "none" \/ step = "del"
        /\ (address'[n] <=> address[n]) \/ step = "del"
        /\ address'[n] => address[n] /\ (step = "del" => bridge'[n] = bridge[n])
        /\ \A o \in Networks \ {n} :
               /\ pod'[o] = pod[o] /\ spod'[o] = spod[o] /\ tcpdump'[o] = tcpdump[o]
               /\ bridge'[o] = bridge[o] /\ address'[o] = address[o]
               /\ machine'[o] = machine[o]
        /\ {pod', spod', address', defined', tcpdump'} \subseteq [Networks -> BOOLEAN]
        /\ bridge' \in [Networks -> {"none", "down", "up"}]
    <2>1. CASE KVNet!Effect(n)
      BY <1>1, <2>1, KVNetEffect
    <2>2. CASE UNCHANGED KVNet!node
      BY <1>1, <2>2 DEF KVNet!node, KVNetTypes
    <2> QED BY <2>1, <2>2
  <1>4. /\ DOMAIN broken' = Networks /\ \A o \in Networks \ {n} : broken'[o] = broken[o]
        /\ \/ broken'[n] = broken[n] /\ step = "check"
           \/ broken'[n] = broken[n] \cup {<<call[n], step>>}
    BY <1>1 DEF KVNetTypes
  <1>5. /\ KVNet!PodBroke(n) => KVNet!PodBroke(n)'
        /\ KVNet!SnifferBroke(n) => KVNet!SnifferBroke(n)'
        /\ KVNet!BridgeBroke(n) => KVNet!BridgeBroke(n)'
        /\ call[n] \in {"create", "destroy", "undo"} /\ step \in {"pod", "rm"}
               => KVNet!PodBroke(n)'
        /\ call[n] = "sniff" /\ step = "spod" => KVNet!SnifferBroke(n)'
        /\ call[n] = "undo" /\ step = "srm" => KVNet!SnifferBroke(n)'
        /\ call[n] = "unsniff" /\ step \in {"untcpdump", "srm"} => KVNet!SnifferBroke(n)'
        /\ call[n] = "create" /\ step \in {"add", "up", "rm", "define"}
               => KVNet!BridgeBroke(n)'
        /\ call[n] = "destroy" /\ step \in {"undefine", "pod", "ready", "del"}
               => KVNet!BridgeBroke(n)'
    <2>1. CASE broken'[n] = broken[n] /\ step = "check"
      BY <2>1, KVNetBrokeSame
    <2>2. CASE broken'[n] = broken[n] \cup {<<call[n], step>>}
      <3> HIDE DEF step
      <3> QED BY <2>2, KVNetBrokeMore
    <2> QED BY <1>4, <2>1, <2>2
  <1> HIDE DEF step
  <1>6. KVNetTypes'
    BY <1>1, <1>2, <1>3, <1>4 DEF KVNetTypes
  <1>7. \A o \in Networks \ {n} : KVNetSame(o)
    BY <1>2, <1>3, <1>4 DEF KVNetSame
  <1>8. /\ ~killed[n] /\ ~sniffed'[n] /\ Head(<<"rm">>) = "rm" /\ Head(<<"srm">>) = "srm"
        /\ sniffed[n] => call[n] = "unsniff"
        /\ call[n] \in {"sniff", "unsniff"} => owned[n]
        /\ call[n] = "create" => ~owned[n]
        /\ machine[n] # "none" => owned[n] /\ call[n] \notin {"create", "destroy"}
    BY <1>1, <1>2, KVNetSniffsGo DEF KVNetCalled
  <1>9. \/ /\ \/ call[n] = "create" /\ step \in {"ready", "check", "add", "up"}
              \/ call[n] = "destroy" /\ step \in {"ready", "del"}
           /\ call'[n] = "undo" /\ todo'[n] = <<"rm">> /\ Head(todo'[n]) = "rm"
        \/ /\ call[n] = "sniff" /\ step \in {"sready", "tcpdump"}
           /\ call'[n] = "undo" /\ todo'[n] = <<"srm">> /\ Head(todo'[n]) = "srm"
        \/ /\ \/ call[n] = "create" /\ step \in {"pod", "rm", "define"}
              \/ call[n] = "destroy" /\ step \in {"undefine", "pod", "rm"}
              \/ call[n] = "sniff" /\ step = "spod"
              \/ call[n] = "unsniff" /\ step \in {"untcpdump", "srm"}
              \/ call[n] = "undo" /\ step \in {"rm", "srm"}
           /\ call'[n] = "none" /\ todo'[n] = <<>>
    BY <1>2, <1>8 DEF KVNetRaised, step
  <1>10. KVNetCalled(n)'
    BY <1>1, <1>2, <1>3, <1>8, KVNetSniffsGo DEF KVNetCalled, KVNetRaised, step
  <1>11. KVNetPods(n)'
    <2>1. /\ ~killed[n] /\ pod[n] =>
                 \/ KVNet!PodBroke(n)
                 \/ call[n] = "create" /\ step \in {"ready", "check", "add", "up", "rm"}
                 \/ call[n] = "destroy" /\ step \in {"ready", "del", "rm"}
                 \/ call[n] = "undo" /\ step = "rm"
          /\ ~killed[n] /\ spod[n] =>
                 \/ KVNet!SnifferBroke(n) \/ sniffed[n]
                 \/ call[n] = "sniff" /\ step \in {"sready", "tcpdump"}
                 \/ call[n] = "undo" /\ step = "srm"
          /\ call[n] = "sniff" /\ step \in {"sready", "tcpdump"} => spod[n]
          /\ tcpdump[n] => spod[n]
      BY <1>1 DEF KVNetPods, step
    <2>2. pod'[n] => KVNet!PodBroke(n)' \/ (call'[n] = "undo" /\ Head(todo'[n]) = "rm")
      BY <1>3, <1>5, <1>8, <1>9, <2>1
    <2>3. spod'[n] => KVNet!SnifferBroke(n)' \/ (call'[n] = "undo" /\ Head(todo'[n]) = "srm")
      <3>1. ASSUME spod'[n]
            PROVE  step = "spod" \/ (spod[n] /\ (spod'[n] <=> spod[n]))
        BY <1>3, <3>1
      <3>2. CASE step = "spod"
        <4>1. call[n] = "sniff"
          BY <1>9, <3>2
        <4> QED BY <1>5, <3>2, <4>1
      <3>3. CASE spod[n]
        <4>1. \/ KVNet!SnifferBroke(n) \/ call[n] = "unsniff"
              \/ call[n] = "sniff" /\ step \in {"sready", "tcpdump"}
              \/ call[n] = "undo" /\ step = "srm"
          BY <1>8, <2>1, <3>3
        <4>2. call[n] = "unsniff" => step \in {"untcpdump", "srm"}
          BY <1>9
        <4>3. call[n] = "sniff" /\ step \in {"sready", "tcpdump"}
                  => call'[n] = "undo" /\ Head(todo'[n]) = "srm"
          BY <1>9
        <4> QED BY <1>5, <4>1, <4>2, <4>3
      <3> QED BY <3>1, <3>2, <3>3
    <2>4. tcpdump'[n] => spod'[n]
      BY <1>3, <1>9, <2>1
    <2> QED BY <1>8, <1>9, <2>2, <2>3, <2>4 DEF KVNetPods
  <1>12. KVNetBridge(n)'
    <2>1. /\ \/ call[n] = "create" /\ step = "up"
             \/ call[n] = "create" /\ step \in {"rm", "define"}
             \/ owned[n] /\ ~(call[n] = "destroy" /\ step = "rm") /\ bridge[n] = "up"
             \/ bridge[n] = "none" \/ KVNet!BridgeBroke(n)
          /\ owned[n] /\ call[n] \notin {"create", "destroy"} => bridge[n] = "up"
          /\ address[n] \/ machine[n] # "none" => bridge[n] # "none"
          /\ machine[n] # "none" => step # "del"
      BY <1>1, <1>8, <1>9 DEF KVNetBridge, KVNetCalled, step
    <2>2. owned'[n] => bridge'[n] = "up"
      BY <1>2, <1>3, <1>9, <2>1
    <2>3. ~owned'[n] => bridge'[n] = "none" \/ KVNet!BridgeBroke(n)'
      <3>1. CASE call[n] = "create"
        <4>1. CASE step \in {"add", "up", "rm", "define"}
          BY <1>5, <3>1, <4>1
        <4>2. CASE step \notin {"add", "up", "rm", "define"}
          <5>1. ~owned[n] /\ bridge'[n] = bridge[n]
            BY <1>3, <1>8, <1>9, <3>1, <4>2
          <5>2. bridge[n] = "none" \/ KVNet!BridgeBroke(n)
            BY <2>1, <4>2, <5>1
          <5> QED BY <1>5, <5>1, <5>2
        <4> QED BY <4>1, <4>2
      <3>2. CASE call[n] = "destroy"
        <4>1. CASE step = "rm"
          <5>1. bridge'[n] = bridge[n]
            BY <1>3, <4>1
          <5>2. bridge[n] = "none" \/ KVNet!BridgeBroke(n)
            BY <2>1, <3>2, <4>1
          <5> QED BY <1>5, <5>1, <5>2
        <4>2. CASE step # "rm"
          BY <1>5, <1>9, <3>2, <4>2
        <4> QED BY <4>1, <4>2
      <3>3. CASE call[n] \notin {"create", "destroy"}
        <4>1. ~owned'[n] => ~owned[n]
          BY <1>2, <3>3
        <4>2. bridge'[n] = bridge[n]
          BY <1>3, <1>9, <3>3
        <4>3. ~owned[n] => bridge[n] = "none" \/ KVNet!BridgeBroke(n)
          BY <2>1, <3>3
        <4> QED BY <1>5, <4>1, <4>2, <4>3
      <3> QED BY <3>1, <3>2, <3>3
    <2>4. address'[n] \/ machine'[n] # "none" => bridge'[n] # "none"
      BY <1>3, <2>1
    <2> QED BY <1>9, <2>2, <2>3, <2>4 DEF KVNetBridge
  <1>13. KVNetPending(n)' => KVNetPending(n) /\ ~KVNetUnchecked(n)
    BY <1>2, <1>3, <1>8, <1>9 DEF KVNetPending, KVNetUnchecked
  <1>14. KVNetAddresses' /\ KVNet!OneBridgePerAddress'
    BY <1>3, <1>7, <1>13, KVNetNoClaim
  <1> QED BY <1>6, <1>7, <1>10, <1>11, <1>12, <1>14, KVNetAllFit DEF KVNetFits

LEMMA KVNetAlreadyThere ==
    ASSUME KVNetIInv, NEW n \in Networks, KVNet!AlreadyThere(n)
    PROVE  KVNetIInv'
  <1>1. /\ todo[n] # <<>> /\ Head(todo[n]) = "check" /\ KVNet!Raises(n)
        /\ UNCHANGED KVNet!node /\ UNCHANGED <<inTurn, broken, killed, faults>>
    BY DEF KVNet!AlreadyThere, KVNet!Does
  <1>2. call[n] # "none" /\ faults \in 0 .. NetworkFaults
    BY <1>1 DEF KVNetIInv, KVNetFits, KVNetCalled, KVNetTypes
  <1> QED BY <1>1, <1>2, KVNetRaises

LEMMA KVNetFault ==
    ASSUME KVNet!Assumptions, KVNetIInv, NEW n \in Networks, KVNet!Fault(n)
    PROVE  KVNetIInv'
  <1>1. /\ call[n] # "none" /\ KVNet!Raises(n) /\ (KVNet!Effect(n) \/ UNCHANGED KVNet!node)
        /\ faults < NetworkFaults /\ faults' = faults + 1
        /\ broken' = [broken EXCEPT ![n] = broken[n] \cup {<<call[n], Head(todo[n])>>}]
        /\ UNCHANGED <<inTurn, killed>>
    BY DEF KVNet!Fault, KVNet!Done
  <1>2. faults' \in 0 .. NetworkFaults
    BY <1>1 DEF KVNetIInv, KVNetTypes, KVNet!Assumptions
  <1> QED BY <1>1, <1>2, KVNetRaises

LEMMA KVNetKill ==
    ASSUME KVNet!Assumptions, KVNetIInv, NEW n \in Networks, KVNet!Kill(n)
    PROVE  KVNetIInv'
  <1>1. /\ call[n] # "none" \/ owned[n]
        /\ faults < NetworkFaults /\ faults' = faults + 1
        /\ killed' = [killed EXCEPT ![n] = TRUE]
        /\ call' = [call EXCEPT ![n] = "none"] /\ todo' = [todo EXCEPT ![n] = <<>>]
        /\ owned' = [owned EXCEPT ![n] = FALSE] /\ sniffed' = [sniffed EXCEPT ![n] = FALSE]
        /\ UNCHANGED <<inTurn, pod, spod, bridge, address, defined, machine, tcpdump, broken>>
    BY DEF KVNet!Kill, KVNet!Done, KVNet!node
  <1>2. KVNetTypes /\ KVNetFits(n)
    BY DEF KVNetIInv
  <1>3. /\ {killed, owned, sniffed} \subseteq [Networks -> BOOLEAN]
        /\ call \in [Networks -> {"none", "create", "destroy", "sniff", "unsniff", "undo"}]
        /\ DOMAIN todo = Networks /\ faults \in 0 .. NetworkFaults /\ NetworkFaults \in Nat
    BY <1>2 DEF KVNetTypes, KVNet!Assumptions
  <1>4. /\ {killed', owned', sniffed'} \subseteq [Networks -> BOOLEAN]
        /\ killed'[n] /\ ~owned'[n] /\ ~sniffed'[n]
        /\ \A o \in Networks \ {n} :
               /\ killed'[o] = killed[o] /\ owned'[o] = owned[o]
               /\ sniffed'[o] = sniffed[o]
    BY <1>1, <1>3
  <1>5. /\ call' \in [Networks -> {"none", "create", "destroy", "sniff", "unsniff", "undo"}]
        /\ DOMAIN todo' = Networks /\ faults' \in 0 .. NetworkFaults
        /\ call'[n] = "none" /\ todo'[n] = <<>>
        /\ \A o \in Networks \ {n} : call'[o] = call[o] /\ todo'[o] = todo[o]
    BY <1>1, <1>3
  <1>6. KVNetTypes'
    BY <1>1, <1>2, <1>4, <1>5 DEF KVNetTypes
  <1>7. \A o \in Networks \ {n} : KVNetSame(o)
    BY <1>1, <1>4, <1>5 DEF KVNetSame
  <1>8. KVNetFits(n)'
    <2>1. KVNetCalled(n)'
      BY <1>1, <1>2, <1>4, <1>5 DEF KVNetFits, KVNetCalled
    <2>2. KVNetPods(n)'
      BY <1>1, <1>2, <1>4, <1>5 DEF KVNetFits, KVNetPods
    <2>3. KVNetBridge(n)'
      BY <1>1, <1>2, <1>4 DEF KVNetFits, KVNetBridge
    <2> QED BY <2>1, <2>2, <2>3 DEF KVNetFits
  <1>9. KVNetPending(n)' => KVNetPending(n) /\ ~KVNetUnchecked(n)
    BY <1>1, <1>2, <1>4, <1>5 DEF KVNetPending, KVNetUnchecked, KVNetFits, KVNetCalled
  <1>10. KVNetAddresses' /\ KVNet!OneBridgePerAddress'
    BY <1>1, <1>7, <1>9, KVNetNoClaim
  <1> QED BY <1>6, <1>7, <1>8, <1>10, KVNetAllFit

LEMMA KVNetMachineOrDetach ==
    ASSUME KVNetIInv, NEW n \in Networks, KVNet!Machine(n) \/ KVNet!Detach(n)
    PROVE  KVNetIInv'
  <1>1. PICK at :
          /\ \/ at = "starting" /\ owned[n] /\ call[n] # "destroy" /\ machine[n] = "none"
             \/ at = "none" /\ machine[n] = "attached" /\ ~killed[n]
          /\ machine' = [machine EXCEPT ![n] = at]
          /\ UNCHANGED <<inTurn, call, todo, owned, sniffed, pod, spod, bridge, address,
                         defined, tcpdump, broken, killed, faults>>
    BY DEF KVNet!Machine, KVNet!Detach, KVNet!client, KVNet!Done
  <1>2. KVNetTypes /\ KVNetFits(n)
    BY DEF KVNetIInv
  <1>3. machine'[n] = at /\ \A o \in Networks \ {n} : machine'[o] = machine[o]
    BY <1>1, <1>2 DEF KVNetTypes
  <1>4. KVNetTypes'
    BY <1>1, <1>2 DEF KVNetTypes
  <1>5. \A o \in Networks \ {n} : KVNetSame(o)
    BY <1>1, <1>3 DEF KVNetSame
  <1>6. KVNetCalled(n)'
    BY <1>1, <1>2, <1>3 DEF KVNetFits, KVNetCalled
  <1>7. KVNetPods(n)'
    BY <1>1, <1>2, <1>3, KVNetBrokeSame DEF KVNetFits, KVNetPods
  <1>8. KVNetBridge(n)'
    BY <1>1, <1>2, <1>3, KVNetCreatesGo, KVNetBrokeSame DEF KVNetFits, KVNetBridge, KVNetCalled
  <1>9. KVNetPending(n)' => KVNetPending(n) /\ (KVNetUnchecked(n) => KVNetUnchecked(n)')
    BY <1>1, <1>2, <1>3 DEF KVNetPending, KVNetUnchecked, KVNetFits, KVNetCalled
  <1>10. KVNetAddresses' /\ KVNet!OneBridgePerAddress'
    BY <1>1, <1>5, <1>9, KVNetNoClaim
  <1> QED BY <1>4, <1>5, <1>6, <1>7, <1>8, <1>10, KVNetAllFit DEF KVNetFits

\* CNI gives a bridge its address: it's the one that was to get it, so it's the only one
\* with it.
LEMMA KVNetAttach ==
    ASSUME KVNetIInv, NEW n \in Networks, KVNet!Attach(n)
    PROVE  KVNetIInv'
  <1>1. /\ machine[n] = "starting"
        /\ machine' = [machine EXCEPT ![n] = "attached"]
        /\ bridge' = [bridge EXCEPT ![n] = "up"] /\ address' = [address EXCEPT ![n] = TRUE]
        /\ UNCHANGED <<inTurn, call, todo, owned, sniffed, pod, spod, defined, tcpdump,
                       broken, killed, faults>>
    BY DEF KVNet!Attach, KVNet!client, KVNet!Done
  <1>2. KVNetTypes /\ KVNetFits(n)
    BY DEF KVNetIInv
  <1>3. /\ machine \in [Networks -> {"none", "starting", "attached"}]
        /\ bridge \in [Networks -> {"none", "down", "up"}]
        /\ address \in [Networks -> BOOLEAN]
    BY <1>2 DEF KVNetTypes
  <1>4. /\ machine'[n] = "attached" /\ bridge'[n] = "up" /\ address'[n]
        /\ \A o \in Networks \ {n} : /\ machine'[o] = machine[o]
                                     /\ bridge'[o] = bridge[o] /\ address'[o] = address[o]
        /\ machine' \in [Networks -> {"none", "starting", "attached"}]
        /\ bridge' \in [Networks -> {"none", "down", "up"}]
        /\ address' \in [Networks -> BOOLEAN]
    BY <1>1, <1>3
  <1>5. KVNetTypes'
    BY <1>1, <1>2, <1>4 DEF KVNetTypes
  <1>6. \A o \in Networks \ {n} : KVNetSame(o)
    BY <1>1, <1>4 DEF KVNetSame
  <1>7. KVNetCalled(n)'
    BY <1>1, <1>2, <1>4 DEF KVNetFits, KVNetCalled
  <1>8. KVNetPods(n)'
    BY <1>1, <1>2, <1>4, KVNetBrokeSame DEF KVNetFits, KVNetPods
  <1>9. KVNetBridge(n)'
    <2>1. killed[n] \/ (owned[n] /\ call[n] # "destroy" /\ call[n] # "create")
      BY <1>1, <1>2 DEF KVNetFits, KVNetCalled
    <2> QED BY <1>1, <1>4, <2>1 DEF KVNetBridge
  <1>10. /\ ~ KVNetPending(n)' /\ ~KVNetUnchecked(n)
         /\ ~address[n] => KVNetPending(n)
    <2>1. call[n] \notin {"create", "destroy"}
      BY <1>1, <1>2 DEF KVNetFits, KVNetCalled
    <2> QED BY <1>1, <1>4, <2>1 DEF KVNetPending, KVNetUnchecked
  <1>11. \A o \in Networks \ {n} : /\ KVNetPending(o)' <=> KVNetPending(o)
                                   /\ KVNetUnchecked(o)' <=> KVNetUnchecked(o)
    BY <1>6, KVNetOthers DEF KVNetIInv
  <1>12. KVNetAddresses /\ KVNet!OneBridgePerAddress
    BY DEF KVNetIInv
  <1>13. KVNetAddresses'
    <2>1. ASSUME inTurn, NEW o \in Networks, NEW p \in Networks, KVNetPending(o)'
          PROVE  /\ KVNetPending(p)' => o = p
                 /\ ~KVNetUnchecked(o)' /\ address'[p] => HostIp[p] # HostIp[o]
      <3>1. o # n /\ KVNetPending(o)
        BY <1>10, <1>11, <2>1
      <3>2. address[n]
        BY <1>10, <1>12, <2>1, <3>1 DEF KVNetAddresses
      <3>3. address'[p] <=> address[p]
        BY <1>4, <3>2
      <3> QED BY <1>10, <1>11, <1>12, <2>1, <3>1, <3>3 DEF KVNetAddresses
    <2> QED BY <1>1, <2>1 DEF KVNetAddresses
  <1>14. KVNet!OneBridgePerAddress'
    <2>1. ASSUME inTurn, NEW o \in Networks, NEW p \in Networks, o # p, address'[o], address'[p]
          PROVE  HostIp[o] # HostIp[p]
      <3>1. CASE address[n]
        BY <1>4, <1>12, <2>1, <3>1 DEF KVNet!OneBridgePerAddress
      <3>2. CASE ~address[n]
        <4>1. KVNetPending(n) /\ ~KVNetUnchecked(n)
          BY <1>10, <3>2
        <4> QED BY <1>4, <1>12, <2>1, <4>1 DEF KVNetAddresses, KVNet!OneBridgePerAddress
      <3> QED BY <3>1, <3>2
    <2> QED BY <1>1, <2>1 DEF KVNet!OneBridgePerAddress
  <1> QED BY <1>5, <1>6, <1>7, <1>8, <1>9, <1>13, <1>14, KVNetAllFit DEF KVNetFits

LEMMA KVNetInit ==
    ASSUME KVNet!Assumptions, KVNet!Init
    PROVE  KVNetIInv
  <1>1. \A n \in Networks :
            /\ call[n] = "none" /\ todo[n] = <<>> /\ ~owned[n] /\ ~sniffed[n]
            /\ machine[n] = "none" /\ ~pod[n] /\ ~spod[n] /\ ~defined[n] /\ ~address[n]
            /\ ~tcpdump[n] /\ ~killed[n] /\ bridge[n] = "none"
    BY DEF KVNet!Init, KVNet!AllOf
  <1>2. KVNetTypes
    BY DEF KVNet!Init, KVNet!AllOf, KVNet!Assumptions, KVNetTypes
  <1>3. KVNetAddresses /\ KVNet!OneBridgePerAddress
    BY <1>1 DEF KVNetAddresses, KVNetPending, KVNet!OneBridgePerAddress
  <1>4. \A n \in Networks : KVNetFits(n)
    BY <1>1 DEF KVNetFits, KVNetCalled, KVNetPods, KVNetBridge
  <1> QED BY <1>2, <1>3, <1>4 DEF KVNetIInv

LEMMA KVNetNext ==
    ASSUME KVNet!Assumptions, KVNetIInv, [KVNet!Next]_kvnet
    PROVE  KVNetIInv'
  <1>1. CASE UNCHANGED kvnet
    <2>1. \A n \in Networks : KVNetSame(n)
      BY <1>1 DEF kvnet, KVNetSame
    <2>2. KVNetTypes' /\ KVNetAddresses' /\ KVNet!OneBridgePerAddress'
      BY <1>1 DEF kvnet, KVNetIInv, KVNetTypes, KVNetAddresses, KVNetPending, KVNetUnchecked,
                  KVNet!OneBridgePerAddress
    <2> QED BY <2>1, <2>2, KVNetOthers DEF KVNetIInv
  <1>2. CASE KVNet!Next
    <2>1. PICK n \in Networks :
            \/ KVNet!CallCreate(n) \/ KVNet!CallDestroy(n) \/ KVNet!CallSniff(n)
            \/ KVNet!CallUnsniff(n) \/ KVNet!Runs(n) \/ KVNet!AlreadyThere(n)
            \/ KVNet!Fault(n) \/ KVNet!Kill(n) \/ KVNet!Machine(n) \/ KVNet!Attach(n)
            \/ KVNet!Detach(n)
      BY <1>2 DEF KVNet!Next
    <2> QED BY <2>1, KVNetCallCreate, KVNetCallOthers, KVNetRuns, KVNetAlreadyThere,
               KVNetFault, KVNetKill, KVNetMachineOrDetach, KVNetAttach
  <1> QED BY <1>1, <1>2

\* Networks and sniffers of KubeVirt (kubevirt/network.py, node_pod.py), with commands
\* that fail at any step, after their effect or without it, and processes that are killed,
\* in whatever order networks, sniffers and machines come and go: a pod outlives its method
\* or its sniffer, and a bridge its network, only after a kill or after the failure of a
\* command that makes it, deletes it, or comes before its deletion in destroy(), or, of a
\* bridge, that follows its making in create(); a network that was created has its bridge
\* up, and a sniffer captures; and if each machine is attached before the next network is
\* made, no two bridges have one address.
THEOREM NodeStaysClean == Spec => []NodeIsClean
  <1>1. Init => (part = "kvnet" => KVNetIInv)
    BY PartsAssumption, KVNetInit DEF Init
  <1>2. (part = "kvnet" => KVNetIInv) /\ [Next]_vars => (part = "kvnet" => KVNetIInv)'
    BY PartsAssumption, PartStays, KVNetSteps, KVNetNext
  <1>3. (part = "kvnet" => KVNetIInv) => NodeIsClean
    <2>1. ASSUME KVNetIInv
          PROVE  KVNet!TypeOK
      <3>1. ASSUME NEW n \in Networks
            PROVE  /\ (todo[n] = <<>>) <=> (call[n] = "none")
                   /\ address[n] \/ machine[n] # "none" => bridge[n] # "none"
                   /\ tcpdump[n] => spod[n]
        <4>1. KVNetFits(n)
          BY <2>1 DEF KVNetIInv
        <4>2. (todo[n] = <<>>) <=> (call[n] = "none")
          BY <4>1, KVNetHasSteps DEF KVNetFits, KVNetCalled
        <4>3. address[n] \/ machine[n] # "none" => bridge[n] # "none"
          BY <4>1 DEF KVNetFits, KVNetBridge
        <4>4. tcpdump[n] => spod[n]
          BY <4>1 DEF KVNetFits, KVNetPods
        <4> QED BY <4>2, <4>3, <4>4
      <3> QED BY <2>1, <3>1 DEF KVNetIInv, KVNetTypes, KVNet!TypeOK
    <2>2. ASSUME KVNetIInv, NEW n \in Networks
          PROVE  /\ call[n] = "none" /\ ~killed[n] /\ pod[n] => KVNet!PodBroke(n)
                 /\ call[n] = "none" /\ ~killed[n] /\ spod[n]
                        => sniffed[n] \/ KVNet!SnifferBroke(n)
                 /\ sniffed[n] => tcpdump[n]
      BY <2>2 DEF KVNetIInv, KVNetFits, KVNetPods
    <2>3. ASSUME KVNetIInv, NEW n \in Networks, call[n] = "none"
          PROVE  /\ owned[n] => bridge[n] = "up"
                 /\ bridge[n] # "none" => owned[n] \/ killed[n] \/ KVNet!BridgeBroke(n)
      BY <2>3 DEF KVNetIInv, KVNetFits, KVNetBridge, KVNetCalled
    <2> QED BY <2>1, <2>2, <2>3 DEF KVNetIInv, NodeIsClean, KVNet!NoPodStays,
                              KVNet!BridgeLivesWithNetwork
  <1> QED BY <1>1, <1>2, <1>3, PTL DEF Spec

-----------------------------------------------------------------------------
(* MachineDevices                                                          *)

LEMMA DevicesSteps ==
    ASSUME [Next]_vars, part = "devices"
    PROVE  [Devices!Next]_devices
  BY DEF vars, Next, Only, SessionStep, DefaultStep, TransferStep, GroupStep, BootStep,
         KVNetStep, DevicesStep, KVModelStep, NetStep

\* The place of what a name's last letter is added to, and that letter.
LEMMA DevicesDivision ==
    ASSUME Devices!Assumptions, NEW a \in Nat
    PROVE  /\ a \div Letters \in Nat /\ a \div Letters <= a
           /\ a % Letters \in 0 .. Letters - 1
           /\ a = Letters * (a \div Letters) + (a % Letters)
  BY SMTT(30) DEF Devices!Assumptions

LEMMA DevicesRest ==
    ASSUME Devices!Assumptions, NEW i \in Nat \ {0}
    PROVE  /\ Devices!Rest(i) \in Nat /\ Devices!Rest(i) < i
           /\ Devices!Letter(i) \in 1 .. Letters
  <1>1. i - 1 \in Nat
    OBVIOUS
  <1>2. /\ (i - 1) \div Letters \in Nat /\ (i - 1) \div Letters <= i - 1
        /\ (i - 1) % Letters \in 0 .. Letters - 1
    BY <1>1, DevicesDivision
  <1> DEFINE d == (i - 1) \div Letters
             r == (i - 1) % Letters
  <1>3. Letters \in Nat
    BY DEF Devices!Assumptions
  <1> HIDE DEF d, r
  <1>4. d \in Nat /\ d < i /\ r + 1 \in 1 .. Letters
    BY <1>2, <1>3 DEF d, r
  <1> QED BY <1>4 DEF Devices!Rest, Devices!Letter, d, r

LEMMA DevicesRestGrows ==
    ASSUME Devices!Assumptions, NEW i \in Nat \ {0}, NEW j \in Nat \ {0}, i < j
    PROVE  \/ Devices!Rest(i) < Devices!Rest(j)
           \/ Devices!Rest(i) = Devices!Rest(j) /\ Devices!Letter(i) < Devices!Letter(j)
  <1> DEFINE a == i - 1
             b == j - 1
             d == a \div Letters
             e == b \div Letters
             r == a % Letters
             s == b % Letters
  <1>1. a \in Nat /\ b \in Nat /\ a < b
    OBVIOUS
  <1>2. Letters \in Nat \ {0}
    BY DEF Devices!Assumptions
  <1>3. /\ d \in Nat /\ r \in 0 .. Letters - 1 /\ a = Letters * d + r
        /\ e \in Nat /\ s \in 0 .. Letters - 1 /\ b = Letters * e + s
    BY <1>1, DevicesDivision
  <1> HIDE DEF a, b, d, e, r, s
  <1>4. ~ (e < d)
    <2> SUFFICES ASSUME e < d PROVE FALSE
      OBVIOUS
    <2>1. e + 1 <= d
      BY <1>3
    <2>2. Letters * (e + 1) <= Letters * d
      BY <1>2, <1>3, <2>1
    <2>3. Letters * (e + 1) = Letters * e + Letters
      BY <1>2, <1>3
    <2> DEFINE x == Letters * e
               y == Letters * d
    <2>4. x \in Nat /\ y \in Nat
      BY <1>2, <1>3
    <2> HIDE DEF x, y
    <2> QED BY <1>1, <1>2, <1>3, <2>2, <2>3, <2>4 DEF x, y
  <1>5. d = e => r < s
    <2> SUFFICES ASSUME d = e PROVE r < s
      OBVIOUS
    <2> DEFINE x == Letters * d
    <2>1. x \in Nat /\ a = x + r /\ b = x + s
      BY <1>2, <1>3
    <2> HIDE DEF x
    <2> QED BY <1>1, <1>3, <2>1
  <1>6. d < e \/ (d = e /\ r + 1 < s + 1)
    BY <1>3, <1>4, <1>5
  <1> QED BY <1>6 DEF Devices!Rest, Devices!Letter, a, b, d, e, r, s

\* A function that gives the names of places up to n.
DevicesNames(f, n) ==
    f = [i \in 0 .. n |-> IF i = 0 THEN <<>>
                          ELSE Append(f[Devices!Rest(i)], Devices!Letter(i))]

\* There's one for every n, by the least n that there's none for.
LEMMA DevicesNamesExist ==
    ASSUME Devices!Assumptions
    PROVE  \A n \in Nat : \E f : DevicesNames(f, n)
  <1> DEFINE None_ == {n \in Nat : ~ \E f : DevicesNames(f, n)}
  <1> SUFFICES ASSUME None_ # {} PROVE FALSE
    OBVIOUS
  <1>1. PICK m \in None_ : \A n \in None_ : m <= n
    BY LeastOf
  <1>2. m # 0
    <2> DEFINE f == [i \in 0 .. 0 |-> <<>>]
    <2>1. DevicesNames(f, 0)
      BY DEF DevicesNames
    <2> HIDE DEF f
    <2> QED BY <1>1, <2>1
  <1>3. m \in Nat \ {0} /\ m - 1 \in Nat /\ m - 1 \notin None_
    BY <1>1, <1>2
  <1>4. PICK f : DevicesNames(f, m - 1)
    BY <1>3
  <1> DEFINE g == [i \in 0 .. m |-> IF i = m THEN Append(f[Devices!Rest(m)], Devices!Letter(m))
                                    ELSE f[i]]
  <1>5. \A i \in 0 .. m : i # 0 => Devices!Rest(i) \in 0 .. m - 1
    <2> TAKE i \in 0 .. m
    <2> HAVE i # 0
    <2>1. i \in Nat \ {0}
      OBVIOUS
    <2>2. Devices!Rest(i) \in Nat /\ Devices!Rest(i) < i
      BY <2>1, DevicesRest
    <2> QED BY <1>3, <2>2
  <1>6. \A i \in 0 .. m - 1 : f[i] = IF i = 0 THEN <<>>
                                     ELSE Append(f[Devices!Rest(i)], Devices!Letter(i))
    BY <1>4 DEF DevicesNames
  <1>7. \A i \in 0 .. m : g[i] = IF i = 0 THEN <<>>
                                 ELSE Append(g[Devices!Rest(i)], Devices!Letter(i))
    <2> TAKE i \in 0 .. m
    <2>1. \A k \in 0 .. m - 1 : g[k] = f[k]
      BY <1>3
    <2>2. CASE i = m
      BY <1>3, <1>5, <2>1, <2>2
    <2>3. CASE i # m
      <3>1. i \in 0 .. m - 1
        BY <1>3, <2>3
      <3> HIDE DEF g
      <3> QED BY <1>5, <1>6, <2>1, <3>1
    <2> QED BY <2>2, <2>3
  <1>8. DevicesNames(g, m)
    <2>1. g = [i \in 0 .. m |-> g[i]]
      OBVIOUS
    <2> HIDE DEF g
    <2> QED BY <1>7, <2>1 DEF DevicesNames
  <1> HIDE DEF g
  <1> QED BY <1>1, <1>8

LEMMA DevicesSuffix ==
    ASSUME Devices!Assumptions
    PROVE  DevicesNames(Devices!Suffix, MaxDisks)
  <1>1. MaxDisks \in Nat
    BY DEF Devices!Assumptions
  <1>2. \E f : DevicesNames(f, MaxDisks)
    BY <1>1, DevicesNamesExist
  <1>3. Devices!Suffix = CHOOSE f : DevicesNames(f, MaxDisks)
    BY DEF Devices!Suffix, DevicesNames
  <1> QED BY <1>2, <1>3

\* The name of a place is that of an earlier one with a letter more.
LEMMA DevicesSuffixAt ==
    ASSUME Devices!Assumptions, NEW i \in 1 .. MaxDisks
    PROVE  /\ Devices!Rest(i) \in 0 .. MaxDisks /\ Devices!Rest(i) < i
           /\ Devices!Suffix[i] = Append(Devices!Suffix[Devices!Rest(i)], Devices!Letter(i))
           /\ Devices!Suffix[0] = <<>> /\ Devices!Letter(i) \in 1 .. Letters
  <1>1. MaxDisks \in Nat /\ i \in Nat \ {0} /\ i \in 0 .. MaxDisks /\ 0 \in 0 .. MaxDisks
    BY DEF Devices!Assumptions
  <1>2. /\ Devices!Rest(i) \in Nat /\ Devices!Rest(i) < i
        /\ Devices!Letter(i) \in 1 .. Letters
    BY <1>1, DevicesRest
  <1>3. \A k \in 0 .. MaxDisks :
            Devices!Suffix[k] = IF k = 0 THEN <<>>
                                ELSE Append(Devices!Suffix[Devices!Rest(k)], Devices!Letter(k))
    BY DevicesSuffix DEF DevicesNames
  <1>4. Devices!Suffix[i] = Append(Devices!Suffix[Devices!Rest(i)], Devices!Letter(i))
        /\ Devices!Suffix[0] = <<>>
    BY <1>1, <1>3
  <1>5. Devices!Rest(i) \in 0 .. MaxDisks
    BY <1>1, <1>2
  <1> QED BY <1>2, <1>4, <1>5

LEMMA DevicesSuffixType ==
    ASSUME Devices!Assumptions
    PROVE  \A i \in 0 .. MaxDisks : Devices!Suffix[i] \in Seq(1 .. Letters)
  <1> DEFINE Bad == {i \in 0 .. MaxDisks : Devices!Suffix[i] \notin Seq(1 .. Letters)}
  <1> SUFFICES ASSUME Bad # {} PROVE FALSE
    OBVIOUS
  <1>1. MaxDisks \in Nat /\ Bad \in SUBSET Nat
    BY DEF Devices!Assumptions
  <1>2. PICK m \in Bad : \A i \in Bad : m <= i
    BY <1>1, LeastOf
  <1>3. CASE m = 0
    <2>1. Devices!Suffix[0] = <<>>
      BY DevicesSuffix, <1>1 DEF DevicesNames
    <2> QED BY <1>2, <1>3, <2>1, EmptySeq
  <1>4. CASE m # 0
    <2>1. m \in 1 .. MaxDisks
      BY <1>1, <1>2, <1>4
    <2>2. /\ Devices!Rest(m) \in 0 .. MaxDisks /\ Devices!Rest(m) < m
          /\ Devices!Suffix[m] = Append(Devices!Suffix[Devices!Rest(m)], Devices!Letter(m))
          /\ Devices!Letter(m) \in 1 .. Letters
      BY <2>1, DevicesSuffixAt
    <2>3. Devices!Suffix[Devices!Rest(m)] \in Seq(1 .. Letters)
      BY <1>2, <2>1, <2>2
    <2>4. Devices!Suffix[m] \in Seq(1 .. Letters)
      BY <2>2, <2>3, AppendFacts
    <2> QED BY <1>2, <2>4
  <1> QED BY <1>3, <1>4

\* Names keep their order with a letter more, and those that differ in it have that of it.
LEMMA DevicesBefore ==
    ASSUME NEW a \in Seq(1 .. Letters), NEW b \in Seq(1 .. Letters), Letters \in Nat,
           NEW x \in 1 .. Letters, NEW y \in 1 .. Letters,
           Devices!Before(a, b) \/ (a = b /\ x < y)
    PROVE  Devices!Before(Append(a, x), Append(b, y))
  <1>1. /\ Len(a) \in Nat /\ Len(Append(a, x)) = Len(a) + 1
        /\ \A k \in 1 .. Len(a) : Append(a, x)[k] = a[k]
        /\ Append(a, x)[Len(a) + 1] = x
    BY AppendFacts
  <1>2. /\ Len(b) \in Nat /\ Len(Append(b, y)) = Len(b) + 1
        /\ \A k \in 1 .. Len(b) : Append(b, y)[k] = b[k]
        /\ Append(b, y)[Len(b) + 1] = y
    BY AppendFacts
  <1>3. CASE Len(a) < Len(b)
    BY <1>1, <1>2, <1>3 DEF Devices!Before
  <1>4. ASSUME Len(a) = Len(b), NEW k \in 1 .. Len(a), a[k] < b[k],
               \A l \in 1 .. k - 1 : a[l] = b[l]
        PROVE  Devices!Before(Append(a, x), Append(b, y))
    <2>1. k \in 1 .. Len(Append(a, x)) /\ Append(a, x)[k] < Append(b, y)[k]
      BY <1>1, <1>2, <1>4
    <2>2. \A l \in 1 .. k - 1 : Append(a, x)[l] = Append(b, y)[l]
      <3> TAKE l \in 1 .. k - 1
      <3>1. l \in 1 .. Len(a)
        BY <1>1, <1>4
      <3> QED BY <1>1, <1>2, <1>4, <3>1
    <2> QED BY <1>1, <1>2, <1>4, <2>1, <2>2 DEF Devices!Before
  <1>5. CASE a = b /\ x < y
    <2>1. Len(a) + 1 \in 1 .. Len(Append(a, x)) /\ Len(a) + 1 - 1 = Len(a)
      BY <1>1
    <2>2. \A l \in 1 .. Len(a) : Append(a, x)[l] = Append(b, y)[l]
      BY <1>1, <1>2, <1>5
    <2> QED BY <1>1, <1>2, <1>5, <2>1, <2>2 DEF Devices!Before
  <1> QED BY <1>3, <1>4, <1>5 DEF Devices!Before

\* The names of places are in order: by the least place whose name isn't after another's.
LEMMA DevicesInOrder ==
    ASSUME Devices!Assumptions
    PROVE  \A j \in 0 .. MaxDisks : \A i \in 0 .. j - 1 :
               Devices!Before(Devices!Suffix[i], Devices!Suffix[j])
  <1> DEFINE After(j) == \A i \in 0 .. j - 1 : Devices!Before(Devices!Suffix[i], Devices!Suffix[j])
             Bad == {j \in 0 .. MaxDisks : ~ After(j)}
  <1> SUFFICES ASSUME Bad # {} PROVE FALSE
    OBVIOUS
  <1>1. MaxDisks \in Nat /\ Bad \in SUBSET Nat /\ Letters \in Nat
    BY DEF Devices!Assumptions
  <1>2. PICK m \in Bad : \A j \in Bad : m <= j
    <2> HIDE DEF Bad
    <2> QED BY <1>1, LeastOf
  <1>3. m \in 0 .. MaxDisks /\ ~ After(m)
    OBVIOUS
  <1>4. \A j \in 0 .. MaxDisks : j < m => After(j)
    BY <1>1, <1>2
  <1> HIDE DEF Bad
  <1>5. PICK i \in 0 .. m - 1 : ~ Devices!Before(Devices!Suffix[i], Devices!Suffix[m])
    BY <1>3
  <1>6. m \in 1 .. MaxDisks /\ i < m
    BY <1>1, <1>3, <1>5
  <1>7. /\ Devices!Rest(m) \in 0 .. MaxDisks /\ Devices!Rest(m) < m
        /\ Devices!Suffix[m] = Append(Devices!Suffix[Devices!Rest(m)], Devices!Letter(m))
        /\ Devices!Suffix[0] = <<>> /\ Devices!Letter(m) \in 1 .. Letters
    BY <1>6, DevicesSuffixAt
  <1>8. \A k \in 0 .. MaxDisks : Devices!Suffix[k] \in Seq(1 .. Letters)
    BY DevicesSuffixType
  <1>9. CASE i = 0
    <2>1. Len(Devices!Suffix[m]) = Len(Devices!Suffix[Devices!Rest(m)]) + 1
          /\ Len(Devices!Suffix[Devices!Rest(m)]) \in Nat
      BY <1>7, <1>8, AppendFacts
    <2>2. Len(<<>>) = 0
      OBVIOUS
    <2> QED BY <1>5, <1>7, <1>9, <2>1, <2>2 DEF Devices!Before
  <1>10. CASE i # 0
    <2>1. i \in 1 .. MaxDisks /\ i \in Nat \ {0} /\ m \in Nat \ {0}
      BY <1>1, <1>5, <1>6, <1>10
    <2>2. /\ Devices!Rest(i) \in 0 .. MaxDisks
          /\ Devices!Suffix[i] = Append(Devices!Suffix[Devices!Rest(i)], Devices!Letter(i))
          /\ Devices!Letter(i) \in 1 .. Letters
      BY <2>1, DevicesSuffixAt
    <2>3. \/ Devices!Rest(i) < Devices!Rest(m)
          \/ Devices!Rest(i) = Devices!Rest(m) /\ Devices!Letter(i) < Devices!Letter(m)
      BY <1>6, <2>1, DevicesRestGrows
    <2>4. Devices!Rest(i) < Devices!Rest(m) =>
              Devices!Before(Devices!Suffix[Devices!Rest(i)], Devices!Suffix[Devices!Rest(m)])
      <3> HAVE Devices!Rest(i) < Devices!Rest(m)
      <3>1. After(Devices!Rest(m))
        BY <1>4, <1>7
      <3>2. Devices!Rest(i) \in 0 .. Devices!Rest(m) - 1
        BY <1>7, <2>2
      <3> QED BY <3>1, <3>2
    <2> HIDE DEF After
    <2> QED BY <1>1, <1>5, <1>7, <1>8, <2>2, <2>3, <2>4, DevicesBefore
  <1> QED BY <1>9, <1>10

\* The first name is "a".
LEMMA DevicesFirstName ==
    ASSUME Devices!Assumptions, 1 <= MaxDisks
    PROVE  Devices!Suffix[1] = <<1>>
  <1>1. MaxDisks \in Nat /\ Letters \in Nat \ {0} /\ 1 \in 1 .. MaxDisks
    BY DEF Devices!Assumptions
  <1>2. /\ Devices!Rest(1) \in 0 .. MaxDisks /\ Devices!Rest(1) < 1
        /\ Devices!Suffix[1] = Append(Devices!Suffix[Devices!Rest(1)], Devices!Letter(1))
        /\ Devices!Suffix[0] = <<>>
    BY <1>1, DevicesSuffixAt
  <1>3. Devices!Rest(1) = 0
    BY <1>1, <1>2
  <1>4. Devices!Letter(1) = 1
    <2>1. /\ 0 \div Letters \in Nat /\ 0 % Letters \in 0 .. Letters - 1
          /\ 0 = Letters * (0 \div Letters) + (0 % Letters)
      BY DevicesDivision
    <2> DEFINE q == 0 \div Letters
               r == 0 % Letters
    <2> HIDE DEF q, r
    <2>2. q \in Nat /\ r \in Nat /\ 0 = Letters * q + r
      BY <1>1, <2>1 DEF q, r
    <2>3. Letters * q \in Nat
      BY <1>1, <2>2
    <2>4. r = 0
      BY <2>2, <2>3
    <2> QED BY <2>4 DEF Devices!Letter, r
  <1>5. Append(<<>>, 1) = <<1>>
    OBVIOUS
  <1>6. Devices!Suffix[1] = Append(<<>>, 1)
    BY <1>2, <1>3, <1>4
  <1> QED BY <1>5, <1>6

-----------------------------------------------------------------------------
\* Disks have the names of their places.
DevicesNamed ==
    /\ Len(disks) \in 0 .. MaxDisks
    /\ \E P : disks \in Seq(P)
    /\ \A k \in 1 .. Len(disks) :
           disks[k][2] = Devices!Suffix[k] /\ disks[k] = <<disks[k][1], disks[k][2]>>
           /\ disks[k][1] \in Prefixes

DevicesIInv ==
    /\ Devices!TypeOK /\ DevicesNamed /\ Devices!OneDevicePerSlot /\ Devices!FullWhenRefused

LEMMA DevicesInit ==
    ASSUME Devices!Assumptions, Devices!Init
    PROVE  DevicesIInv
  <1>1. disks = <<>> /\ usb = <<>> /\ nics = {} /\ raised = FALSE
        /\ slot \in [Interfaces -> Devices!SlotSet \cup {Devices!NoSlot}]
    BY DEF Devices!Init
  <1>2. Len(<<>>) = 0 /\ \A S : <<>> \in Seq(S)
    BY EmptySeq
  <1>3. Devices!TypeOK
    <2>1. usb \in Seq(Devices!SlotSet)
      BY <1>1, <1>2
    <2>2. \A k \in 1 .. Len(disks) : FALSE
      BY <1>1, <1>2
    <2>3. nics \subseteq Interfaces /\ (\A i \in nics : FALSE) /\ raised \in BOOLEAN
      BY <1>1
    <2> QED BY <1>1, <2>1, <2>2, <2>3 DEF Devices!TypeOK
  <1>4. DevicesNamed
    BY <1>1, <1>2 DEF DevicesNamed, Devices!Assumptions
  <1>5. Devices!OneDevicePerSlot /\ Devices!FullWhenRefused
    BY <1>1, <1>2 DEF Devices!OneDevicePerSlot, Devices!FullWhenRefused
  <1> QED BY <1>3, <1>4, <1>5 DEF DevicesIInv

LEMMA DevicesDisk ==
    ASSUME Devices!Assumptions, DevicesIInv, NEW p \in Prefixes, Devices!Disk(p)
    PROVE  DevicesIInv'
  <1> DEFINE suffix == Devices!Suffix[Len(disks) + 1]
             all == {disks[k] : k \in 1 .. Len(disks)} \cup {<<p, suffix>>}
  <1>1. /\ Len(disks) < MaxDisks /\ disks' = Append(disks, <<p, suffix>>)
        /\ UNCHANGED <<usb, nics, slot, raised>>
    BY DEF Devices!Disk, Devices!Place
  <1>2. /\ DevicesNamed /\ Devices!TypeOK /\ Devices!OneDevicePerSlot
        /\ Devices!FullWhenRefused /\ MaxDisks \in Nat
    BY DEF DevicesIInv, Devices!Assumptions
  <1>3. PICK P : disks \in Seq(P)
    BY <1>2 DEF DevicesNamed
  <1>4. /\ Len(disks) \in Nat /\ disks' \in Seq(P \cup {<<p, suffix>>})
        /\ Len(disks') = Len(disks) + 1 /\ disks'[Len(disks) + 1] = <<p, suffix>>
        /\ \A k \in 1 .. Len(disks) : disks'[k] = disks[k]
    <2>1. disks \in Seq(P \cup {<<p, suffix>>})
      BY <1>3
    <2> HIDE DEF suffix
    <2> QED BY <1>1, <2>1, AppendFacts
  <1>5. suffix \in Seq(1 .. Letters) /\ suffix # <<>>
    <2>1. Len(disks) + 1 \in 1 .. MaxDisks /\ Len(disks) + 1 \in 0 .. MaxDisks
      BY <1>1, <1>2, <1>4
    <2>2. suffix \in Seq(1 .. Letters)
      BY <2>1, DevicesSuffixType
    <2>3. /\ suffix = Append(Devices!Suffix[Devices!Rest(Len(disks) + 1)],
                             Devices!Letter(Len(disks) + 1))
          /\ Devices!Rest(Len(disks) + 1) \in 0 .. MaxDisks
          /\ Devices!Letter(Len(disks) + 1) \in 1 .. Letters
      BY <2>1, DevicesSuffixAt
    <2>4. Devices!Suffix[Devices!Rest(Len(disks) + 1)] \in Seq(1 .. Letters)
      BY <2>3, DevicesSuffixType
    <2>5. Len(suffix) # 0
      BY <2>3, <2>4, AppendFacts
    <2> HIDE DEF suffix
    <2> QED BY <2>2, <2>5, EmptySeq
  <1> HIDE DEF suffix
  <1>6. \A k \in 1 .. Len(disks') : k \in 1 .. Len(disks) \/ k = Len(disks) + 1
    BY <1>4
  <1>7. Devices!TypeOK'
    <2>1. \A k \in 1 .. Len(disks') :
              disks'[k] \in Prefixes \X Seq(1 .. Letters) /\ disks'[k][2] # <<>>
      <3> TAKE k \in 1 .. Len(disks')
      <3>1. CASE k \in 1 .. Len(disks)
        BY <1>2, <1>4, <3>1 DEF Devices!TypeOK
      <3>2. CASE k = Len(disks) + 1
        <4>1. /\ <<p, suffix>> \in Prefixes \X Seq(1 .. Letters)
              /\ <<p, suffix>>[2] = suffix
          BY <1>5
        <4>2. disks'[k] = <<p, suffix>>
          BY <1>4, <3>2
        <4> QED BY <1>5, <4>1, <4>2
      <3> QED BY <1>6, <3>1, <3>2
    <2> QED BY <1>1, <1>2, <2>1 DEF Devices!TypeOK
  <1>8. DevicesNamed'
    <2>1. \A k \in 1 .. Len(disks') :
              /\ disks'[k][2] = Devices!Suffix[k] /\ disks'[k] = <<disks'[k][1], disks'[k][2]>>
              /\ disks'[k][1] \in Prefixes
      <3> TAKE k \in 1 .. Len(disks')
      <3>1. CASE k \in 1 .. Len(disks)
        BY <1>2, <1>4, <3>1 DEF DevicesNamed
      <3>2. CASE k = Len(disks) + 1
        BY <1>4, <3>2 DEF suffix
      <3> QED BY <1>6, <3>1, <3>2
    <2>2. Len(disks') \in 0 .. MaxDisks
      BY <1>1, <1>2, <1>4
    <2>3. \E Q : disks' \in Seq(Q)
      BY <1>4
    <2> QED BY <2>1, <2>2, <2>3 DEF DevicesNamed
  <1>9. Devices!OneDevicePerSlot' /\ Devices!FullWhenRefused'
    BY <1>1, <1>2 DEF Devices!OneDevicePerSlot, Devices!FullWhenRefused, Devices!UsedSlots
  <1> QED BY <1>7, <1>8, <1>9 DEF DevicesIInv

\* The first free slot is one, and nobody's.
LEMMA DevicesFirstFree ==
    ASSUME Devices!Assumptions, Devices!FreeSlots # {}
    PROVE  /\ Devices!FirstFree \in Devices!SlotSet /\ Devices!FirstFree \notin Devices!UsedSlots
           /\ Devices!FirstFree # Devices!NoSlot
  <1>1. Devices!FreeSlots \in SUBSET Nat
    BY DEF Devices!FreeSlots, Devices!Assumptions
  <1> DEFINE k == CHOOSE k \in Devices!FreeSlots : \A l \in Devices!FreeSlots : k <= l
  <1>2. k \in Devices!FreeSlots
    BY <1>1, LeastOf
  <1> HIDE DEF k
  <1>3. /\ k \in 1 .. Len(Slots) /\ Slots[k] \notin Devices!UsedSlots
    BY <1>2 DEF Devices!FreeSlots
  <1>4. Slots[k] \in Devices!SlotSet /\ Slots[k] # Devices!NoSlot
    BY <1>3, ElementOfSeq DEF Devices!SlotSet, Devices!Assumptions
  <1>5. Devices!FirstFree = Slots[k]
    BY DEF Devices!FirstFree, k
  <1> QED BY <1>3, <1>4, <1>5

LEMMA DevicesUsb ==
    ASSUME Devices!Assumptions, DevicesIInv, Devices!Usb
    PROVE  DevicesIInv'
  <1> DEFINE first == Devices!FirstFree
  <1>1. /\ UNCHANGED <<disks, nics, slot>> /\ raised' = (Devices!FreeSlots = {})
        /\ \/ Devices!FreeSlots # {} /\ usb' = Append(usb, first)
           \/ Devices!FreeSlots = {} /\ usb' = usb
    BY DEF Devices!Usb
  <1>2. DevicesNamed /\ Devices!TypeOK /\ Devices!OneDevicePerSlot /\ Devices!FullWhenRefused
    BY DEF DevicesIInv
  <1>3. DevicesNamed'
    BY <1>1, <1>2 DEF DevicesNamed
  <1>4. usb \in Seq(Devices!SlotSet)
    BY <1>2 DEF Devices!TypeOK
  <1>5. CASE Devices!FreeSlots # {}
    <2>1. /\ first \in Devices!SlotSet /\ first \notin Devices!UsedSlots
      BY <1>5, DevicesFirstFree
    <2> HIDE DEF first
    <2>2. /\ usb' \in Seq(Devices!SlotSet) /\ Len(usb) \in Nat /\ Len(usb') = Len(usb) + 1
          /\ usb'[Len(usb) + 1] = first /\ \A k \in 1 .. Len(usb) : usb'[k] = usb[k]
      BY <1>1, <1>4, <1>5, <2>1, AppendFacts
    <2>3. \A k \in 1 .. Len(usb') : k \in 1 .. Len(usb) \/ k = Len(usb) + 1
      BY <2>2
    <2>4. Devices!TypeOK'
      BY <1>1, <1>2, <2>2 DEF Devices!TypeOK
    <2>5. /\ \A k \in 1 .. Len(usb) : usb[k] # first
          /\ \A i \in nics : slot[i] # first
      BY <2>1 DEF Devices!UsedSlots
    <2>6. Devices!OneDevicePerSlot'
      BY <1>1, <1>2, <2>2, <2>3, <2>5 DEF Devices!OneDevicePerSlot
    <2>7. Devices!FullWhenRefused'
      BY <1>1, <1>5 DEF Devices!FullWhenRefused
    <2> QED BY <1>3, <2>4, <2>6, <2>7 DEF DevicesIInv
  <1>6. CASE Devices!FreeSlots = {}
    <2>1. usb' = usb
      BY <1>1, <1>6
    <2>2. Devices!TypeOK' /\ Devices!OneDevicePerSlot'
      BY <1>1, <1>2, <2>1 DEF Devices!TypeOK, Devices!OneDevicePerSlot
    <2>3. Devices!FullWhenRefused'
      BY <1>1, <1>6, <2>1 DEF Devices!FullWhenRefused, Devices!FreeSlots, Devices!UsedSlots,
                              Devices!SlotSet
    <2> QED BY <1>3, <2>2, <2>3 DEF DevicesIInv
  <1> QED BY <1>5, <1>6

LEMMA DevicesInterface ==
    ASSUME Devices!Assumptions, DevicesIInv, NEW i \in Interfaces, Devices!Interface(i)
    PROVE  DevicesIInv'
  <1> DEFINE first == Devices!FirstFree
             its == IF slot[i] = Devices!NoSlot THEN first ELSE slot[i]
  <1>1. /\ i \notin nics /\ slot[i] \notin Devices!UsedSlots /\ UNCHANGED <<disks, usb>>
        /\ \/ /\ slot[i] # Devices!NoSlot \/ Devices!FreeSlots # {}
              /\ slot' = [slot EXCEPT ![i] = its]
              /\ nics' = nics \cup {i} /\ raised' = FALSE
           \/ /\ slot[i] = Devices!NoSlot /\ Devices!FreeSlots = {}
              /\ raised' = TRUE /\ nics' = nics /\ slot' = slot
    BY DEF Devices!Interface
  <1>2. DevicesNamed /\ Devices!TypeOK /\ Devices!OneDevicePerSlot /\ Devices!FullWhenRefused
    BY DEF DevicesIInv
  <1>3. DevicesNamed'
    BY <1>1, <1>2 DEF DevicesNamed
  <1>4. slot \in [Interfaces -> Devices!SlotSet \cup {Devices!NoSlot}] /\ nics \subseteq Interfaces
    BY <1>2 DEF Devices!TypeOK
  <1>5. CASE nics' = nics \cup {i}
    <2>1. /\ slot[i] # Devices!NoSlot \/ Devices!FreeSlots # {}
          /\ slot' = [slot EXCEPT ![i] = its] /\ raised' = FALSE
      BY <1>1, <1>5
    <2>2. /\ its \in Devices!SlotSet /\ its \notin Devices!UsedSlots /\ its # Devices!NoSlot
      BY <1>1, <1>4, <2>1, DevicesFirstFree
    <2> HIDE DEF its
    <2>3. /\ slot' \in [Interfaces -> Devices!SlotSet \cup {Devices!NoSlot}]
          /\ slot'[i] = its /\ \A j \in nics : slot'[j] = slot[j]
      BY <1>1, <1>4, <2>1, <2>2
    <2>4. Devices!TypeOK'
      BY <1>1, <1>2, <1>5, <2>1, <2>2, <2>3 DEF Devices!TypeOK
    <2>5. /\ \A k \in 1 .. Len(usb) : usb[k] # its
          /\ \A j \in nics : slot[j] # its
      BY <2>2 DEF Devices!UsedSlots
    <2>6. Devices!OneDevicePerSlot'
      BY <1>1, <1>2, <1>5, <2>3, <2>5 DEF Devices!OneDevicePerSlot
    <2>7. Devices!FullWhenRefused'
      BY <2>1 DEF Devices!FullWhenRefused
    <2> QED BY <1>3, <2>4, <2>6, <2>7 DEF DevicesIInv
  <1>6. CASE nics' # nics \cup {i}
    <2>1. Devices!FreeSlots = {} /\ raised' = TRUE /\ nics' = nics /\ slot' = slot
      BY <1>1, <1>6
    <2>2. Devices!TypeOK' /\ Devices!OneDevicePerSlot'
      BY <1>1, <1>2, <2>1 DEF Devices!TypeOK, Devices!OneDevicePerSlot
    <2>3. Devices!FullWhenRefused'
      BY <1>1, <2>1 DEF Devices!FullWhenRefused, Devices!FreeSlots, Devices!UsedSlots,
                        Devices!SlotSet
    <2> QED BY <1>3, <2>2, <2>3 DEF DevicesIInv
  <1> QED BY <1>5, <1>6

LEMMA DevicesNext ==
    ASSUME Devices!Assumptions, DevicesIInv, [Devices!Next]_devices
    PROVE  DevicesIInv'
  <1>1. CASE UNCHANGED devices
    <2>1. UNCHANGED <<disks, usb, nics, slot, raised>>
      BY <1>1 DEF devices
    <2>2. Devices!TypeOK' /\ Devices!OneDevicePerSlot'
      BY <2>1 DEF DevicesIInv, Devices!TypeOK, Devices!OneDevicePerSlot
    <2>3. DevicesNamed'
      BY <2>1 DEF DevicesIInv, DevicesNamed
    <2>4. Devices!FullWhenRefused'
      BY <2>1 DEF DevicesIInv, Devices!FullWhenRefused, Devices!UsedSlots
    <2> QED BY <2>2, <2>3, <2>4 DEF DevicesIInv
  <1> QED BY <1>1, DevicesDisk, DevicesUsb, DevicesInterface DEF Devices!Next

LEMMA DevicesNamesInOrder ==
    ASSUME Devices!Assumptions, DevicesIInv
    PROVE  Devices!NamesInOrder
  <1>1. /\ Len(disks) \in Nat /\ MaxDisks \in Nat /\ Len(disks) <= MaxDisks
        /\ \A k \in 1 .. Len(disks) : disks[k][2] = Devices!Suffix[k]
        /\ disks = <<>> \/ Len(disks) \in Nat \ {0}
    <2>1. PICK P : disks \in Seq(P)
      BY DEF DevicesIInv, DevicesNamed
    <2>2. Len(disks) \in Nat /\ (disks = <<>> \/ Len(disks) # 0)
      BY <2>1, EmptySeq
    <2> QED BY <2>2 DEF DevicesIInv, DevicesNamed, Devices!Assumptions
  <1>2. ASSUME NEW k \in 1 .. Len(disks), NEW l \in 1 .. Len(disks), k < l
        PROVE  Devices!Before(disks[k][2], disks[l][2])
    <2>1. l \in 0 .. MaxDisks /\ k \in 0 .. l - 1
      BY <1>1, <1>2
    <2>2. Devices!Before(Devices!Suffix[k], Devices!Suffix[l])
      BY <2>1, DevicesInOrder
    <2> QED BY <1>1, <2>2
  <1>3. ASSUME disks # <<>>
        PROVE  disks[1][2] = <<1>>
    <2>1. 1 \in 1 .. Len(disks) /\ 1 <= MaxDisks
      BY <1>1, <1>3
    <2> QED BY <1>1, <2>1, DevicesFirstName
  <1> QED BY <1>2, <1>3 DEF Devices!NamesInOrder

-----------------------------------------------------------------------------
(* KVMachineModel                                                          *)

LEMMA KVModelSteps ==
    ASSUME [Next]_vars, part = "kvmodel"
    PROVE  [KVModel!Next]_kvmodel
  BY DEF vars, Next, Only, SessionStep, DefaultStep, TransferStep, GroupStep, BootStep,
         KVNetStep, DevicesStep, KVModelStep, NetStep

NumberedNets == {"net"} \X (0 .. MaxAdded)
NumberedDisks == {"disk"} \X (0 .. MaxAdded)
NumberedHooks == MachineNames \X ({"hook"} \X (0 .. MaxAdded))
NetsOfMachines == MachineNames \X NumberedNets

\* Interfaces have names of their users' or with their place's number, and lead to networks
\* of the machine's that are called after them.
KVModelNets ==
    /\ interfaces \in Seq(OwnNames \cup NumberedNets)
    /\ networks \in Seq([name : OwnNames \cup NumberedNets,
                         to : Nets \cup {None} \cup NetsOfMachines])
    /\ \A i \in 1 .. Len(interfaces) :
           interfaces[i] \in OwnNames \/ interfaces[i] = <<"net", i - 1>>
    /\ \A i \in 1 .. Len(networks) :
           \/ networks[i].to \in Nets \cup {None}
           \/ \E m \in MachineNames : networks[i].to = <<m, interfaces[i]>>
    /\ DOMAIN attachments \subseteq NetsOfMachines /\ DOMAIN ips \subseteq NumberedNets
    /\ DOMAIN ips \subseteq {interfaces[i] : i \in 1 .. Len(interfaces)}

\* So do disks.
KVModelDisks ==
    /\ vdisks \in Seq(OwnNames \cup NumberedDisks)
    /\ volumes \in Seq([name : OwnNames \cup NumberedDisks, of : Volumes \cup {None}])
    /\ \A i \in 1 .. Len(vdisks) : vdisks[i] \in OwnNames \/ vdisks[i] = <<"disk", i - 1>>
    /\ \A i, j \in 1 .. Len(vdisks) : i # j => vdisks[i] # vdisks[j]
    /\ \A i \in 1 .. Len(kept) : volumes[i] = [name |-> vdisks[i], of |-> kept[i]]

\* Hooks have the numbers of the sidecars, and run in their places.
KVModelHooks ==
    /\ sidecars \in Seq(NumberedHooks) /\ annotation = sidecars
    /\ \A i \in 1 .. Len(sidecars) :
           \E m \in MachineNames : sidecars[i] = <<m, <<"hook", i - 1>>>>
    /\ DOMAIN hooks = {sidecars[i] : i \in 1 .. Len(sidecars)}
    /\ IsFiniteSet(DOMAIN hooks) /\ KVModel!Cardinality(DOMAIN hooks) = Len(sidecars)
    /\ \A i \in 1 .. Len(sidecars) : hooks[sidecars[i]] = i

KVModelIInv ==
    /\ KVModel!TypeOK /\ KVModelNets /\ KVModel!ConnectedAsAsked
    /\ KVModelDisks /\ KVModelHooks

\* What the instance counts with.
LEMMA KVModelCounts ==
    /\ KVModel!Cardinality({}) = 0
    /\ \A S : IsFiniteSet(S) => \A x : x \notin S =>
           /\ IsFiniteSet(S \cup {x})
           /\ KVModel!Cardinality(S \cup {x}) = KVModel!Cardinality(S) + 1
  <1>1. \A S : KVModel!Cardinality(S) = Cardinality(S)
    BY DEF KVModel!Cardinality, Cardinality
  <1> QED BY <1>1, FS_EmptySet, FS_AddElement

LEMMA KVModelInit ==
    ASSUME KVModel!Assumptions, KVModel!Init
    PROVE  KVModelIInv
  <1>1. /\ Len(<<>>) = 0 /\ (\A S : <<>> \in Seq(S)) /\ DOMAIN <<>> = {} /\ MaxAdded \in Nat
    BY EmptySeq DEF KVModel!Assumptions
  <1>2. /\ interfaces = <<>> /\ networks = <<>> /\ vdisks = <<>> /\ volumes = <<>>
        /\ ips = <<>> /\ attachments = <<>> /\ hooks = <<>> /\ sidecars = <<>>
        /\ annotation = <<>> /\ asked = <<>> /\ kept = <<>> /\ name \in MachineNames
    BY DEF KVModel!Init, KVModel!Empty
  <1>3. \A i \in 1 .. Len(<<>>) : FALSE
    BY <1>1
  <1>4. KVModel!TypeOK
    BY <1>1, <1>2 DEF KVModel!TypeOK
  <1>5. KVModelNets
    BY <1>1, <1>2, <1>3 DEF KVModelNets
  <1>6. KVModel!ConnectedAsAsked
    BY <1>1, <1>2, <1>3 DEF KVModel!ConnectedAsAsked
  <1>7. KVModelDisks
    BY <1>1, <1>2, <1>3 DEF KVModelDisks
  <1>8. KVModelHooks
    <2>1. IsFiniteSet({}) /\ {sidecars[i] : i \in 1 .. Len(sidecars)} = {}
      BY <1>2, <1>3, FS_EmptySet
    <2> QED BY <1>1, <1>2, <1>3, <2>1, KVModelCounts DEF KVModelHooks
  <1> QED BY <1>4, <1>5, <1>6, <1>7, <1>8 DEF KVModelIInv

\* The lists have room for one more.
LEMMA KVModelRoom ==
    ASSUME KVModel!Assumptions, KVModelIInv, KVModel!Room
    PROVE  /\ MaxAdded \in Nat /\ Len(asked) \in Nat /\ Len(kept) \in Nat /\ Len(sidecars) \in Nat
           /\ Len(asked) <= MaxAdded /\ Len(kept) <= MaxAdded /\ Len(sidecars) <= MaxAdded
           /\ Len(asked) + Len(kept) + Len(sidecars) + 1 <= MaxAdded
           /\ Len(interfaces) = Len(asked) /\ Len(networks) = Len(asked)
           /\ Len(vdisks) = Len(kept) /\ Len(volumes) = Len(kept)
  <1>1. /\ MaxAdded \in Nat /\ asked \in Seq([net : Nets \cup {None}, ip : Ips \cup {None}])
        /\ kept \in Seq(Volumes \cup {None}) /\ sidecars \in Seq(NumberedHooks)
    BY DEF KVModel!Assumptions, KVModelIInv, KVModel!TypeOK, KVModelHooks
  <1>2. Len(asked) \in Nat /\ Len(kept) \in Nat /\ Len(sidecars) \in Nat
    BY <1>1
  <1>3. Len(asked) + Len(kept) + Len(sidecars) < MaxAdded
    BY DEF KVModel!Room
  <1>4. /\ Len(interfaces) = Len(asked) /\ Len(networks) = Len(asked)
        /\ Len(vdisks) = Len(kept) /\ Len(volumes) = Len(kept)
    BY DEF KVModelIInv, KVModel!TypeOK
  <1> QED BY <1>1, <1>2, <1>3, <1>4

\* One more interface, with a name of its own and leading where it was asked to, leaves the
\* others connected as they are.
LEMMA KVModelInterface ==
    ASSUME KVModel!Assumptions, KVModelIInv, KVModel!Room,
           NEW n \in OwnNames \cup NumberedNets, NEW to \in Nets \cup {None} \cup NetsOfMachines,
           NEW what \in [net : Nets \cup {None}, ip : Ips \cup {None}],
           asked' = Append(asked, what), KVModel!Interface(n, to),
           UNCHANGED <<kept, sidecars, vdisks, volumes>>, name' \in MachineNames,
           n = <<"net", Len(networks)>> \/ (n \in OwnNames /\ n \notin KVModel!Range(interfaces)),
           to \in Nets \cup {None} \/ (\E m \in MachineNames : to = <<m, n>>),
           to \notin DOMAIN attachments, n \notin DOMAIN ips,
           DOMAIN attachments' = DOMAIN attachments \/
               (DOMAIN attachments' = DOMAIN attachments \cup {to} /\ to \in NetsOfMachines),
           \A x \in DOMAIN attachments : attachments'[x] = attachments[x],
           DOMAIN ips' = DOMAIN ips \/
               (DOMAIN ips' = DOMAIN ips \cup {n} /\ n \in NumberedNets),
           \A x \in DOMAIN ips : ips'[x] = ips[x],
           (IF to \in DOMAIN attachments' THEN attachments'[to].bridge ELSE to) = what.net,
           (IF to \in DOMAIN attachments' THEN attachments'[to].address ELSE None) = what.ip,
           (IF n \in DOMAIN ips' THEN ips'[n] ELSE None) = what.ip
    PROVE  KVModel!TypeOK' /\ KVModelNets' /\ KVModel!ConnectedAsAsked'
  <1> DEFINE new == [name |-> n, to |-> to]
  <1>0. PICK len : len = Len(asked)
    OBVIOUS
  <1>1. /\ MaxAdded \in Nat /\ len \in Nat /\ Len(kept) \in Nat /\ Len(sidecars) \in Nat
        /\ len + Len(kept) + Len(sidecars) + 1 <= MaxAdded
        /\ Len(interfaces) = len /\ Len(networks) = len
        /\ Len(vdisks) = Len(kept) /\ Len(volumes) = Len(kept)
    BY <1>0, KVModelRoom
  <1>2. KVModel!TypeOK /\ KVModelNets /\ KVModel!ConnectedAsAsked
    BY DEF KVModelIInv
  <1>3. /\ asked' \in Seq([net : Nets \cup {None}, ip : Ips \cup {None}])
        /\ Len(asked') = len + 1 /\ asked'[len + 1] = what
        /\ \A i \in 1 .. len : asked'[i] = asked[i]
    <2>1. asked \in Seq([net : Nets \cup {None}, ip : Ips \cup {None}])
      BY <1>2 DEF KVModel!TypeOK
    <2> QED BY <1>0, <2>1, AppendFacts
  <1>4. /\ interfaces' \in Seq(OwnNames \cup NumberedNets)
        /\ Len(interfaces') = len + 1 /\ interfaces'[len + 1] = n
        /\ \A i \in 1 .. len : interfaces'[i] = interfaces[i]
    <2>1. interfaces \in Seq(OwnNames \cup NumberedNets) /\ interfaces' = Append(interfaces, n)
      BY <1>2 DEF KVModelNets, KVModel!Interface
    <2> QED BY <1>1, <2>1, AppendFacts
  <1>5. /\ networks' \in Seq([name : OwnNames \cup NumberedNets,
                              to : Nets \cup {None} \cup NetsOfMachines])
        /\ Len(networks') = len + 1 /\ networks'[len + 1] = new
        /\ \A i \in 1 .. len : networks'[i] = networks[i]
    <2>1. /\ networks \in Seq([name : OwnNames \cup NumberedNets,
                               to : Nets \cup {None} \cup NetsOfMachines])
          /\ networks' = Append(networks, new)
      BY <1>2 DEF KVModelNets, KVModel!Interface
    <2>2. new \in [name : OwnNames \cup NumberedNets,
                   to : Nets \cup {None} \cup NetsOfMachines]
      OBVIOUS
    <2> HIDE DEF new
    <2> QED BY <1>1, <2>1, <2>2, AppendFacts
  <1>6. /\ new.name = n /\ new.to = to
    OBVIOUS
  <1> HIDE DEF new
  <1>7. \A i \in 1 .. len + 1 : i \in 1 .. len \/ i = len + 1
    BY <1>1
  <1>8. KVModel!TypeOK'
    BY <1>0, <1>1, <1>2, <1>3, <1>4, <1>5 DEF KVModel!TypeOK
  <1>9. \A i \in 1 .. len : interfaces[i] # n
    <2> SUFFICES ASSUME NEW i \in 1 .. len, interfaces[i] = n PROVE FALSE
      OBVIOUS
    <2>1. interfaces[i] \in KVModel!Range(interfaces)
      <3>1. DOMAIN interfaces = 1 .. len
        BY <1>0, <1>1, <1>2 DEF KVModelNets
      <3> QED BY <3>1 DEF KVModel!Range
    <2>2. n = <<"net", len>> /\ len \in 0 .. MaxAdded
      BY <1>1, <2>1
    <2>3. n \in NumberedNets /\ n \notin OwnNames
      BY <2>2 DEF NumberedNets, KVModel!Assumptions
    <2>4. interfaces[i] = <<"net", i - 1>>
      BY <1>1, <1>2, <2>3 DEF KVModelNets
    <2>5. i - 1 = len
      BY <2>2, <2>4
    <2> QED BY <1>1, <2>5
  <1>10. KVModelNets'
    <2>1. \A i \in 1 .. Len(interfaces') :
              interfaces'[i] \in OwnNames \/ interfaces'[i] = <<"net", i - 1>>
      <3>1. \A i \in 1 .. len : interfaces'[i] \in OwnNames \/ interfaces'[i] = <<"net", i - 1>>
        BY <1>1, <1>2, <1>4 DEF KVModelNets
      <3>2. len + 1 - 1 = len
        BY <1>1
      <3> QED BY <1>1, <1>4, <1>7, <3>1, <3>2
    <2>2. \A i \in 1 .. Len(networks') :
              \/ networks'[i].to \in Nets \cup {None}
              \/ \E m \in MachineNames : networks'[i].to = <<m, interfaces'[i]>>
      <3>1. \A i \in 1 .. len : \/ networks'[i].to \in Nets \cup {None}
                                \/ \E m \in MachineNames : networks'[i].to = <<m, interfaces'[i]>>
        <4>1. \A i \in 1 .. len : \/ networks[i].to \in Nets \cup {None}
                                  \/ \E m \in MachineNames : networks[i].to = <<m, interfaces[i]>>
          BY <1>1, <1>2 DEF KVModelNets
        <4> QED BY <1>4, <1>5, <4>1
      <3> QED BY <1>4, <1>5, <1>6, <1>7, <3>1
    <2>3. DOMAIN attachments' \subseteq NetsOfMachines /\ DOMAIN ips' \subseteq NumberedNets
      BY <1>2 DEF KVModelNets
    <2>4. DOMAIN ips' \subseteq {interfaces'[i] : i \in 1 .. Len(interfaces')}
      <3>1. DOMAIN ips \subseteq {interfaces[i] : i \in 1 .. len}
        BY <1>1, <1>2 DEF KVModelNets
      <3>2. \A i \in 1 .. len : i \in 1 .. len + 1 /\ interfaces'[i] = interfaces[i]
        BY <1>1, <1>4
      <3>3. len + 1 \in 1 .. len + 1
        BY <1>1
      <3> QED BY <1>4, <3>1, <3>2, <3>3
    <2> QED BY <1>4, <1>5, <2>1, <2>2, <2>3, <2>4 DEF KVModelNets
  <1>11. KVModel!ConnectedAsAsked'
    <2>1. ASSUME NEW i \in 1 .. Len(interfaces'), NEW j \in 1 .. Len(interfaces'), i # j
          PROVE  interfaces'[i] # interfaces'[j]
      BY <1>1, <1>2, <1>4, <1>7, <1>9, <2>1 DEF KVModel!ConnectedAsAsked
    <2>2. ASSUME NEW i \in 1 .. len
          PROVE  /\ networks'[i].name = interfaces'[i]
                 /\ KVModel!LeadsTo(i)' = KVModel!LeadsTo(i)
      <3>1. networks'[i] = networks[i] /\ interfaces'[i] = interfaces[i]
        BY <1>4, <1>5, <2>2
      <3>2. networks[i].name = interfaces[i]
        BY <1>0, <1>1, <1>2, <2>2 DEF KVModel!ConnectedAsAsked
      <3>3. networks[i].to \in DOMAIN attachments' <=> networks[i].to \in DOMAIN attachments
        <4> SUFFICES ASSUME networks[i].to = to, to \in NetsOfMachines PROVE FALSE
          OBVIOUS
        <4>1. to \notin Nets \cup {None}
          BY DEF KVModel!Assumptions, NetsOfMachines, NumberedNets
        <4>2. PICK m \in MachineNames : to = <<m, n>>
          BY <4>1
        <4>3. PICK l \in MachineNames : to = <<l, interfaces[i]>>
          BY <1>1, <1>2, <2>2, <4>1 DEF KVModelNets
        <4>4. n = interfaces[i]
          BY <4>2, <4>3
        <4> QED BY <1>9, <2>2, <4>4
      <3>4. interfaces[i] \in DOMAIN ips' <=> interfaces[i] \in DOMAIN ips
        BY <1>9, <2>2
      <3> QED BY <3>1, <3>2, <3>3, <3>4 DEF KVModel!LeadsTo
    <2>3. /\ networks'[len + 1].name = interfaces'[len + 1]
          /\ KVModel!LeadsTo(len + 1)' =
                 [bridge |-> what.net, address |-> what.ip, ip |-> what.ip]
      <3>1. /\ networks'[len + 1].to = to /\ interfaces'[len + 1] = n
            /\ networks'[len + 1].name = n
        BY <1>4, <1>5, <1>6
      <3>2. KVModel!LeadsTo(len + 1)' =
                [bridge |-> IF to \in DOMAIN attachments' THEN attachments'[to].bridge ELSE to,
                 address |-> IF to \in DOMAIN attachments' THEN attachments'[to].address
                             ELSE None,
                 ip |-> IF n \in DOMAIN ips' THEN ips'[n] ELSE None]
        BY <3>1 DEF KVModel!LeadsTo
      <3> QED BY <3>1, <3>2
    <2>4. ASSUME NEW i \in 1 .. Len(asked')
          PROVE  /\ networks'[i].name = interfaces'[i]
                 /\ KVModel!LeadsTo(i)' =
                        [bridge |-> asked'[i].net, address |-> asked'[i].ip, ip |-> asked'[i].ip]
      <3>1. CASE i \in 1 .. len
        <4>1. KVModel!LeadsTo(i) =
                  [bridge |-> asked[i].net, address |-> asked[i].ip, ip |-> asked[i].ip]
          BY <1>0, <1>1, <1>2, <3>1 DEF KVModel!ConnectedAsAsked
        <4> QED BY <1>3, <2>2, <3>1, <4>1
      <3>2. CASE i = len + 1
        BY <1>3, <2>3, <3>2
      <3> QED BY <1>3, <1>7, <3>1, <3>2
    <2>5. DOMAIN attachments' \subseteq {networks'[i].to : i \in 1 .. Len(networks')}
      <3>1. DOMAIN attachments \subseteq {networks[i].to : i \in 1 .. len}
        BY <1>1, <1>2 DEF KVModel!ConnectedAsAsked
      <3>2. \A i \in 1 .. len : i \in 1 .. len + 1 /\ networks'[i].to = networks[i].to
        BY <1>1, <1>5
      <3>3. len + 1 \in 1 .. len + 1 /\ networks'[len + 1].to = to
        BY <1>1, <1>5, <1>6
      <3> QED BY <1>5, <3>1, <3>2, <3>3
    <2> QED BY <2>1, <2>4, <2>5 DEF KVModel!ConnectedAsAsked
  <1> QED BY <1>8, <1>10, <1>11

LEMMA KVModelAddInterface ==
    ASSUME KVModel!Assumptions, KVModelIInv, NEW n \in OwnNames, KVModel!AddInterface(n)
    PROVE  KVModelIInv'
  <1> DEFINE what == [net |-> None, ip |-> None]
  <1>1. /\ KVModel!Room /\ asked' = Append(asked, what) /\ n \notin KVModel!Range(interfaces)
        /\ KVModel!Interface(n, None)
        /\ UNCHANGED <<kept, name, vdisks, volumes, ips, attachments, hooks, sidecars,
                       annotation>>
    BY DEF KVModel!AddInterface, KVModel!Asked
  <1>2. /\ KVModel!TypeOK /\ KVModelNets /\ KVModelDisks /\ KVModelHooks
    BY DEF KVModelIInv
  <1>3. /\ what \in [net : Nets \cup {None}, ip : Ips \cup {None}]
        /\ what.net = None /\ what.ip = None
    OBVIOUS
  <1> HIDE DEF what
  <1>4. /\ None \notin DOMAIN attachments /\ n \notin DOMAIN ips /\ name' \in MachineNames
    BY <1>1, <1>2 DEF KVModelNets, KVModel!Assumptions, NetsOfMachines, NumberedNets,
                      KVModel!TypeOK
  <1>5. KVModel!TypeOK' /\ KVModelNets' /\ KVModel!ConnectedAsAsked'
    BY <1>1, <1>3, <1>4, KVModelInterface
  <1>6. KVModelDisks'
    BY <1>1, <1>2 DEF KVModelDisks
  <1>7. KVModelHooks'
    BY <1>1, <1>2 DEF KVModelHooks
  <1> QED BY <1>5, <1>6, <1>7 DEF KVModelIInv

LEMMA KVModelAddNetwork ==
    ASSUME KVModel!Assumptions, KVModelIInv, NEW net_ \in Nets, NEW ip_ \in Ips \cup {None},
           KVModel!AddNetwork(net_, ip_)
    PROVE  KVModelIInv'
  <1> DEFINE what == [net |-> net_, ip |-> ip_]
             made_ == [bridge |-> net_, address |-> ip_]
  <1>0. PICK n, own : n = <<"net", Len(networks)>> /\ own = <<name, n>>
    OBVIOUS
  <1>1. /\ KVModel!Room /\ asked' = Append(asked, what)
        /\ ips' = KVModel!Set(ips, n, ip_)
        /\ attachments' = IF ip_ = None THEN attachments ELSE KVModel!Set(attachments, own, made_)
        /\ KVModel!Interface(n, IF ip_ = None THEN net_ ELSE own)
        /\ UNCHANGED <<kept, name, vdisks, volumes, hooks, sidecars, annotation>>
    BY <1>0 DEF KVModel!AddNetwork, KVModel!Asked, KVModel!Number
  <1>2. /\ KVModel!TypeOK /\ KVModelNets /\ KVModelDisks /\ KVModelHooks
        /\ KVModel!ConnectedAsAsked
    BY DEF KVModelIInv
  <1>3. /\ what \in [net : Nets \cup {None}, ip : Ips \cup {None}]
        /\ what.net = net_ /\ what.ip = ip_ /\ made_.bridge = net_ /\ made_.address = ip_
    OBVIOUS
  <1> HIDE DEF what, made_
  <1>4. /\ MaxAdded \in Nat /\ Len(networks) \in 0 .. MaxAdded /\ name \in MachineNames
        /\ Len(interfaces) = Len(networks) /\ Len(networks) = Len(asked)
    BY <1>1, <1>2, KVModelRoom DEF KVModel!TypeOK
  <1>5. n \in NumberedNets /\ own \in NetsOfMachines
    BY <1>0, <1>4 DEF NumberedNets, NetsOfMachines
  <1>6. n \notin DOMAIN ips /\ own \notin DOMAIN attachments
    <2>1. \A i \in 1 .. Len(interfaces) : interfaces[i] # n
      <3> SUFFICES ASSUME NEW i \in 1 .. Len(interfaces), interfaces[i] = n PROVE FALSE
        OBVIOUS
      <3>1. n \notin OwnNames
        BY <1>5 DEF NumberedNets, KVModel!Assumptions
      <3>2. interfaces[i] = <<"net", i - 1>>
        BY <1>2, <3>1 DEF KVModelNets
      <3>3. i - 1 = Len(networks)
        BY <1>0, <3>2
      <3> QED BY <1>4, <3>3
    <2>2. own \notin DOMAIN attachments
      <3> SUFFICES ASSUME own \in DOMAIN attachments PROVE FALSE
        OBVIOUS
      <3>1. PICK i \in 1 .. Len(networks) : networks[i].to = own
        BY <1>2 DEF KVModel!ConnectedAsAsked
      <3>2. own \notin Nets \cup {None}
        BY <1>5 DEF KVModel!Assumptions, NetsOfMachines, NumberedNets
      <3>3. PICK m \in MachineNames : own = <<m, interfaces[i]>>
        BY <1>2, <3>1, <3>2 DEF KVModelNets
      <3>4. n = interfaces[i]
        BY <1>0, <3>3
      <3> QED BY <1>4, <2>1, <3>4
    <2>3. n \notin DOMAIN ips
      BY <1>2, <2>1 DEF KVModelNets
    <2> QED BY <2>2, <2>3
  <1>7. /\ DOMAIN ips' = DOMAIN ips \cup {n} /\ ips'[n] = ip_
        /\ \A x \in DOMAIN ips : ips'[x] = ips[x]
    BY <1>1, <1>6 DEF KVModel!Set
  <1>8. KVModelDisks'
    BY <1>1, <1>2 DEF KVModelDisks
  <1>9. KVModelHooks'
    BY <1>1, <1>2 DEF KVModelHooks
  <1>10. CASE ip_ = None
    <2>1. /\ net_ \notin DOMAIN attachments /\ attachments' = attachments
          /\ KVModel!Interface(n, net_)
      BY <1>1, <1>2, <1>10 DEF KVModelNets, KVModel!Assumptions, NetsOfMachines, NumberedNets
    <2>2. KVModel!TypeOK' /\ KVModelNets' /\ KVModel!ConnectedAsAsked'
      BY <1>0, <1>1, <1>3, <1>4, <1>5, <1>6, <1>7, <1>10, <2>1, KVModelInterface
    <2> QED BY <1>8, <1>9, <2>2 DEF KVModelIInv
  <1>11. CASE ip_ # None
    <2>1. attachments' = KVModel!Set(attachments, own, made_) /\ KVModel!Interface(n, own)
      BY <1>1, <1>11
    <2>2. /\ DOMAIN attachments' = DOMAIN attachments \cup {own}
          /\ attachments'[own] = made_
          /\ \A x \in DOMAIN attachments : attachments'[x] = attachments[x]
      BY <1>6, <2>1 DEF KVModel!Set
    <2>3. \E m \in MachineNames : own = <<m, n>>
      BY <1>0, <1>4
    <2>4. KVModel!TypeOK' /\ KVModelNets' /\ KVModel!ConnectedAsAsked'
      BY <1>0, <1>1, <1>3, <1>4, <1>5, <1>6, <1>7, <2>1, <2>2, <2>3, KVModelInterface
    <2> QED BY <1>8, <1>9, <2>4 DEF KVModelIInv
  <1> QED BY <1>10, <1>11

LEMMA KVModelAddDisk ==
    ASSUME KVModel!Assumptions, KVModelIInv, NEW n \in OwnNames \cup NumberedDisks,
           NEW of \in Volumes \cup {None},
           KVModel!Kept(of), KVModel!Disk(n, of),
           n = <<"disk", Len(volumes)>> \/ (n \in OwnNames /\ n \notin KVModel!Range(vdisks))
    PROVE  KVModelIInv'
  <1> DEFINE new == [name |-> n, of |-> of]
  <1>0. PICK len : len = Len(kept)
    OBVIOUS
  <1>1. /\ KVModel!Room /\ kept' = Append(kept, of)
        /\ vdisks' = Append(vdisks, n) /\ volumes' = Append(volumes, new)
        /\ UNCHANGED <<asked, name, interfaces, networks, ips, attachments, hooks, sidecars,
                       annotation>>
    BY DEF KVModel!Kept, KVModel!Disk
  <1>2. /\ KVModel!TypeOK /\ KVModelNets /\ KVModelDisks /\ KVModelHooks
        /\ KVModel!ConnectedAsAsked
    BY DEF KVModelIInv
  <1>3. /\ MaxAdded \in Nat /\ len \in Nat /\ Len(asked) \in Nat /\ Len(sidecars) \in Nat
        /\ Len(asked) + len + Len(sidecars) + 1 <= MaxAdded
        /\ Len(interfaces) = Len(asked) /\ Len(networks) = Len(asked)
        /\ Len(vdisks) = len /\ Len(volumes) = len /\ len <= MaxAdded
    BY <1>0, <1>1, KVModelRoom
  <1>4. /\ new \in [name : OwnNames \cup NumberedDisks, of : Volumes \cup {None}]
        /\ new.name = n
    OBVIOUS
  <1> HIDE DEF new
  <1>5. /\ kept' \in Seq(Volumes \cup {None}) /\ Len(kept') = len + 1 /\ kept'[len + 1] = of
        /\ \A i \in 1 .. len : kept'[i] = kept[i]
    <2>1. kept \in Seq(Volumes \cup {None})
      BY <1>2 DEF KVModel!TypeOK
    <2> QED BY <1>0, <1>1, <2>1, AppendFacts
  <1>6. /\ vdisks' \in Seq(OwnNames \cup NumberedDisks) /\ Len(vdisks') = len + 1
        /\ vdisks'[len + 1] = n /\ \A i \in 1 .. len : vdisks'[i] = vdisks[i]
    <2>1. vdisks \in Seq(OwnNames \cup NumberedDisks)
      BY <1>2 DEF KVModelDisks
    <2>2. n \in OwnNames \cup NumberedDisks
      OBVIOUS
    <2>3. /\ Append(vdisks, n) \in Seq(OwnNames \cup NumberedDisks)
          /\ Len(Append(vdisks, n)) = Len(vdisks) + 1
          /\ \A i \in 1 .. Len(vdisks) : Append(vdisks, n)[i] = vdisks[i]
          /\ Append(vdisks, n)[Len(vdisks) + 1] = n
      BY <2>1, <2>2, AppendFacts
    <2> QED BY <1>1, <1>3, <2>3
  <1>7. /\ volumes' \in Seq([name : OwnNames \cup NumberedDisks, of : Volumes \cup {None}])
        /\ Len(volumes') = len + 1 /\ volumes'[len + 1] = new
        /\ \A i \in 1 .. len : volumes'[i] = volumes[i]
    <2>1. volumes \in Seq([name : OwnNames \cup NumberedDisks, of : Volumes \cup {None}])
      BY <1>2 DEF KVModelDisks
    <2> QED BY <1>1, <1>3, <1>4, <2>1, AppendFacts
  <1>8. \A i \in 1 .. len + 1 : i \in 1 .. len \/ i = len + 1
    BY <1>3
  <1>9. \A i \in 1 .. len : vdisks[i] # n
    <2> SUFFICES ASSUME NEW i \in 1 .. len, vdisks[i] = n PROVE FALSE
      OBVIOUS
    <2>1. vdisks[i] \in KVModel!Range(vdisks)
      <3>1. DOMAIN vdisks = 1 .. len
        BY <1>2, <1>3 DEF KVModelDisks
      <3> QED BY <3>1 DEF KVModel!Range
    <2>2. n = <<"disk", len>> /\ len \in 0 .. MaxAdded
      BY <1>3, <2>1
    <2>3. n \notin OwnNames
      BY <2>2 DEF KVModel!Assumptions
    <2>4. vdisks[i] = <<"disk", i - 1>>
      BY <1>2, <1>3, <2>3 DEF KVModelDisks
    <2>5. i - 1 = len
      BY <2>2, <2>4
    <2> QED BY <1>3, <2>5
  <1>10. KVModel!TypeOK'
    BY <1>1, <1>2, <1>3, <1>5, <1>6, <1>7 DEF KVModel!TypeOK
  <1>11. KVModelDisks'
    <2>1. \A i \in 1 .. Len(vdisks') :
              vdisks'[i] \in OwnNames \/ vdisks'[i] = <<"disk", i - 1>>
      <3>1. \A i \in 1 .. len : vdisks'[i] \in OwnNames \/ vdisks'[i] = <<"disk", i - 1>>
        BY <1>2, <1>3, <1>6 DEF KVModelDisks
      <3>2. len + 1 - 1 = len
        BY <1>3
      <3> QED BY <1>3, <1>6, <1>8, <3>1, <3>2
    <2>2. ASSUME NEW i \in 1 .. Len(vdisks'), NEW j \in 1 .. Len(vdisks'), i # j
          PROVE  vdisks'[i] # vdisks'[j]
      BY <1>2, <1>3, <1>6, <1>8, <1>9, <2>2 DEF KVModelDisks
    <2>3. ASSUME NEW i \in 1 .. Len(kept')
          PROVE  volumes'[i] = [name |-> vdisks'[i], of |-> kept'[i]]
      <3>1. CASE i \in 1 .. len
        BY <1>0, <1>2, <1>5, <1>6, <1>7, <3>1 DEF KVModelDisks
      <3>2. CASE i = len + 1
        BY <1>5, <1>6, <1>7, <3>2 DEF new
      <3> QED BY <1>5, <1>8, <3>1, <3>2
    <2> QED BY <1>6, <1>7, <2>1, <2>2, <2>3 DEF KVModelDisks
  <1>12. KVModelNets' /\ KVModelHooks'
    <2>1. KVModelNets'
      BY <1>1, <1>2 DEF KVModelNets
    <2>2. KVModelHooks'
      BY <1>1, <1>2 DEF KVModelHooks
    <2> QED BY <2>1, <2>2
  <1>13. KVModel!ConnectedAsAsked'
    BY <1>1, <1>2 DEF KVModel!ConnectedAsAsked, KVModel!LeadsTo
  <1> QED BY <1>10, <1>11, <1>12, <1>13 DEF KVModelIInv

LEMMA KVModelAddHook ==
    ASSUME KVModel!Assumptions, KVModelIInv, KVModel!AddHook
    PROVE  KVModelIInv'
  <1>0. PICK len, n : len = Len(sidecars) /\ n = <<name, <<"hook", len>>>>
    OBVIOUS
  <1>2. /\ KVModel!TypeOK /\ KVModelNets /\ KVModelDisks /\ KVModelHooks
        /\ KVModel!ConnectedAsAsked
    BY DEF KVModelIInv
  <1>1. /\ KVModel!Room /\ hooks' = KVModel!Set(hooks, n, len + 1)
        /\ sidecars' = Append(sidecars, n) /\ annotation' = sidecars'
        /\ UNCHANGED <<asked, kept, name, interfaces, networks, ips, attachments, vdisks,
                       volumes>>
    <2>1. KVModel!Cardinality(DOMAIN hooks) = len
      BY <1>0, <1>2 DEF KVModelHooks
    <2> QED BY <1>0, <2>1 DEF KVModel!AddHook
  <1>3. /\ MaxAdded \in Nat /\ len \in Nat /\ Len(asked) \in Nat /\ Len(kept) \in Nat
        /\ Len(asked) + Len(kept) + len + 1 <= MaxAdded /\ len \in 0 .. MaxAdded
        /\ name \in MachineNames
    BY <1>0, <1>1, <1>2, KVModelRoom DEF KVModel!TypeOK
  <1>4. /\ sidecars' \in Seq(NumberedHooks) /\ Len(sidecars') = len + 1
        /\ sidecars'[len + 1] = n /\ \A i \in 1 .. len : sidecars'[i] = sidecars[i]
    <2>1. n \in NumberedHooks /\ sidecars \in Seq(NumberedHooks)
      BY <1>0, <1>2, <1>3 DEF NumberedHooks, KVModelHooks
    <2> QED BY <1>0, <1>1, <2>1, AppendFacts
  <1>5. \A i \in 1 .. len + 1 : i \in 1 .. len \/ i = len + 1
    BY <1>3
  <1>6. \A i \in 1 .. len : sidecars[i] # n
    <2> SUFFICES ASSUME NEW i \in 1 .. len, sidecars[i] = n PROVE FALSE
      OBVIOUS
    <2>1. PICK m \in MachineNames : sidecars[i] = <<m, <<"hook", i - 1>>>>
      BY <1>0, <1>2 DEF KVModelHooks
    <2>2. <<"hook", i - 1>> = <<"hook", len>>
      BY <1>0, <2>1
    <2>3. i - 1 = len
      BY <2>2
    <2> QED BY <1>3, <2>3
  <1>7. n \notin DOMAIN hooks
    BY <1>0, <1>2, <1>6 DEF KVModelHooks
  <1>8. /\ DOMAIN hooks' = DOMAIN hooks \cup {n} /\ hooks'[n] = len + 1
        /\ \A x \in DOMAIN hooks : hooks'[x] = hooks[x]
    BY <1>1, <1>7 DEF KVModel!Set
  <1>9. KVModelHooks'
    <2>1. \A i \in 1 .. Len(sidecars') :
              \E m \in MachineNames : sidecars'[i] = <<m, <<"hook", i - 1>>>>
      <3>1. \A i \in 1 .. len : \E m \in MachineNames : sidecars'[i] = <<m, <<"hook", i - 1>>>>
        BY <1>0, <1>2, <1>4 DEF KVModelHooks
      <3>2. len + 1 - 1 = len
        BY <1>3
      <3> QED BY <1>0, <1>3, <1>4, <1>5, <3>1, <3>2
    <2>2. DOMAIN hooks' = {sidecars'[i] : i \in 1 .. Len(sidecars')}
      <3>1. DOMAIN hooks = {sidecars[i] : i \in 1 .. len}
        BY <1>0, <1>2 DEF KVModelHooks
      <3>2. \A i \in 1 .. len : i \in 1 .. len + 1 /\ sidecars'[i] = sidecars[i]
        BY <1>3, <1>4
      <3>3. len + 1 \in 1 .. len + 1
        BY <1>3
      <3>4. \A x : x \in DOMAIN hooks \cup {n} => \E i \in 1 .. len + 1 : x = sidecars'[i]
        BY <1>4, <3>1, <3>2, <3>3
      <3>5. \A i \in 1 .. len + 1 : sidecars'[i] \in DOMAIN hooks \cup {n}
        BY <1>4, <1>5, <3>1
      <3> QED BY <1>4, <1>8, <3>4, <3>5
    <2>3. /\ IsFiniteSet(DOMAIN hooks')
          /\ KVModel!Cardinality(DOMAIN hooks') = Len(sidecars')
      <3> DEFINE S == DOMAIN hooks
      <3>1. IsFiniteSet(S) /\ KVModel!Cardinality(S) = len /\ n \notin S
        BY <1>0, <1>2, <1>7 DEF KVModelHooks
      <3> HIDE DEF S
      <3>2. IsFiniteSet(S \cup {n}) /\ KVModel!Cardinality(S \cup {n}) = len + 1
        BY <3>1, KVModelCounts
      <3> QED BY <1>4, <1>8, <3>2 DEF S
    <2>4. \A i \in 1 .. Len(sidecars') : hooks'[sidecars'[i]] = i
      <3>1. \A i \in 1 .. len : sidecars[i] \in DOMAIN hooks /\ hooks[sidecars[i]] = i
        BY <1>0, <1>2 DEF KVModelHooks
      <3> QED BY <1>4, <1>5, <1>8, <3>1
    <2> QED BY <1>1, <1>4, <2>1, <2>2, <2>3, <2>4 DEF KVModelHooks
  <1>10. KVModel!TypeOK'
    BY <1>1, <1>2, <1>3, <1>4 DEF KVModel!TypeOK
  <1>11. KVModelNets' /\ KVModelDisks'
    BY <1>1, <1>2 DEF KVModelNets, KVModelDisks
  <1>12. KVModel!ConnectedAsAsked'
    BY <1>1, <1>2 DEF KVModel!ConnectedAsAsked, KVModel!LeadsTo
  <1> QED BY <1>9, <1>10, <1>11, <1>12 DEF KVModelIInv

LEMMA KVModelNext ==
    ASSUME KVModel!Assumptions, KVModelIInv, [KVModel!Next]_kvmodel
    PROVE  KVModelIInv'
  <1>1. CASE UNCHANGED kvmodel \/ KVModel!Rename
    <2>1. /\ name' \in MachineNames \/ name' = name
          /\ UNCHANGED <<interfaces, networks, vdisks, volumes, ips, attachments, hooks,
                         sidecars, annotation, asked, kept>>
      BY <1>1 DEF kvmodel, KVModel!Rename
    <2>2. KVModel!TypeOK'
      BY <2>1 DEF KVModelIInv, KVModel!TypeOK
    <2>3. KVModelNets' /\ KVModelDisks' /\ KVModelHooks'
      <3>1. KVModelNets /\ KVModelDisks /\ KVModelHooks
        BY DEF KVModelIInv
      <3>2. KVModelNets'
        BY <2>1, <3>1 DEF KVModelNets
      <3>3. KVModelDisks'
        BY <2>1, <3>1 DEF KVModelDisks
      <3>4. KVModelHooks'
        BY <2>1, <3>1 DEF KVModelHooks
      <3> QED BY <3>2, <3>3, <3>4
    <2>4. KVModel!ConnectedAsAsked'
      BY <2>1 DEF KVModelIInv, KVModel!ConnectedAsAsked, KVModel!LeadsTo
    <2> QED BY <2>2, <2>3, <2>4 DEF KVModelIInv
  <1>2. ASSUME NEW n \in OwnNames, KVModel!AddDisk(n)
        PROVE  KVModelIInv'
    BY <1>2, KVModelAddDisk DEF KVModel!AddDisk
  <1>3. ASSUME NEW v \in Volumes, KVModel!AddVolume(v)
        PROVE  KVModelIInv'
    <2>1. KVModel!Kept(v) /\ KVModel!Disk(<<"disk", Len(volumes)>>, v)
      BY <1>3 DEF KVModel!AddVolume
    <2>2. Len(volumes) \in 0 .. MaxAdded
      BY <2>1, KVModelRoom DEF KVModel!Kept
    <2>3. <<"disk", Len(volumes)>> \in NumberedDisks
      BY <2>2 DEF NumberedDisks
    <2> QED BY <2>1, <2>3, KVModelAddDisk
  <1> QED BY <1>1, <1>2, <1>3, KVModelAddInterface, KVModelAddNetwork, KVModelAddHook
      DEF KVModel!Next

LEMMA KVModelKeeps ==
    ASSUME KVModelIInv
    PROVE  KVModel!TypeOK /\ KVModel!ConnectedAsAsked /\ KVModel!DisksAndHooksAsAsked
  <1>1. KVModel!Range(sidecars) = DOMAIN hooks
    <2>1. DOMAIN sidecars = 1 .. Len(sidecars)
      <3>1. sidecars \in Seq(NumberedHooks)
        BY DEF KVModelIInv, KVModelHooks
      <3> QED BY <3>1
    <2> QED BY <2>1 DEF KVModel!Range, KVModelIInv, KVModelHooks
  <1>2. \A i, j \in 1 .. Len(sidecars) : i < j => hooks[sidecars[i]] < hooks[sidecars[j]]
    BY DEF KVModelIInv, KVModelHooks
  <1> QED BY <1>1, <1>2 DEF KVModelIInv, KVModelDisks, KVModelHooks,
                            KVModel!DisksAndHooksAsAsked

\* The machines' models (libvirt/machine_model.py, kubevirt/machine_model.py): however many
\* devices are added, disks have different names, in order, and slots one device; the
\* KubeVirt one's interfaces are connected, its disks and hooks kept as they were asked for,
\* since no name with a number is given twice.
THEOREM DevicesStayApart == Spec => []DevicesDiffer
  <1> DEFINE IInv == /\ part = "devices" => DevicesIInv
                     /\ part = "kvmodel" => KVModelIInv
  <1>1. Init => IInv
    BY PartsAssumption, DevicesInit, KVModelInit DEF Init
  <1>2. IInv /\ [Next]_vars => IInv'
    BY PartsAssumption, PartStays, DevicesSteps, DevicesNext, KVModelSteps, KVModelNext
  <1>3. IInv => DevicesDiffer
    BY PartsAssumption, DevicesNamesInOrder, KVModelKeeps DEF DevicesDiffer, DevicesIInv
  <1> QED BY <1>1, <1>2, <1>3, PTL DEF Spec


-----------------------------------------------------------------------------
(* SnapshotGroup                                                           *)

GroupAt(how) == commands # <<>> /\ method = how

GroupCommands == {"create", "revert", "delete"} \X Group!Machine

GroupPlan ==
    CASE method = "create" -> Group!Each("create")
      [] method = "destroy" -> Group!Reversed
      [] OTHER -> Group!Each("revert")

\* How many of the method's commands are done, and which machines they were for.
GroupDone == Len(GroupPlan) - Len(commands)
GroupBack(m) == IF method = "destroy" THEN 2 * (Size - m) < GroupDone ELSE m <= GroupDone
GroupGone(m) == method = "destroy" /\ 2 * (Size - m) + 1 < GroupDone

\* A method is called when it may be, and its commands are the last ones of its plan.
GroupUnderWay ==
    commands # <<>> =>
        /\ method = "create" => depth < MaxDepth
        /\ method \in {"destroy", "revert"} => depth > 0
        /\ method = "revert" => talk # "upwards"
        /\ method # "none" /\ Len(commands) <= Len(GroupPlan)
        /\ \A k \in 1 .. Len(commands) : commands[k] = GroupPlan[GroupDone + k]

\* Groups that exist have their snapshots, and those that don't have none.
GroupWhole ==
    /\ \A l \in 1 .. depth, m \in Group!Machine :
           taken[l][m] # None \/ (GroupAt("destroy") /\ l = depth /\ GroupGone(m))
    /\ GroupAt("create") =>
           \A m \in Group!Machine : GroupBack(m) => taken[depth + 1][m] # None
    /\ GroupAt("destroy") =>
           \A m \in Group!Machine : GroupGone(m) => taken[depth][m] = None
    /\ failed = 0 =>
           \A l \in Group!Level, m \in Group!Machine :
               l > depth /\ ~(GroupAt("create") /\ l = depth + 1 /\ GroupBack(m)) =>
                   taken[l][m] = None

GroupFits(s) == \A n, m \in Group!Machine : s[n].heard[m] <= s[m].said

\* Machines that are quiet during methods: snapshots are of when create() was called, and
\* those that were reverted are there again.
GroupQuiet ==
    talk = "none" =>
        /\ \A l \in 1 .. depth :
               /\ began[l] \in [Group!Machine -> Group!State]
               /\ \A m \in Group!Machine : taken[l][m] # None => taken[l][m] = began[l][m]
               /\ failed = 0 => GroupFits(began[l])
        /\ GroupAt("create") =>
               /\ began[depth + 1] = state
               /\ \A m \in Group!Machine : GroupBack(m) => taken[depth + 1][m] = state[m]
        /\ GroupAt("destroy") \/ GroupAt("revert") =>
               \A m \in Group!Machine : GroupBack(m) => state[m] = began[depth][m]
        /\ failed = 0 /\ ~GroupAt("destroy") /\ ~GroupAt("revert") => GroupFits(state)

\* No machine heard of one before it, or of itself.
GroupUp ==
    talk = "upwards" =>
        \A n, m \in Group!Machine :
            n >= m => /\ state[n].heard[m] = 0
                      /\ \A l \in Group!Level : taken[l][n] # None => taken[l][n].heard[m] = 0

\* Those it may hear of are saved after it and reverted before it: what it heard of them,
\* when it was saved, they had said when they were saved, or have said now.
GroupUpFits ==
    talk = "upwards" /\ failed = 0 =>
        \A n, m \in Group!Machine : n < m =>
            /\ \A l \in 1 .. depth :
                   taken[l][n] # None /\ taken[l][m] # None =>
                       taken[l][n].heard[m] <= taken[l][m].said
            /\ ~GroupAt("destroy") \/ (GroupBack(n) <=> GroupBack(m)) =>
                   state[n].heard[m] <= state[m].said
            /\ GroupAt("destroy") /\ ~GroupBack(n) /\ GroupBack(m) =>
                   taken[depth][n].heard[m] <= state[m].said
            /\ GroupAt("create") /\ GroupBack(n) =>
                   taken[depth + 1][n].heard[m] <=
                       IF GroupBack(m) THEN taken[depth + 1][m].said ELSE state[m].said

GroupIInv ==
    /\ Group!TypeOK /\ GroupUnderWay /\ GroupWhole /\ GroupQuiet /\ GroupUp /\ GroupUpFits

LEMMA GroupSteps ==
    ASSUME [Next]_vars, part = "group"
    PROVE  [Group!Next]_group
  BY DEF vars, Next, Only, SessionStep, DefaultStep, TransferStep, GroupStep, BootStep,
         KVNetStep, DevicesStep, KVModelStep, NetStep

LEMMA GroupInit ==
    ASSUME Group!Assumptions, Group!Init
    PROVE  GroupIInv
  <1>1. Group!Fresh \in Group!State
    BY DEF Group!Fresh, Group!State, Group!Assumptions
  <1>2. /\ state \in [Group!Machine -> Group!State]
        /\ \A n, m \in Group!Machine : state[n].said = 0 /\ state[n].heard[m] = 0
    BY <1>1 DEF Group!Init, Group!Fresh
  <1>3. /\ commands = <<>> /\ depth = 0 /\ failed = 0 /\ method = "none"
        /\ talk \in {"none", "upwards"}
        /\ taken \in [Group!Level -> [Group!Machine -> {None}]]
        /\ \A l \in Group!Level, m \in Group!Machine : taken[l][m] = None
        /\ began \in [Group!Level -> {None}]
    BY DEF Group!Init
  <1>4. <<>> \in Seq(GroupCommands)
    OBVIOUS
  <1>5. Group!TypeOK
    BY <1>2, <1>3, <1>4 DEF Group!TypeOK, Group!Assumptions, GroupCommands
  <1>6. GroupUnderWay /\ GroupWhole
    BY <1>3 DEF GroupUnderWay, GroupWhole, GroupAt
  <1>7. GroupQuiet /\ GroupUp /\ GroupUpFits
    BY <1>2, <1>3 DEF GroupQuiet, GroupUp, GroupUpFits, GroupFits, GroupAt
  <1> QED BY <1>5, <1>6, <1>7 DEF GroupIInv

\* The commands of each method.
LEMMA GroupPlans ==
    ASSUME Group!Assumptions
    PROVE  /\ \A c \in {"create", "revert"} :
                  /\ Len(Group!Each(c)) = Size
                  /\ Group!Each(c) \in Seq(GroupCommands)
                  /\ \A k \in 1 .. Size : Group!Each(c)[k] = <<c, k>>
           /\ Len(Group!Reversed) = 2 * Size
           /\ Group!Reversed \in Seq(GroupCommands)
           /\ \A k \in 1 .. 2 * Size :
                  Group!Reversed[k] = <<IF k % 2 = 1 THEN "revert" ELSE "delete",
                                        Size - (k - 1) \div 2>>
  <1>1. Size \in Nat /\ 2 * Size \in Nat
    BY DEF Group!Assumptions
  <1>2. ASSUME NEW c \in {"create", "revert"}
        PROVE  /\ Len(Group!Each(c)) = Size /\ Group!Each(c) \in Seq(GroupCommands)
               /\ \A k \in 1 .. Size : Group!Each(c)[k] = <<c, k>>
    BY <1>1 DEF Group!Each, Group!Machine, GroupCommands
  <1>3. \A k \in 1 .. 2 * Size : Size - (k - 1) \div 2 \in Group!Machine
    BY <1>1 DEF Group!Machine
  <1>4. Len(Group!Reversed) = 2 * Size
    BY <1>1 DEF Group!Reversed
  <1>5. Group!Reversed \in [1 .. 2 * Size -> GroupCommands]
    BY <1>3 DEF Group!Reversed, GroupCommands
  <1>6. Group!Reversed \in Seq(GroupCommands)
    BY <1>1, <1>5
  <1>7. \A k \in 1 .. 2 * Size :
            Group!Reversed[k] = <<IF k % 2 = 1 THEN "revert" ELSE "delete",
                                  Size - (k - 1) \div 2>>
    BY DEF Group!Reversed
  <1> QED BY <1>2, <1>4, <1>6, <1>7

\* What the first of the commands that are left is.
LEMMA GroupAhead ==
    ASSUME Group!Assumptions, Group!TypeOK, GroupUnderWay, commands # <<>>
    PROVE  /\ method \in {"create", "destroy", "revert"}
           /\ Len(GroupPlan) = IF method = "destroy" THEN 2 * Size ELSE Size
           /\ GroupDone \in 0 .. Len(GroupPlan) - 1
           /\ GroupPlan \in Seq(GroupCommands)
           /\ Head(commands) = GroupPlan[GroupDone + 1]
           /\ Tail(commands) = <<>> <=> GroupDone + 1 = Len(GroupPlan)
           /\ Len(Tail(commands)) = Len(GroupPlan) - (GroupDone + 1)
           /\ \A k \in 1 .. Len(Tail(commands)) :
                  Tail(commands)[k] = GroupPlan[GroupDone + 1 + k]
  <1>1. method \in {"create", "destroy", "revert"}
    BY DEF Group!TypeOK, GroupUnderWay
  <1>2. /\ Len(GroupPlan) = IF method = "destroy" THEN 2 * Size ELSE Size
        /\ GroupPlan \in Seq(GroupCommands)
    BY <1>1, GroupPlans DEF GroupPlan
  <1>3. /\ commands \in Seq(GroupCommands) /\ Len(commands) \in Nat \ {0} /\ Head(commands) = commands[1]
        /\ Len(Tail(commands)) = Len(commands) - 1 /\ Tail(commands) \in Seq(GroupCommands)
        /\ \A k \in 1 .. Len(Tail(commands)) : Tail(commands)[k] = commands[k + 1]
    <2>1. commands \in Seq(GroupCommands)
      BY DEF Group!TypeOK, GroupCommands
    <2> QED BY <2>1, EmptySeq, HeadTailProperties
  <1>4. /\ Len(commands) <= Len(GroupPlan)
        /\ \A k \in 1 .. Len(commands) : commands[k] = GroupPlan[GroupDone + k]
    BY DEF GroupUnderWay
  <1>5. Len(GroupPlan) \in Nat
    BY <1>2, LenProperties
  <1>6. GroupDone = Len(GroupPlan) - Len(commands) /\ GroupDone \in 0 .. Len(GroupPlan) - 1
    BY <1>3, <1>4, <1>5 DEF GroupDone
  <1>7. Head(commands) = GroupPlan[GroupDone + 1]
    BY <1>3, <1>4
  <1>8. Tail(commands) = <<>> <=> Len(Tail(commands)) = 0
    BY <1>3, EmptySeq
  <1>9. Len(Tail(commands)) = Len(GroupPlan) - (GroupDone + 1)
    BY <1>3, <1>5, <1>6
  <1>10. \A k \in 1 .. Len(Tail(commands)) :
             Tail(commands)[k] = GroupPlan[GroupDone + 1 + k]
    <2> TAKE k \in 1 .. Len(Tail(commands))
    <2>1. Tail(commands)[k] = commands[k + 1] /\ k + 1 \in 1 .. Len(commands)
      BY <1>3
    <2>2. GroupDone + (k + 1) = GroupDone + 1 + k
      BY <1>6
    <2> QED BY <1>4, <2>1, <2>2
  <1>11. Tail(commands) = <<>> <=> GroupDone + 1 = Len(GroupPlan)
    BY <1>5, <1>6, <1>8, <1>9
  <1> QED BY <1>1, <1>2, <1>6, <1>7, <1>9, <1>10, <1>11

\* Each command is for a machine that comes next in its order.
LEMMA GroupCommandIs ==
    ASSUME Group!Assumptions, Group!TypeOK, GroupUnderWay, Group!Command
    PROVE  /\ commands # <<>> /\ commands' = Tail(commands) /\ method' = method
           /\ commands' \in Seq(GroupCommands)
           /\ GroupUnderWay'
           /\ \E m \in Group!Machine :
                  \/ /\ method \in {"create", "revert"} /\ Head(commands) = <<method, m>>
                     /\ \A x \in Group!Machine : GroupBack(x) <=> x < m
                     /\ \A x \in Group!Machine : GroupBack(x)' <=> x <= m
                     /\ commands' = <<>> => \A x \in Group!Machine : x <= m
                  \/ /\ method = "destroy" /\ Head(commands) = <<"revert", m>>
                     /\ \A x \in Group!Machine : /\ GroupBack(x) <=> x > m
                                                 /\ GroupGone(x) <=> x > m
                     /\ \A x \in Group!Machine : /\ GroupBack(x)' <=> x >= m
                                                 /\ GroupGone(x)' <=> x > m
                     /\ commands' # <<>>
                  \/ /\ method = "destroy" /\ Head(commands) = <<"delete", m>>
                     /\ \A x \in Group!Machine : /\ GroupBack(x) <=> x >= m
                                                 /\ GroupGone(x) <=> x > m
                     /\ \A x \in Group!Machine : /\ GroupBack(x)' <=> x >= m
                                                 /\ GroupGone(x)' <=> x >= m
                     /\ commands' = <<>> => \A x \in Group!Machine : x >= m
  <1>1. /\ commands # <<>> /\ commands' = Tail(commands) /\ method' = method /\ talk' = talk
        /\ commands' # <<>> => depth' = depth
    BY DEF Group!Command, Group!Idle
  <1>2. PICK q, len : q = GroupDone /\ len = Len(GroupPlan)
    OBVIOUS
  <1>3. /\ method \in {"create", "destroy", "revert"}
        /\ len = (IF method = "destroy" THEN 2 * Size ELSE Size)
        /\ q \in 0 .. len - 1 /\ Size \in Nat
        /\ Head(commands) = GroupPlan[q + 1]
        /\ commands' = <<>> <=> q + 1 = len
        /\ Len(commands') = len - (q + 1)
        /\ \A k \in 1 .. Len(commands') : commands'[k] = GroupPlan[q + 1 + k]
    BY <1>1, <1>2, GroupAhead DEF Group!Assumptions
  <1>4. GroupPlan' = GroupPlan
    BY <1>1 DEF GroupPlan, Group!Each, Group!Reversed, Group!Machine
  <1>5. GroupDone' = q + 1
    <2>1. len \in Nat /\ q \in Nat
      BY <1>3
    <2>2. GroupDone' = len - (len - (q + 1))
      BY <1>2, <1>3, <1>4 DEF GroupDone
    <2> QED BY <2>1, <2>2
  <1>6. GroupUnderWay'
    <2>1. commands' # <<>> => commands # <<>> /\ depth' = depth /\ talk' = talk
      BY <1>1
    <2>2. Len(commands') <= Len(GroupPlan')
      <3>1. len \in Nat /\ q \in Nat
        BY <1>3
      <3>2. len - (q + 1) <= len
        BY <3>1
      <3> QED BY <1>2, <1>3, <1>4, <3>2
    <2>3. \A k \in 1 .. Len(commands') : commands'[k] = GroupPlan'[GroupDone' + k]
      BY <1>3, <1>4, <1>5
    <2> QED BY <1>1, <2>1, <2>2, <2>3 DEF GroupUnderWay
  <1>7. commands' \in Seq(GroupCommands)
    <2>1. commands \in Seq(GroupCommands)
      BY DEF Group!TypeOK, GroupCommands
    <2> QED BY <1>1, <2>1, HeadTailProperties
  <1>8. CASE method \in {"create", "revert"}
    <2>1. q + 1 \in Group!Machine /\ GroupPlan[q + 1] = <<method, q + 1>>
      <3>1. GroupPlan = Group!Each(method)
        BY <1>8 DEF GroupPlan
      <3>2. q + 1 \in 1 .. Size
        BY <1>3, <1>8
      <3> QED BY <1>8, <3>1, <3>2, GroupPlans DEF Group!Machine
    <2>2. \A x \in Group!Machine : /\ GroupBack(x) <=> x < q + 1
                                   /\ GroupBack(x)' <=> x <= q + 1
      BY <1>1, <1>2, <1>3, <1>5, <1>8 DEF GroupBack, Group!Machine
    <2>3. commands' = <<>> => \A x \in Group!Machine : x <= q + 1
      BY <1>3, <1>8 DEF Group!Machine
    <2> QED BY <1>1, <1>3, <1>6, <1>7, <1>8, <2>1, <2>2, <2>3
  <1>9. CASE method = "destroy"
    <2> DEFINE m == Size - q \div 2
    <2>1. /\ m \in Group!Machine
          /\ GroupPlan[q + 1] = <<IF (q + 1) % 2 = 1 THEN "revert" ELSE "delete", m>>
      <3>1. q + 1 \in 1 .. 2 * Size /\ q \in Nat
        BY <1>3, <1>9
      <3>2. m \in Group!Machine
        BY <1>3, <1>9 DEF Group!Machine
      <3>3. GroupPlan = Group!Reversed
        BY <1>9 DEF GroupPlan
      <3>4. \A k \in 1 .. 2 * Size :
                k = q + 1 =>
                    Group!Reversed[k] = <<IF k % 2 = 1 THEN "revert" ELSE "delete", m>>
        <4> SUFFICES ASSUME NEW k \in 1 .. 2 * Size, k = q + 1
                     PROVE  Group!Reversed[k] =
                                <<IF k % 2 = 1 THEN "revert" ELSE "delete", m>>
          OBVIOUS
        <4>1. Group!Reversed[k] =
                  <<IF k % 2 = 1 THEN "revert" ELSE "delete", Size - (k - 1) \div 2>>
          BY GroupPlans
        <4>2. k - 1 = q
          BY <3>1
        <4> QED BY <4>1, <4>2
      <3> QED BY <3>1, <3>2, <3>3, <3>4
    <2>2. \A x \in Group!Machine : /\ GroupBack(x) <=> 2 * (Size - x) < q
                                   /\ GroupGone(x) <=> 2 * (Size - x) + 1 < q
                                   /\ GroupBack(x)' <=> 2 * (Size - x) < q + 1
                                   /\ GroupGone(x)' <=> 2 * (Size - x) + 1 < q + 1
      BY <1>1, <1>2, <1>5, <1>9 DEF GroupBack, GroupGone
    <2>3. CASE (q + 1) % 2 = 1
      <3>0. q \in 0 .. 2 * Size - 1 /\ Size \in Nat
        BY <1>3, <1>9
      <3>1. q = 2 * (Size - m) /\ m \in Nat /\ q + 1 # 2 * Size
        BY <2>3, <3>0
      <3>2. Group!Machine \subseteq Nat
        BY DEF Group!Machine
      <3> HIDE DEF m
      <3>3. \A x \in Group!Machine : /\ GroupBack(x) <=> x > m
                                     /\ GroupGone(x) <=> x > m
                                     /\ GroupBack(x)' <=> x >= m
                                     /\ GroupGone(x)' <=> x > m
        BY <1>3, <2>2, <3>1, <3>2
      <3> QED BY <1>1, <1>3, <1>6, <1>7, <1>9, <2>1, <2>3, <3>1, <3>3
    <2>4. CASE (q + 1) % 2 # 1
      <3>0. q \in 0 .. 2 * Size - 1 /\ Size \in Nat
        BY <1>3, <1>9
      <3>1. q = 2 * (Size - m) + 1 /\ m \in Nat
        BY <2>4, <3>0
      <3>2. Group!Machine \subseteq Nat /\ \A x \in Group!Machine : x >= 1
        BY DEF Group!Machine
      <3> HIDE DEF m
      <3>3. \A x \in Group!Machine : /\ GroupBack(x) <=> x >= m
                                     /\ GroupGone(x) <=> x > m
                                     /\ GroupBack(x)' <=> x >= m
                                     /\ GroupGone(x)' <=> x >= m
        BY <1>3, <2>2, <3>1, <3>2
      <3>4. commands' = <<>> => \A x \in Group!Machine : x >= m
        BY <1>3, <1>9, <3>1, <3>2
      <3> QED BY <1>1, <1>3, <1>6, <1>7, <1>9, <2>1, <2>4, <3>3, <3>4
    <2> QED BY <2>3, <2>4
  <1> QED BY <1>3, <1>8, <1>9

\* What a machine's state becomes.
LEMMA GroupState ==
    ASSUME NEW s \in Group!State, NEW v \in 0 .. MaxSaid
    PROVE  /\ s.said \in 0 .. MaxSaid /\ s.heard \in [Group!Machine -> 0 .. MaxSaid]
           /\ [s EXCEPT !.said = v] \in Group!State
           /\ [s EXCEPT !.said = v].said = v /\ [s EXCEPT !.said = v].heard = s.heard
           /\ [s EXCEPT !.on = ~@] \in Group!State
           /\ [s EXCEPT !.on = ~@].said = s.said /\ [s EXCEPT !.on = ~@].heard = s.heard
  BY DEF Group!State

\* What machines send and get: they have said no less, and what they heard anew was said.
LEMMA GroupTalks ==
    ASSUME Group!Assumptions, Group!TypeOK, state' # state,
           \/ \E m \in Group!Machine : Group!Say(m) \/ Group!Power(m)
           \/ \E n, m \in Group!Machine : n # m /\ Group!Hear(n, m)
    PROVE  /\ UNCHANGED <<talk, taken, began, depth, method, commands, failed>>
           /\ state' \in [Group!Machine -> Group!State]
           /\ talk = "none" => commands = <<>>
           /\ \A x \in Group!Machine : /\ state[x].said \in Nat /\ state'[x].said \in Nat
                                       /\ state[x].said <= state'[x].said
           /\ \A x, y \in Group!Machine :
                  /\ state[x].heard[y] \in Nat
                  /\ \/ state'[x].heard[y] = state[x].heard[y]
                     \/ /\ x # y /\ (talk = "upwards" => x < y)
                        /\ state'[x].heard[y] = state'[y].said
  <1>1. state \in [Group!Machine -> Group!State] /\ MaxSaid \in Nat
    BY DEF Group!TypeOK, Group!Assumptions
  <1>2. \A x, y \in Group!Machine : /\ state[x].said \in 0 .. MaxSaid /\ state[x].said \in Nat
                                    /\ state[x].heard[y] \in Nat
    <2> TAKE x, y \in Group!Machine
    <2>1. state[x].said \in 0 .. MaxSaid /\ state[x].heard \in [Group!Machine -> 0 .. MaxSaid]
      BY <1>1 DEF Group!State
    <2> QED BY <2>1
  <1>3. ASSUME NEW m \in Group!Machine, NEW new \in Group!State,
               state' = [state EXCEPT ![m] = new]
        PROVE  /\ state' \in [Group!Machine -> Group!State] /\ state'[m] = new
               /\ \A x \in Group!Machine : x # m => state'[x] = state[x]
    BY <1>1, <1>3
  <1>4. ASSUME NEW m \in Group!Machine, Group!Say(m)
        PROVE  /\ state' \in [Group!Machine -> Group!State]
               /\ \A x \in Group!Machine :
                      state'[x].heard = state[x].heard /\ state[x].said <= state'[x].said
    <2> DEFINE new == [state[m] EXCEPT !.said = @ + 1]
    <2>1. state' = [state EXCEPT ![m] = new] /\ state[m].said < MaxSaid
      BY <1>4 DEF Group!Say
    <2>2. state[m].said + 1 \in 0 .. MaxSaid /\ state[m] \in Group!State
      BY <1>1, <1>2, <2>1
    <2>3. new \in Group!State /\ new.said = state[m].said + 1 /\ new.heard = state[m].heard
      BY <2>2, GroupState
    <2> HIDE DEF new
    <2>4. /\ state' \in [Group!Machine -> Group!State] /\ state'[m] = new
          /\ \A x \in Group!Machine : x # m => state'[x] = state[x]
      BY <1>3, <2>1, <2>3
    <2> QED BY <1>2, <2>3, <2>4
  <1>5. ASSUME NEW m \in Group!Machine, Group!Power(m)
        PROVE  /\ state' \in [Group!Machine -> Group!State]
               /\ \A x \in Group!Machine :
                      state'[x].heard = state[x].heard /\ state[x].said <= state'[x].said
    <2> DEFINE new == [state[m] EXCEPT !.on = ~@]
    <2>1. state' = [state EXCEPT ![m] = new]
      BY <1>5 DEF Group!Power
    <2>2. new \in Group!State /\ new.said = state[m].said /\ new.heard = state[m].heard
      BY <1>1, <1>2, GroupState
    <2> HIDE DEF new
    <2>3. /\ state' \in [Group!Machine -> Group!State] /\ state'[m] = new
          /\ \A x \in Group!Machine : x # m => state'[x] = state[x]
      BY <1>3, <2>1, <2>2
    <2> QED BY <1>2, <2>2, <2>3
  <1>6. ASSUME NEW n \in Group!Machine, NEW m \in Group!Machine, n # m, Group!Hear(n, m)
        PROVE  /\ state' \in [Group!Machine -> Group!State]
               /\ \A x \in Group!Machine : state'[x].said = state[x].said
               /\ state'[n].heard[m] = state[m].said
               /\ \A x, y \in Group!Machine :
                      x # n \/ y # m => state'[x].heard[y] = state[x].heard[y]
    <2> DEFINE new == [state[n] EXCEPT !.heard[m] = state[m].said]
    <2>1. state' = [state EXCEPT ![n] = new]
      BY <1>6 DEF Group!Hear
    <2>2. /\ new \in Group!State /\ new.said = state[n].said
          /\ \A x \in Group!Machine :
                 new.heard[x] = IF x = m THEN state[m].said ELSE state[n].heard[x]
      <3>1. PICK s \in Group!State, v \in 0 .. MaxSaid : s = state[n] /\ v = state[m].said
        BY <1>1, <1>2
      <3>2. new = [s EXCEPT !.heard[m] = v]
        BY <3>1
      <3> HIDE DEF new
      <3>3. /\ new \in Group!State /\ new.said = s.said
            /\ \A x \in Group!Machine : new.heard[x] = IF x = m THEN v ELSE s.heard[x]
        BY <3>2 DEF Group!State
      <3> QED BY <3>1, <3>3
    <2> HIDE DEF new
    <2>3. /\ state' \in [Group!Machine -> Group!State] /\ state'[n] = new
          /\ \A x \in Group!Machine : x # n => state'[x] = state[x]
      BY <1>3, <2>1, <2>2
    <2> QED BY <1>2, <2>2, <2>3
  <1>7. /\ UNCHANGED <<talk, taken, began, depth, method, commands, failed>>
        /\ talk = "none" => commands = <<>>
    BY DEF Group!Say, Group!Power, Group!Hear, Group!Idle
  <1>8. CASE \E m \in Group!Machine : Group!Say(m) \/ Group!Power(m)
    <2>1. /\ state' \in [Group!Machine -> Group!State]
          /\ \A x \in Group!Machine :
                 state'[x].heard = state[x].heard /\ state[x].said <= state'[x].said
      BY <1>4, <1>5, <1>8
    <2>2. \A x \in Group!Machine : state'[x].said \in 0 .. MaxSaid
      BY <2>1 DEF Group!State
    <2> QED BY <1>2, <1>7, <2>1, <2>2
  <1>9. CASE \E n, m \in Group!Machine : n # m /\ Group!Hear(n, m)
    <2>1. PICK n, m \in Group!Machine : n # m /\ Group!Hear(n, m)
      BY <1>9
    <2>2. talk = "upwards" => n < m
      BY <2>1 DEF Group!Hear
    <2>3. /\ state' \in [Group!Machine -> Group!State]
          /\ \A x \in Group!Machine : state'[x].said = state[x].said
          /\ state'[n].heard[m] = state[m].said
          /\ \A x, y \in Group!Machine :
                 x # n \/ y # m => state'[x].heard[y] = state[x].heard[y]
      BY <1>6, <2>1
    <2> QED BY <1>2, <1>7, <2>1, <2>2, <2>3
  <1> QED BY <1>8, <1>9

\* What the snapshots are that a method made or still needs.
LEMMA GroupTaken ==
    ASSUME Group!Assumptions, Group!TypeOK, NEW l \in Group!Level, NEW n \in Group!Machine,
           taken[l][n] # None
    PROVE  /\ taken[l][n] \in Group!State /\ taken[l][n].said \in Nat
           /\ \A m \in Group!Machine : taken[l][n].heard[m] \in Nat
  <1>1. taken[l][n] \in Group!State
    BY DEF Group!TypeOK
  <1>2. /\ taken[l][n].said \in 0 .. MaxSaid /\ MaxSaid \in Nat
        /\ taken[l][n].heard \in [Group!Machine -> 0 .. MaxSaid]
    BY <1>1 DEF Group!State, Group!Assumptions
  <1> QED BY <1>1, <1>2

LEMMA GroupUnreverted ==
    ASSUME Group!Assumptions, Group!TypeOK, GroupUnderWay, GroupWhole,
           GroupAt("destroy") \/ GroupAt("revert"),
           NEW n \in Group!Machine, ~GroupGone(n)
    PROVE  /\ depth \in Group!Level /\ taken[depth][n] # None
           /\ taken[depth][n] \in Group!State /\ taken[depth][n].said \in Nat
           /\ \A m \in Group!Machine : taken[depth][n].heard[m] \in Nat
  <1>1. depth \in 1 .. depth /\ depth \in Group!Level
    BY DEF GroupAt, GroupUnderWay, Group!TypeOK, Group!Level, Group!Assumptions
  <1>2. taken[depth][n] # None
    BY <1>1 DEF GroupWhole
  <1> QED BY <1>1, <1>2, GroupTaken

LEMMA GroupSaved ==
    ASSUME Group!Assumptions, Group!TypeOK, GroupUnderWay, GroupWhole, GroupAt("create"),
           NEW n \in Group!Machine, GroupBack(n)
    PROVE  /\ depth + 1 \in Group!Level /\ taken[depth + 1][n] # None
           /\ taken[depth + 1][n] \in Group!State /\ taken[depth + 1][n].said \in Nat
           /\ \A m \in Group!Machine : taken[depth + 1][n].heard[m] \in Nat
  <1>1. depth + 1 \in Group!Level
    BY DEF GroupAt, GroupUnderWay, Group!TypeOK, Group!Level, Group!Assumptions
  <1>2. taken[depth + 1][n] # None
    BY DEF GroupWhole
  <1> QED BY <1>1, <1>2, GroupTaken

LEMMA GroupTalk ==
    ASSUME Group!Assumptions, GroupIInv, state' # state,
           \/ \E m \in Group!Machine : Group!Say(m) \/ Group!Power(m)
           \/ \E n, m \in Group!Machine : n # m /\ Group!Hear(n, m)
    PROVE  GroupIInv'
  <1>1. /\ UNCHANGED <<talk, taken, began, depth, method, commands, failed>>
        /\ state' \in [Group!Machine -> Group!State]
        /\ talk = "none" => commands = <<>>
        /\ \A x \in Group!Machine : /\ state[x].said \in Nat /\ state'[x].said \in Nat
                                    /\ state[x].said <= state'[x].said
        /\ \A x, y \in Group!Machine :
               /\ state[x].heard[y] \in Nat
               /\ \/ state'[x].heard[y] = state[x].heard[y]
                  \/ /\ x # y /\ (talk = "upwards" => x < y)
                     /\ state'[x].heard[y] = state'[y].said
    BY GroupTalks DEF GroupIInv
  <1>2. /\ Group!TypeOK /\ GroupUnderWay /\ GroupWhole /\ GroupQuiet /\ GroupUp /\ GroupUpFits
    BY DEF GroupIInv
  <1>3. Group!TypeOK' /\ GroupUnderWay'
    BY <1>1, <1>2 DEF Group!TypeOK, GroupUnderWay, GroupPlan, GroupDone
  <1>4. /\ \A how : GroupAt(how)' <=> GroupAt(how)
        /\ \A x \in Group!Machine : /\ GroupBack(x)' <=> GroupBack(x)
                                    /\ GroupGone(x)' <=> GroupGone(x)
    BY <1>1 DEF GroupAt, GroupBack, GroupGone, GroupDone, GroupPlan
  <1>5. GroupWhole'
    BY <1>1, <1>2, <1>4 DEF GroupWhole
  <1>6. GroupQuiet'
    <2>1. GroupFits(state) => GroupFits(state)'
      <3> SUFFICES ASSUME GroupFits(state), NEW x \in Group!Machine, NEW y \in Group!Machine
                   PROVE  state'[x].heard[y] <= state'[y].said
        BY DEF GroupFits
      <3>1. /\ state[y].said \in Nat /\ state'[y].said \in Nat /\ state[y].said <= state'[y].said
            /\ state[x].heard[y] \in Nat
            /\ state'[x].heard[y] = state[x].heard[y] \/ state'[x].heard[y] = state'[y].said
        BY <1>1
      <3>2. state[x].heard[y] <= state[y].said
        BY DEF GroupFits
      <3> QED BY <3>1, <3>2
    <2> QED BY <1>1, <1>2, <2>1 DEF GroupQuiet, GroupAt, GroupFits
  <1>7. GroupUp'
    <2>1. Group!Machine \subseteq Nat
      BY DEF Group!Machine
    <2> QED BY <1>1, <1>2, <2>1 DEF GroupUp
  <1>8. GroupUpFits'
    <2> SUFFICES ASSUME talk = "upwards", failed = 0, NEW n \in Group!Machine,
                        NEW m \in Group!Machine, n < m
                 PROVE  /\ \A l \in 1 .. depth :
                               taken[l][n] # None /\ taken[l][m] # None =>
                                   taken[l][n].heard[m] <= taken[l][m].said
                        /\ ~GroupAt("destroy") \/ (GroupBack(n) <=> GroupBack(m)) =>
                               state'[n].heard[m] <= state'[m].said
                        /\ GroupAt("destroy") /\ ~GroupBack(n) /\ GroupBack(m) =>
                               taken[depth][n].heard[m] <= state'[m].said
                        /\ GroupAt("create") /\ GroupBack(n) =>
                               taken[depth + 1][n].heard[m] <=
                                   IF GroupBack(m) THEN taken[depth + 1][m].said
                                                   ELSE state'[m].said
      BY <1>1, <1>4 DEF GroupUpFits
    <2>1. /\ \A l \in 1 .. depth :
                 taken[l][n] # None /\ taken[l][m] # None =>
                     taken[l][n].heard[m] <= taken[l][m].said
          /\ ~GroupAt("destroy") \/ (GroupBack(n) <=> GroupBack(m)) =>
                 state[n].heard[m] <= state[m].said
          /\ GroupAt("destroy") /\ ~GroupBack(n) /\ GroupBack(m) =>
                 taken[depth][n].heard[m] <= state[m].said
          /\ GroupAt("create") /\ GroupBack(n) =>
                 taken[depth + 1][n].heard[m] <=
                     IF GroupBack(m) THEN taken[depth + 1][m].said ELSE state[m].said
      BY <1>2 DEF GroupUpFits
    <2>2. \A a, b, c \in Nat : a <= b /\ b <= c => a <= c
      OBVIOUS
    <2>3. state[m].said \in Nat /\ state'[m].said \in Nat /\ state[m].said <= state'[m].said
      BY <1>1
    <2>4. ~GroupAt("destroy") \/ (GroupBack(n) <=> GroupBack(m)) =>
              state'[n].heard[m] <= state'[m].said
      <3>1. CASE state'[n].heard[m] = state[n].heard[m]
        BY <1>1, <2>1, <2>2, <2>3, <3>1
      <3>2. CASE state'[n].heard[m] = state'[m].said
        BY <2>3, <3>2
      <3> QED BY <1>1, <3>1, <3>2
    <2>5. GroupAt("destroy") /\ ~GroupBack(n) /\ GroupBack(m) =>
              taken[depth][n].heard[m] <= state'[m].said
      <3> SUFFICES ASSUME GroupAt("destroy"), ~GroupBack(n), GroupBack(m)
                   PROVE  taken[depth][n].heard[m] <= state'[m].said
        OBVIOUS
      <3>1. taken[depth][n].heard[m] \in Nat
        <4>1. ~GroupGone(n)
          <5>1. GroupDone \in Int /\ n \in Int /\ Size \in Int
            <6>1. Len(commands) \in Int /\ Len(GroupPlan) \in Int
              BY <1>2, GroupAhead, LenProperties DEF GroupAt, Group!TypeOK
            <6> QED BY <6>1 DEF GroupDone, Group!Assumptions, Group!Machine
          <5> QED BY <5>1 DEF GroupAt, GroupBack, GroupGone
        <4> QED BY <1>2, <4>1, GroupUnreverted
      <3> QED BY <2>1, <2>2, <2>3, <3>1
    <2>6. GroupAt("create") /\ GroupBack(n) /\ ~GroupBack(m) =>
              taken[depth + 1][n].heard[m] <= state'[m].said
      <3> SUFFICES ASSUME GroupAt("create"), GroupBack(n), ~GroupBack(m)
                   PROVE  taken[depth + 1][n].heard[m] <= state'[m].said
        OBVIOUS
      <3>1. taken[depth + 1][n].heard[m] \in Nat
        BY <1>2, GroupSaved
      <3> QED BY <2>1, <2>2, <2>3, <3>1
    <2> QED BY <2>1, <2>4, <2>5, <2>6
  <1> QED BY <1>2, <1>3, <1>5, <1>6, <1>7, <1>8 DEF GroupIInv

\* A method that was called has done nothing yet.
LEMMA GroupCalls ==
    ASSUME Group!Assumptions, GroupIInv,
           Group!Create \/ Group!Destroy \/ Group!Revert
    PROVE  /\ commands = <<>> /\ GroupUnderWay' /\ commands' \in Seq(GroupCommands)
           /\ \A x \in Group!Machine : ~GroupBack(x)' /\ ~GroupGone(x)'
           /\ UNCHANGED <<talk, state, depth, failed>>
           /\ began' \in [Group!Level -> [Group!Machine -> Group!State] \cup {None}]
           /\ taken' \in [Group!Level -> [Group!Machine -> Group!State \cup {None}]]
           /\ \A l \in 1 .. depth : began'[l] = began[l] /\ taken'[l] = taken[l]
           /\ \A l \in Group!Level, m \in Group!Machine :
                  taken'[l][m] = taken[l][m] \/ taken'[l][m] = None
           /\ method' \in {"create", "destroy", "revert"}
           /\ method' = "create" => depth + 1 \in Group!Level /\ began'[depth + 1] = state
           /\ method' # "create" => began' = began /\ taken' = taken
  <1>1. /\ commands = <<>> /\ UNCHANGED <<talk, state, depth, failed>>
        /\ method' \in {"create", "destroy", "revert"}
        /\ commands' = CASE method' = "create" -> Group!Each("create")
                         [] method' = "destroy" -> Group!Reversed
                         [] OTHER -> Group!Each("revert")
        /\ method' = "create" =>
               /\ depth < MaxDepth /\ began' = [began EXCEPT ![depth + 1] = state]
               /\ taken' = [taken EXCEPT ![depth + 1] = [m \in Group!Machine |-> None]]
        /\ method' \in {"destroy", "revert"} => depth > 0
        /\ method' = "revert" => talk # "upwards"
        /\ method' # "create" => began' = began /\ taken' = taken
    BY DEF Group!Create, Group!Destroy, Group!Revert, Group!Idle
  <1>2. commands' = GroupPlan'
    BY <1>1 DEF GroupPlan, Group!Each, Group!Reversed, Group!Machine
  <1>3. commands' \in Seq(GroupCommands) /\ Len(commands') \in Nat
    BY <1>1, GroupPlans, LenProperties
  <1>4. GroupDone' = 0
    <2>1. GroupDone' = Len(commands') - Len(commands')
      BY <1>2 DEF GroupDone
    <2> QED BY <1>3, <2>1
  <1>5. GroupUnderWay'
    <2>1. \A k \in 1 .. Len(commands') : commands'[k] = GroupPlan'[0 + k]
      BY <1>2, <1>3
    <2>2. Len(commands') <= Len(GroupPlan')
      BY <1>2, <1>3
    <2> QED BY <1>1, <1>4, <2>1, <2>2 DEF GroupUnderWay
  <1>6. \A x \in Group!Machine : ~GroupBack(x)' /\ ~GroupGone(x)'
    <2> TAKE x \in Group!Machine
    <2>1. x \in Nat /\ x >= 1 /\ x <= Size /\ Size \in Nat
      BY DEF Group!Machine, Group!Assumptions
    <2>2. ~(2 * (Size - x) < 0) /\ ~(2 * (Size - x) + 1 < 0) /\ ~(x <= 0)
      BY <2>1
    <2> QED BY <1>4, <2>2 DEF GroupBack, GroupGone
  <1>7. Group!TypeOK /\ depth \in 0 .. MaxDepth /\ MaxDepth \in Nat
    BY DEF GroupIInv, Group!TypeOK, Group!Assumptions
  <1>8. CASE method' # "create"
    <2>1. began \in [Group!Level -> [Group!Machine -> Group!State] \cup {None}]
      BY <1>7 DEF Group!TypeOK
    <2>2. taken \in [Group!Level -> [Group!Machine -> Group!State \cup {None}]]
      BY <1>7 DEF Group!TypeOK
    <2> QED BY <1>1, <1>3, <1>5, <1>6, <1>8, <2>1, <2>2
  <1>9. CASE method' = "create"
    <2>1. depth + 1 \in Group!Level /\ 1 .. depth \subseteq Group!Level
      BY <1>1, <1>7, <1>9 DEF Group!Level
    <2>2. /\ state \in [Group!Machine -> Group!State]
          /\ began \in [Group!Level -> [Group!Machine -> Group!State] \cup {None}]
          /\ taken \in [Group!Level -> [Group!Machine -> Group!State \cup {None}]]
      BY <1>7 DEF Group!TypeOK
    <2>3. /\ began' \in [Group!Level -> [Group!Machine -> Group!State] \cup {None}]
          /\ \A l \in Group!Level : began'[l] = IF l = depth + 1 THEN state ELSE began[l]
      BY <1>1, <1>9, <2>1, <2>2
    <2>4. /\ taken' \in [Group!Level -> [Group!Machine -> Group!State \cup {None}]]
          /\ \A l \in Group!Level :
                 taken'[l] = IF l = depth + 1 THEN [m \in Group!Machine |-> None] ELSE taken[l]
      <3>1. [m \in Group!Machine |-> None] \in [Group!Machine -> Group!State \cup {None}]
        OBVIOUS
      <3> QED BY <1>1, <1>9, <2>1, <2>2, <3>1
    <2>5. \A l \in 1 .. depth : l # depth + 1
      BY <1>7
    <2>6. \A l \in 1 .. depth : began'[l] = began[l] /\ taken'[l] = taken[l]
      BY <2>1, <2>3, <2>4, <2>5
    <2>7. \A l \in Group!Level, m \in Group!Machine :
              taken'[l][m] = taken[l][m] \/ taken'[l][m] = None
      BY <2>4
    <2> QED BY <1>1, <1>3, <1>5, <1>6, <1>9, <2>1, <2>3, <2>4, <2>6, <2>7
  <1> QED BY <1>8, <1>9

LEMMA GroupCall ==
    ASSUME Group!Assumptions, GroupIInv,
           Group!Create \/ Group!Destroy \/ Group!Revert
    PROVE  GroupIInv'
  <1>1. /\ commands = <<>> /\ GroupUnderWay' /\ commands' \in Seq(GroupCommands)
        /\ \A x \in Group!Machine : ~GroupBack(x)' /\ ~GroupGone(x)'
        /\ UNCHANGED <<talk, state, depth, failed>>
        /\ began' \in [Group!Level -> [Group!Machine -> Group!State] \cup {None}]
        /\ taken' \in [Group!Level -> [Group!Machine -> Group!State \cup {None}]]
        /\ \A l \in 1 .. depth : began'[l] = began[l] /\ taken'[l] = taken[l]
        /\ \A l \in Group!Level, m \in Group!Machine :
               taken'[l][m] = taken[l][m] \/ taken'[l][m] = None
        /\ method' \in {"create", "destroy", "revert"}
        /\ method' = "create" => depth + 1 \in Group!Level /\ began'[depth + 1] = state
        /\ method' # "create" => began' = began /\ taken' = taken
    BY GroupCalls
  <1>2. Group!TypeOK /\ GroupWhole /\ GroupQuiet /\ GroupUp /\ GroupUpFits
    BY DEF GroupIInv
  <1>3. \A how : ~GroupAt(how) /\ (GroupAt(how)' => method' = how)
    BY <1>1 DEF GroupAt
  <1>4. Group!TypeOK'
    BY <1>1, <1>2 DEF Group!TypeOK, GroupCommands
  <1>5. \A l \in 1 .. depth, m \in Group!Machine : taken[l][m] # None
    BY <1>2, <1>3 DEF GroupWhole
  <1>6. GroupWhole'
    <2>1. failed = 0 => \A l \in Group!Level, m \in Group!Machine :
                            l > depth => taken[l][m] = None
      BY <1>2, <1>3 DEF GroupWhole
    <2> QED BY <1>1, <1>5, <2>1 DEF GroupWhole
  <1>7. GroupQuiet'
    <2> SUFFICES ASSUME talk = "none" PROVE GroupQuiet'
      BY <1>1 DEF GroupQuiet
    <2>1. /\ \A l \in 1 .. depth :
                 /\ began[l] \in [Group!Machine -> Group!State]
                 /\ \A m \in Group!Machine : taken[l][m] # None => taken[l][m] = began[l][m]
                 /\ failed = 0 => GroupFits(began[l])
          /\ failed = 0 => GroupFits(state)
      BY <1>2, <1>3 DEF GroupQuiet
    <2>2. GroupFits(state') <=> GroupFits(state)
      BY <1>1 DEF GroupFits
    <2>3. \A l \in 1 .. depth : failed = 0 => GroupFits(began'[l])
      BY <1>1, <2>1
    <2>4. GroupAt("create")' => began'[depth + 1] = state
      BY <1>1, <1>3
    <2> QED BY <1>1, <2>1, <2>2, <2>3, <2>4 DEF GroupQuiet, GroupFits
  <1>8. GroupUp'
    BY <1>1, <1>2 DEF GroupUp
  <1>9. GroupUpFits'
    <2> SUFFICES ASSUME talk = "upwards", failed = 0, NEW n \in Group!Machine,
                        NEW m \in Group!Machine, n < m
                 PROVE  /\ \A l \in 1 .. depth :
                               taken[l][n] # None /\ taken[l][m] # None =>
                                   taken[l][n].heard[m] <= taken[l][m].said
                        /\ state[n].heard[m] <= state[m].said
      BY <1>1 DEF GroupUpFits
    <2> QED BY <1>2, <1>3 DEF GroupUpFits
  <1> QED BY <1>1, <1>4, <1>6, <1>7, <1>8, <1>9 DEF GroupIInv

\* A method that failed leaves its group, and what it says of states that fit is over.
LEMMA GroupFail ==
    ASSUME Group!Assumptions, GroupIInv, Group!Fail
    PROVE  GroupIInv'
  <1>1. /\ commands # <<>> /\ commands' = <<>> /\ failed < MaxFaults /\ failed' = failed + 1
        /\ depth' = IF method = "destroy" THEN depth - 1 ELSE depth
        /\ began' = Group!Remembered /\ UNCHANGED <<talk, state, taken, method>>
    BY DEF Group!Fail, Group!Idle
  <1>2. /\ Group!TypeOK /\ GroupUnderWay /\ GroupWhole /\ GroupQuiet /\ GroupUp
    BY DEF GroupIInv
  <1>3. /\ depth \in 0 .. MaxDepth /\ failed \in 0 .. MaxFaults /\ MaxFaults \in Nat
        /\ MaxDepth \in Nat
    BY <1>2 DEF Group!TypeOK, Group!Assumptions
  <1>4. /\ depth' \in 0 .. MaxDepth /\ depth' <= depth /\ (method = "destroy" => depth' < depth)
        /\ failed' \in 0 .. MaxFaults /\ failed' # 0
    BY <1>1, <1>2, <1>3 DEF GroupUnderWay
  <1>5. /\ began' \in [Group!Level -> [Group!Machine -> Group!State] \cup {None}]
        /\ \A l \in 1 .. depth' : began'[l] = began[l]
    <2>1. \A l \in 1 .. depth' : l \in Group!Level /\ ~(l > depth')
      BY <1>3, <1>4 DEF Group!Level
    <2>2. \A l \in Group!Level :
              began'[l] = IF l > depth' /\ commands' = <<>> THEN None ELSE began[l]
      BY <1>1 DEF Group!Remembered
    <2>3. began \in [Group!Level -> [Group!Machine -> Group!State] \cup {None}]
      BY <1>2 DEF Group!TypeOK
    <2>4. began' = [l \in Group!Level |->
                        IF l > depth' /\ commands' = <<>> THEN None ELSE began[l]]
      BY <1>1 DEF Group!Remembered
    <2> QED BY <2>1, <2>2, <2>3, <2>4
  <1>6. Group!TypeOK'
    BY <1>1, <1>2, <1>4, <1>5 DEF Group!TypeOK
  <1>7. \A how : ~GroupAt(how)'
    BY <1>1 DEF GroupAt
  <1>8. \A l \in 1 .. depth' : l \in 1 .. depth /\ (method = "destroy" => l # depth)
    BY <1>3, <1>4
  <1>9. GroupUnderWay' /\ GroupWhole'
    BY <1>1, <1>2, <1>4, <1>7, <1>8 DEF GroupUnderWay, GroupWhole, GroupAt
  <1>10. GroupQuiet' /\ GroupUpFits'
    BY <1>1, <1>2, <1>4, <1>5, <1>7, <1>8 DEF GroupQuiet, GroupUpFits
  <1>11. GroupUp'
    BY <1>1, <1>2 DEF GroupUp
  <1> QED BY <1>6, <1>9, <1>10, <1>11 DEF GroupIInv

\* What a command leaves alone, and what the last one of a method changes.
LEMMA GroupGoesOn ==
    ASSUME Group!Assumptions, Group!TypeOK, GroupUnderWay, Group!Command
    PROVE  /\ method \in {"create", "destroy", "revert"} /\ UNCHANGED <<talk, method, failed>>
           /\ \A how : /\ GroupAt(how) <=> method = how
                       /\ GroupAt(how)' <=> method = how /\ commands' # <<>>
           /\ depth' \in 0 .. MaxDepth /\ depth \in 0 .. MaxDepth /\ MaxDepth \in Nat
           /\ method = "create" => depth + 1 \in Group!Level
           /\ method # "create" => depth \in Group!Level
           /\ commands' # <<>> => depth' = depth
           /\ commands' = <<>> => depth' = CASE method = "create" -> depth + 1
                                             [] method = "destroy" -> depth - 1
                                             [] OTHER -> depth
           /\ began' \in [Group!Level -> [Group!Machine -> Group!State] \cup {None}]
           /\ \A l \in Group!Level : l <= depth' \/ commands' # <<>> => began'[l] = began[l]
  <1>1. /\ commands # <<>> /\ UNCHANGED <<talk, method, failed>>
        /\ depth' = IF commands' = <<>> THEN Group!DepthAfter ELSE depth
        /\ began' = Group!Remembered
    BY DEF Group!Command, Group!Idle
  <1>2. /\ depth \in 0 .. MaxDepth /\ MaxDepth \in Nat
        /\ method \in {"create", "destroy", "revert"}
        /\ method = "create" => depth < MaxDepth
        /\ method # "create" => depth > 0
    BY <1>1 DEF Group!TypeOK, Group!Assumptions, GroupUnderWay
  <1>3. \A how : /\ GroupAt(how) <=> method = how
                 /\ GroupAt(how)' <=> method = how /\ commands' # <<>>
    BY <1>1 DEF GroupAt
  <1>4. /\ method = "create" => depth + 1 \in Group!Level
        /\ method # "create" => depth \in Group!Level
    BY <1>2 DEF Group!Level
  <1>5. /\ commands' # <<>> => depth' = depth
        /\ commands' = <<>> => depth' = CASE method = "create" -> depth + 1
                                          [] method = "destroy" -> depth - 1
                                          [] OTHER -> depth
    BY <1>1 DEF Group!DepthAfter
  <1>6. depth' \in 0 .. MaxDepth
    BY <1>2, <1>5
  <1>7. began' = [l \in Group!Level |->
                      IF l > depth' /\ commands' = <<>> THEN None ELSE began[l]]
    BY <1>1 DEF Group!Remembered
  <1>8. began \in [Group!Level -> [Group!Machine -> Group!State] \cup {None}]
    BY DEF Group!TypeOK
  <1>9. began' \in [Group!Level -> [Group!Machine -> Group!State] \cup {None}]
    BY <1>7, <1>8
  <1>10. \A l \in Group!Level : l <= depth' => ~(l > depth')
    BY <1>6 DEF Group!Level
  <1>11. \A l \in Group!Level : l <= depth' \/ commands' # <<>> => began'[l] = began[l]
    BY <1>7, <1>10
  <1> QED BY <1>1, <1>2, <1>3, <1>4, <1>5, <1>6, <1>9, <1>11

\* create() has one more machine saved.
LEMMA GroupSaves ==
    ASSUME Group!Assumptions, GroupIInv, Group!Command, GroupUnderWay',
           commands' \in Seq(GroupCommands),
           method = "create", NEW m \in Group!Machine, Head(commands) = <<"create", m>>,
           \A x \in Group!Machine : GroupBack(x) <=> x < m,
           \A x \in Group!Machine : GroupBack(x)' <=> x <= m,
           commands' = <<>> => \A x \in Group!Machine : x <= m
    PROVE  GroupIInv'
  <1>1. /\ Group!TypeOK /\ GroupUnderWay /\ GroupWhole /\ GroupQuiet /\ GroupUp /\ GroupUpFits
    BY DEF GroupIInv
  <1>2. PICK lvl : lvl = depth + 1
    OBVIOUS
  <1>3. /\ UNCHANGED <<talk, method, failed>>
        /\ \A how : /\ GroupAt(how) <=> method = how
                    /\ GroupAt(how)' <=> method = how /\ commands' # <<>>
        /\ depth' \in 0 .. MaxDepth /\ depth \in 0 .. MaxDepth /\ MaxDepth \in Nat
        /\ lvl \in Group!Level
        /\ depth' = IF commands' = <<>> THEN lvl ELSE depth
        /\ began' \in [Group!Level -> [Group!Machine -> Group!State] \cup {None}]
        /\ \A l \in Group!Level : l <= depth' \/ commands' # <<>> => began'[l] = began[l]
    BY <1>1, <1>2, GroupGoesOn
  <1>4. taken' = [taken EXCEPT ![lvl][m] = state[m]] /\ state' = state
    <2>1. Head(commands)[1] = "create" /\ Head(commands)[2] = m /\ Group!Current = lvl
      BY <1>2 DEF Group!Current
    <2> QED BY <2>1 DEF Group!Command
  <1>5. /\ state \in [Group!Machine -> Group!State]
        /\ taken \in [Group!Level -> [Group!Machine -> Group!State \cup {None}]]
    BY <1>1 DEF Group!TypeOK
  <1>6. /\ taken' \in [Group!Level -> [Group!Machine -> Group!State \cup {None}]]
        /\ taken'[lvl][m] = state[m]
        /\ \A l \in Group!Level, x \in Group!Machine :
               l # lvl \/ x # m => taken'[l][x] = taken[l][x]
    BY <1>3, <1>4, <1>5
  <1>7. Group!TypeOK'
    BY <1>1, <1>3, <1>4, <1>6 DEF Group!TypeOK, GroupCommands
  <1>8. /\ \A l \in 1 .. depth : l \in Group!Level /\ l # lvl /\ l <= depth'
        /\ \A l \in 1 .. depth' : l \in 1 .. depth \/ (l = lvl /\ commands' = <<>>)
        /\ Group!Machine \subseteq Nat /\ m \in Nat
    BY <1>2, <1>3 DEF Group!Level, Group!Machine
  <1>9. \A x \in Group!Machine : x <= m => taken'[lvl][x] # None
    <2>1. state[m] # None
      BY <1>5 DEF Group!Assumptions
    <2>2. \A x \in Group!Machine : x < m => taken[lvl][x] # None
      BY <1>1, <1>2, <1>3 DEF GroupWhole
    <2>3. \A x \in Group!Machine : x <= m => x = m \/ x < m
      BY <1>8
    <2> QED BY <1>3, <1>6, <2>1, <2>2, <2>3
  <1>10. GroupWhole'
    <2>1. \A l \in 1 .. depth', x \in Group!Machine : taken'[l][x] # None
      <3>1. \A l \in 1 .. depth, x \in Group!Machine : taken'[l][x] # None
        BY <1>1, <1>3, <1>6, <1>8 DEF GroupWhole
      <3> QED BY <1>8, <1>9, <3>1
    <2>2. GroupAt("create")' => \A x \in Group!Machine : GroupBack(x)' => taken'[depth' + 1][x] # None
      BY <1>2, <1>3, <1>9
    <2>3. ASSUME failed = 0, NEW l \in Group!Level, NEW x \in Group!Machine, l > depth',
                 ~(GroupAt("create")' /\ l = depth' + 1 /\ GroupBack(x)')
          PROVE  taken'[l][x] = None
      <3>1. l > depth /\ (l = lvl => ~(x <= m))
        BY <1>2, <1>3, <2>3 DEF Group!Level
      <3>2. l = lvl => x # m /\ ~(x < m)
        BY <1>8, <3>1
      <3>3. failed = 0 /\ ~(l = depth + 1 /\ GroupBack(x))
        BY <1>2, <1>3, <2>3, <3>2
      <3>4. taken[l][x] = None
        BY <1>1, <3>1, <3>3 DEF GroupWhole
      <3> QED BY <1>6, <3>2, <3>4
    <2> QED BY <1>3, <2>1, <2>2, <2>3 DEF GroupWhole
  <1>11. GroupQuiet'
    <2> SUFFICES ASSUME talk = "none" PROVE GroupQuiet'
      BY <1>3 DEF GroupQuiet
    <2>1. /\ \A l \in 1 .. depth :
                 /\ began[l] \in [Group!Machine -> Group!State]
                 /\ \A x \in Group!Machine : taken[l][x] # None => taken[l][x] = began[l][x]
                 /\ failed = 0 => GroupFits(began[l])
          /\ began[lvl] = state
          /\ \A x \in Group!Machine : x < m => taken[lvl][x] = state[x]
          /\ failed = 0 => GroupFits(state)
      BY <1>1, <1>2, <1>3 DEF GroupQuiet
    <2>2. \A x \in Group!Machine : x <= m => taken'[lvl][x] = state[x]
      <3>1. \A x \in Group!Machine : x <= m => x = m \/ x < m
        BY <1>8
      <3> QED BY <1>3, <1>6, <2>1, <3>1
    <2>3. ASSUME NEW l \in 1 .. depth'
          PROVE  /\ began'[l] \in [Group!Machine -> Group!State]
                 /\ \A x \in Group!Machine : taken'[l][x] # None => taken'[l][x] = began'[l][x]
                 /\ failed = 0 => GroupFits(began'[l])
      <3>1. CASE l \in 1 .. depth
        <4>1. began'[l] = began[l] /\ \A x \in Group!Machine : taken'[l][x] = taken[l][x]
          BY <1>3, <1>6, <1>8, <3>1
        <4>2. /\ began[l] \in [Group!Machine -> Group!State]
              /\ \A x \in Group!Machine : taken[l][x] # None => taken[l][x] = began[l][x]
              /\ failed = 0 => GroupFits(began[l])
          BY <2>1, <3>1
        <4> QED BY <1>3, <4>1, <4>2
      <3>2. CASE l = lvl /\ commands' = <<>>
        <4>1. began'[l] = state
          BY <1>3, <2>1, <3>2
        <4> QED BY <1>5, <2>1, <2>2, <3>2, <4>1
      <3> QED BY <1>8, <3>1, <3>2
    <2>4. GroupAt("create")' =>
              /\ began'[depth' + 1] = state
              /\ \A x \in Group!Machine : GroupBack(x)' => taken'[depth' + 1][x] = state[x]
      BY <1>2, <1>3, <2>1, <2>2
    <2>5. failed = 0 => GroupFits(state')
      BY <1>4, <2>1 DEF GroupFits
    <2> QED BY <1>3, <1>4, <2>3, <2>4, <2>5 DEF GroupQuiet, GroupFits
  <1>12. GroupUp'
    BY <1>1, <1>3, <1>4, <1>6 DEF GroupUp
  <1>13. GroupUpFits'
    <2> SUFFICES ASSUME talk = "upwards", failed = 0, NEW n \in Group!Machine,
                        NEW x \in Group!Machine, n < x
                 PROVE  /\ \A l \in 1 .. depth' :
                               taken'[l][n] # None /\ taken'[l][x] # None =>
                                   taken'[l][n].heard[x] <= taken'[l][x].said
                        /\ state[n].heard[x] <= state[x].said
                        /\ GroupAt("create")' /\ n <= m =>
                               taken'[depth' + 1][n].heard[x] <=
                                   IF x <= m THEN taken'[depth' + 1][x].said ELSE state[x].said
      BY <1>3, <1>4 DEF GroupUpFits
    <2>1. /\ \A l \in 1 .. depth :
                 taken[l][n] # None /\ taken[l][x] # None =>
                     taken[l][n].heard[x] <= taken[l][x].said
          /\ state[n].heard[x] <= state[x].said
          /\ n < m => taken[lvl][n].heard[x] <=
                          IF x < m THEN taken[lvl][x].said ELSE state[x].said
      BY <1>1, <1>2, <1>3 DEF GroupUpFits
    <2>2. n <= m => taken'[lvl][n].heard[x] <=
                        IF x <= m THEN taken'[lvl][x].said ELSE state[x].said
      <3>1. /\ n <= m => n < m \/ n = m
            /\ n < m => n # m
            /\ x <= m <=> x < m \/ x = m
            /\ x < m => x # m
            /\ n = m => ~(x <= m)
        BY <1>8
      <3>2. CASE n = m
        BY <1>6, <2>1, <3>1, <3>2
      <3>3. CASE n < m /\ x < m
        BY <1>3, <1>6, <2>1, <3>1, <3>3
      <3>4. CASE n < m /\ x = m
        <4>1. taken'[lvl][n] = taken[lvl][n] /\ taken'[lvl][x] = state[x] /\ ~(x < m)
          BY <1>3, <1>6, <1>8, <3>1, <3>4
        <4> QED BY <2>1, <3>1, <3>4, <4>1
      <3>5. CASE n < m /\ ~(x <= m)
        <4>1. taken'[lvl][n] = taken[lvl][n] /\ ~(x < m)
          BY <1>3, <1>6, <3>1, <3>5
        <4> QED BY <2>1, <3>5, <4>1
      <3> QED BY <3>1, <3>2, <3>3, <3>4, <3>5
    <2>3. ASSUME NEW l \in 1 .. depth', taken'[l][n] # None, taken'[l][x] # None
          PROVE  taken'[l][n].heard[x] <= taken'[l][x].said
      <3>1. CASE l \in 1 .. depth
        BY <1>6, <1>8, <2>1, <2>3, <3>1
      <3>2. CASE l = lvl /\ commands' = <<>>
        BY <2>2, <3>2
      <3> QED BY <1>8, <3>1, <3>2
    <2> QED BY <1>2, <1>3, <2>1, <2>2, <2>3
  <1> QED BY <1>7, <1>10, <1>11, <1>12, <1>13 DEF GroupIInv

\* A machine is back at its snapshot.
LEMMA GroupRestores ==
    ASSUME Group!Assumptions, GroupIInv, Group!Command, commands' \in Seq(GroupCommands),
           method \in {"destroy", "revert"}, NEW m \in Group!Machine,
           Head(commands) = <<"revert", m>>, ~GroupGone(m)
    PROVE  /\ Group!TypeOK' /\ taken' = taken
           /\ state' \in [Group!Machine -> Group!State]
           /\ taken[depth][m] # None /\ state'[m] = taken[depth][m]
           /\ \A x \in Group!Machine : x # m => state'[x] = state[x]
  <1>1. Group!TypeOK /\ GroupUnderWay /\ GroupWhole
    BY DEF GroupIInv
  <1>2. /\ UNCHANGED <<talk, method, failed>> /\ (GroupAt("destroy") \/ GroupAt("revert"))
        /\ depth' \in 0 .. MaxDepth
        /\ began' \in [Group!Level -> [Group!Machine -> Group!State] \cup {None}]
    BY <1>1, GroupGoesOn
  <1>3. taken' = taken /\ state' = [state EXCEPT ![m] = taken[depth][m]]
    <2>1. Head(commands)[1] = "revert" /\ Head(commands)[2] = m /\ Group!Current = depth
      BY DEF Group!Current
    <2> QED BY <2>1 DEF Group!Command
  <1>4. taken[depth][m] # None /\ taken[depth][m] \in Group!State
    BY <1>1, <1>2, GroupUnreverted
  <1>5. state \in [Group!Machine -> Group!State]
    BY <1>1 DEF Group!TypeOK
  <1>6. /\ state' \in [Group!Machine -> Group!State] /\ state'[m] = taken[depth][m]
        /\ \A x \in Group!Machine : x # m => state'[x] = state[x]
    BY <1>3, <1>4, <1>5
  <1>7. Group!TypeOK'
    BY <1>1, <1>2, <1>3, <1>6 DEF Group!TypeOK, GroupCommands
  <1> QED BY <1>3, <1>4, <1>6, <1>7

\* With machines that are quiet, it's where it was when create() was called.
LEMMA GroupIsBack ==
    ASSUME Group!Assumptions, GroupIInv, talk = "none",
           GroupAt("destroy") \/ GroupAt("revert"), NEW m \in Group!Machine, ~GroupGone(m)
    PROVE  /\ depth \in 1 .. depth /\ began[depth] \in [Group!Machine -> Group!State]
           /\ taken[depth][m] = began[depth][m]
  <1>1. Group!TypeOK /\ GroupUnderWay /\ GroupWhole /\ GroupQuiet
    BY DEF GroupIInv
  <1>2. taken[depth][m] # None /\ depth \in Group!Level
    BY <1>1, GroupUnreverted
  <1>3. depth \in 1 .. depth
    BY <1>2 DEF Group!Level, Group!Assumptions
  <1> QED BY <1>1, <1>2, <1>3 DEF GroupQuiet

\* revert() has one more machine back.
LEMMA GroupReverts ==
    ASSUME Group!Assumptions, GroupIInv, Group!Command, GroupUnderWay',
           commands' \in Seq(GroupCommands),
           method = "revert", NEW m \in Group!Machine, Head(commands) = <<"revert", m>>,
           \A x \in Group!Machine : GroupBack(x) <=> x < m,
           \A x \in Group!Machine : GroupBack(x)' <=> x <= m,
           commands' = <<>> => \A x \in Group!Machine : x <= m
    PROVE  /\ GroupIInv'
           /\ talk = "none" /\ commands' = <<>> => state' = began[depth]
  <1>1. /\ Group!TypeOK /\ GroupUnderWay /\ GroupWhole /\ GroupQuiet /\ GroupUp /\ GroupUpFits
    BY DEF GroupIInv
  <1>2. /\ UNCHANGED <<talk, method, failed>>
        /\ \A how : /\ GroupAt(how) <=> method = how
                    /\ GroupAt(how)' <=> method = how /\ commands' # <<>>
        /\ depth' = depth /\ depth \in Group!Level
        /\ \A l \in Group!Level : l <= depth' \/ commands' # <<>> => began'[l] = began[l]
    BY <1>1, GroupGoesOn
  <1>3. ~GroupGone(m)
    BY DEF GroupGone
  <1>4. /\ Group!TypeOK' /\ taken' = taken
        /\ state' \in [Group!Machine -> Group!State]
        /\ taken[depth][m] # None /\ state'[m] = taken[depth][m]
        /\ \A x \in Group!Machine : x # m => state'[x] = state[x]
    BY <1>3, GroupRestores
  <1>5. \A l \in 1 .. depth : l \in Group!Level /\ l <= depth'
    BY <1>2 DEF Group!Level, Group!Assumptions
  <1>6. GroupWhole'
    BY <1>1, <1>2, <1>4 DEF GroupWhole
  <1>7. GroupUp' /\ GroupUpFits' /\ talk # "upwards"
    <2>1. talk # "upwards"
      BY <1>1, <1>2 DEF GroupUnderWay, GroupAt
    <2> QED BY <1>2, <2>1 DEF GroupUp, GroupUpFits
  <1>8. ASSUME talk = "none"
        PROVE  /\ depth \in 1 .. depth /\ began[depth] \in [Group!Machine -> Group!State]
               /\ \A x \in Group!Machine : x <= m => state'[x] = began[depth][x]
    <2>1. /\ depth \in 1 .. depth /\ began[depth] \in [Group!Machine -> Group!State]
          /\ taken[depth][m] = began[depth][m]
      BY <1>2, <1>3, <1>8, GroupIsBack
    <2>2. \A x \in Group!Machine : x < m => state[x] = began[depth][x]
      BY <1>1, <1>2, <1>8 DEF GroupQuiet
    <2>3. \A x \in Group!Machine : x <= m => x = m \/ (x < m /\ x # m)
      BY DEF Group!Machine
    <2> QED BY <1>4, <2>1, <2>2, <2>3
  <1>9. talk = "none" /\ commands' = <<>> => state' = began[depth]
    BY <1>4, <1>8
  <1>10. GroupQuiet'
    <2> SUFFICES ASSUME talk = "none" PROVE GroupQuiet'
      BY <1>2 DEF GroupQuiet
    <2>1. \A l \in 1 .. depth :
              /\ began[l] \in [Group!Machine -> Group!State]
              /\ \A x \in Group!Machine : taken[l][x] # None => taken[l][x] = began[l][x]
              /\ failed = 0 => GroupFits(began[l])
      BY <1>1 DEF GroupQuiet
    <2>2. \A l \in 1 .. depth' :
              /\ began'[l] \in [Group!Machine -> Group!State]
              /\ \A x \in Group!Machine : taken'[l][x] # None => taken'[l][x] = began'[l][x]
              /\ failed = 0 => GroupFits(began'[l])
      BY <1>2, <1>4, <1>5, <2>1
    <2>3. GroupAt("revert")' => \A x \in Group!Machine : GroupBack(x)' => state'[x] = began'[depth'][x]
      BY <1>2, <1>5, <1>8
    <2>4. failed = 0 /\ ~GroupAt("revert")' => GroupFits(state')
      <3> SUFFICES ASSUME failed = 0, commands' = <<>> PROVE GroupFits(state')
        BY <1>2
      <3>1. GroupFits(began[depth])
        BY <1>8, <2>1
      <3>2. state' = began[depth]
        BY <1>9
      <3> QED BY <3>1, <3>2
    <2> QED BY <1>2, <2>2, <2>3, <2>4 DEF GroupQuiet, GroupFits
  <1> QED BY <1>1, <1>4, <1>6, <1>7, <1>9, <1>10 DEF GroupIInv

\* destroy() has one more machine back.
LEMMA GroupGoesBack ==
    ASSUME Group!Assumptions, GroupIInv, Group!Command, GroupUnderWay',
           commands' \in Seq(GroupCommands),
           method = "destroy", NEW m \in Group!Machine, Head(commands) = <<"revert", m>>,
           \A x \in Group!Machine : (GroupBack(x) <=> x > m) /\ (GroupGone(x) <=> x > m),
           \A x \in Group!Machine : (GroupBack(x)' <=> x >= m) /\ (GroupGone(x)' <=> x > m),
           commands' # <<>>
    PROVE  GroupIInv'
  <1>1. /\ Group!TypeOK /\ GroupUnderWay /\ GroupWhole /\ GroupQuiet /\ GroupUp /\ GroupUpFits
    BY DEF GroupIInv
  <1>2. /\ UNCHANGED <<talk, method, failed>>
        /\ \A how : /\ GroupAt(how) <=> method = how
                    /\ GroupAt(how)' <=> method = how /\ commands' # <<>>
        /\ depth' = depth /\ depth \in Group!Level
        /\ \A l \in Group!Level : l <= depth' \/ commands' # <<>> => began'[l] = began[l]
    BY <1>1, GroupGoesOn
  <1>3. ~GroupGone(m) /\ Group!Machine \subseteq Nat /\ m \in Nat
    BY DEF Group!Machine
  <1>4. /\ Group!TypeOK' /\ taken' = taken
        /\ state' \in [Group!Machine -> Group!State]
        /\ taken[depth][m] # None /\ state'[m] = taken[depth][m]
        /\ \A x \in Group!Machine : x # m => state'[x] = state[x]
    BY <1>3, GroupRestores
  <1>5. /\ \A l \in 1 .. depth : l \in Group!Level
        /\ depth \in 1 .. depth
    BY <1>2 DEF Group!Level, Group!Assumptions
  <1>6. GroupWhole'
    BY <1>1, <1>2, <1>4 DEF GroupWhole
  <1>7. GroupQuiet'
    <2> SUFFICES ASSUME talk = "none" PROVE GroupQuiet'
      BY <1>2 DEF GroupQuiet
    <2>1. \A l \in 1 .. depth :
              /\ began[l] \in [Group!Machine -> Group!State]
              /\ \A x \in Group!Machine : taken[l][x] # None => taken[l][x] = began[l][x]
              /\ failed = 0 => GroupFits(began[l])
      BY <1>1 DEF GroupQuiet
    <2>2. \A l \in 1 .. depth' :
              /\ began'[l] \in [Group!Machine -> Group!State]
              /\ \A x \in Group!Machine : taken'[l][x] # None => taken'[l][x] = began'[l][x]
              /\ failed = 0 => GroupFits(began'[l])
      BY <1>2, <1>4, <1>5, <2>1
    <2>3. \A x \in Group!Machine : x >= m => state'[x] = began[depth][x]
      <3>1. taken[depth][m] = began[depth][m]
        BY <1>4, <1>5, <2>1
      <3>2. \A x \in Group!Machine : x > m => state[x] = began[depth][x]
        BY <1>1, <1>2 DEF GroupQuiet
      <3>3. \A x \in Group!Machine : x >= m => x = m \/ (x > m /\ x # m)
        BY <1>3
      <3> QED BY <1>4, <3>1, <3>2, <3>3
    <2>4. \A x \in Group!Machine : GroupBack(x)' => state'[x] = began'[depth'][x]
      BY <1>2, <1>5, <2>3
    <2> QED BY <1>2, <2>2, <2>4 DEF GroupQuiet
  <1>8. GroupUp'
    BY <1>1, <1>2, <1>4 DEF GroupUp
  <1>9. GroupUpFits'
    <2> SUFFICES ASSUME talk = "upwards", failed = 0, NEW n \in Group!Machine,
                        NEW x \in Group!Machine, n < x
                 PROVE  /\ \A l \in 1 .. depth :
                               taken[l][n] # None /\ taken[l][x] # None =>
                                   taken[l][n].heard[x] <= taken[l][x].said
                        /\ (n >= m <=> x >= m) => state'[n].heard[x] <= state'[x].said
                        /\ ~(n >= m) /\ x >= m => taken[depth][n].heard[x] <= state'[x].said
      BY <1>2, <1>4 DEF GroupUpFits
    <2>1. /\ \A l \in 1 .. depth :
                 taken[l][n] # None /\ taken[l][x] # None =>
                     taken[l][n].heard[x] <= taken[l][x].said
          /\ (n > m <=> x > m) => state[n].heard[x] <= state[x].said
          /\ ~(n > m) /\ x > m => taken[depth][n].heard[x] <= state[x].said
      BY <1>1, <1>2 DEF GroupUpFits
    <2>2. \/ n > m /\ x > m /\ n >= m /\ x >= m /\ n # m /\ x # m
          \/ n = m /\ x > m /\ n >= m /\ x >= m /\ x # m /\ ~(n > m)
          \/ n < m /\ x > m /\ ~(n >= m) /\ x >= m /\ x # m /\ n # m /\ ~(n > m)
          \/ n < m /\ x = m /\ ~(n >= m) /\ x >= m /\ n # m /\ ~(n > m) /\ ~(x > m)
          \/ n < m /\ x < m /\ ~(n >= m) /\ ~(x >= m) /\ n # m /\ x # m /\ ~(n > m) /\ ~(x > m)
      BY <1>3
    <2>3. n < m => taken[depth][n] # None
      <3> SUFFICES ASSUME n < m PROVE taken[depth][n] # None
        OBVIOUS
      <3>1. ~GroupGone(n)
        BY <1>3
      <3> QED BY <1>1, <1>2, <3>1, GroupUnreverted
    <2>4. (n >= m <=> x >= m) => state'[n].heard[x] <= state'[x].said
      BY <1>4, <2>1, <2>2
    <2>5. ~(n >= m) /\ x >= m => taken[depth][n].heard[x] <= state'[x].said
      BY <1>4, <1>5, <2>1, <2>2, <2>3
    <2> QED BY <2>1, <2>4, <2>5
  <1> QED BY <1>4, <1>6, <1>7, <1>8, <1>9 DEF GroupIInv

\* destroy() deletes the snapshot of a machine that is back.
LEMMA GroupDeletes ==
    ASSUME Group!Assumptions, GroupIInv, Group!Command, GroupUnderWay',
           commands' \in Seq(GroupCommands),
           method = "destroy", NEW m \in Group!Machine, Head(commands) = <<"delete", m>>,
           \A x \in Group!Machine : (GroupBack(x) <=> x >= m) /\ (GroupGone(x) <=> x > m),
           \A x \in Group!Machine : (GroupBack(x)' <=> x >= m) /\ (GroupGone(x)' <=> x >= m),
           commands' = <<>> => \A x \in Group!Machine : x >= m
    PROVE  /\ GroupIInv'
           /\ talk = "none" /\ commands' = <<>> => state' = began[depth]
  <1>1. /\ Group!TypeOK /\ GroupUnderWay /\ GroupWhole /\ GroupQuiet /\ GroupUp /\ GroupUpFits
    BY DEF GroupIInv
  <1>2. /\ UNCHANGED <<talk, method, failed>>
        /\ \A how : /\ GroupAt(how) <=> method = how
                    /\ GroupAt(how)' <=> method = how /\ commands' # <<>>
        /\ depth' \in 0 .. MaxDepth /\ depth \in 0 .. MaxDepth /\ MaxDepth \in Nat
        /\ depth \in Group!Level /\ depth' = IF commands' = <<>> THEN depth - 1 ELSE depth
        /\ began' \in [Group!Level -> [Group!Machine -> Group!State] \cup {None}]
        /\ \A l \in Group!Level : l <= depth' \/ commands' # <<>> => began'[l] = began[l]
    BY <1>1, GroupGoesOn
  <1>3. /\ \A l \in 1 .. depth' : l \in 1 .. depth /\ l \in Group!Level /\ l <= depth'
        /\ \A l \in 1 .. depth' : commands' = <<>> => l # depth
        /\ depth \in 1 .. depth /\ Group!Machine \subseteq Nat /\ m \in Nat
    BY <1>2 DEF Group!Level, Group!Machine
  <1>4. taken' = [taken EXCEPT ![depth][m] = None] /\ state' = state
    <2>1. Head(commands)[1] = "delete" /\ Head(commands)[2] = m /\ Group!Current = depth
      BY DEF Group!Current
    <2> QED BY <2>1 DEF Group!Command
  <1>5. /\ state \in [Group!Machine -> Group!State]
        /\ taken \in [Group!Level -> [Group!Machine -> Group!State \cup {None}]]
    BY <1>1 DEF Group!TypeOK
  <1>6. /\ taken' \in [Group!Level -> [Group!Machine -> Group!State \cup {None}]]
        /\ taken'[depth][m] = None
        /\ \A l \in Group!Level, x \in Group!Machine :
               l # depth \/ x # m => taken'[l][x] = taken[l][x]
    BY <1>2, <1>4, <1>5
  <1>7. Group!TypeOK'
    BY <1>1, <1>2, <1>4, <1>6 DEF Group!TypeOK, GroupCommands
  <1>8. \A x \in Group!Machine : x >= m => taken'[depth][x] = None
    <2>1. \A x \in Group!Machine : x > m => taken[depth][x] = None
      BY <1>1, <1>2 DEF GroupWhole
    <2>2. \A x \in Group!Machine : x >= m => x = m \/ (x > m /\ x # m)
      BY <1>3
    <2> QED BY <1>2, <1>6, <2>1, <2>2
  <1>9. GroupWhole'
    <2>1. ASSUME NEW l \in 1 .. depth', NEW x \in Group!Machine
          PROVE  taken'[l][x] # None \/ (GroupAt("destroy")' /\ l = depth' /\ GroupGone(x)')
      <3>1. CASE l # depth
        BY <1>1, <1>3, <1>6, <2>1, <3>1 DEF GroupWhole
      <3>2. CASE l = depth /\ x >= m
        BY <1>2, <1>3, <2>1, <3>2
      <3>3. CASE l = depth /\ ~(x >= m)
        <4>1. taken[l][x] # None
          <5>1. ~(x > m)
            BY <1>3, <3>3
          <5> QED BY <1>1, <1>3, <2>1, <5>1 DEF GroupWhole
        <4>2. x # m
          BY <1>3, <3>3
        <4> QED BY <1>2, <1>6, <3>3, <4>1, <4>2
      <3> QED BY <3>1, <3>2, <3>3
    <2>2. ASSUME failed = 0, NEW l \in Group!Level, NEW x \in Group!Machine, l > depth'
          PROVE  taken'[l][x] = None
      <3>1. CASE l = depth
        <4>1. commands' = <<>>
          BY <1>2, <2>2, <3>1
        <4> QED BY <1>8, <3>1, <4>1
      <3>2. CASE l # depth
        <4>1. l > depth
          BY <1>2, <2>2, <3>2 DEF Group!Level
        <4> QED BY <1>1, <1>2, <1>6, <2>2, <3>2, <4>1 DEF GroupWhole
      <3> QED BY <3>1, <3>2
    <2>3. GroupAt("destroy")' => \A x \in Group!Machine : GroupGone(x)' => taken'[depth'][x] = None
      BY <1>2, <1>8
    <2> QED BY <1>2, <2>1, <2>2, <2>3 DEF GroupWhole
  <1>10. ASSUME talk = "none"
         PROVE  /\ \A l \in 1 .. depth :
                       /\ began[l] \in [Group!Machine -> Group!State]
                       /\ \A x \in Group!Machine : taken[l][x] # None => taken[l][x] = began[l][x]
                       /\ failed = 0 => GroupFits(began[l])
                /\ \A x \in Group!Machine : x >= m => state[x] = began[depth][x]
    BY <1>1, <1>2, <1>10 DEF GroupQuiet
  <1>11. ASSUME talk = "none", commands' = <<>>
         PROVE  state' = began[depth]
    <2>1. /\ began[depth] \in [Group!Machine -> Group!State]
          /\ \A x \in Group!Machine : x >= m => state[x] = began[depth][x]
      BY <1>3, <1>10, <1>11
    <2>2. \A x \in Group!Machine : state[x] = began[depth][x]
      BY <1>11, <2>1
    <2>3. state \in [Group!Machine -> Group!State]
      BY <1>5
    <2>4. state = began[depth]
      BY <2>1, <2>2, <2>3
    <2> QED BY <1>4, <2>4
  <1>12. GroupQuiet'
    <2> SUFFICES ASSUME talk = "none" PROVE GroupQuiet'
      BY <1>2 DEF GroupQuiet
    <2>1. ASSUME NEW l \in 1 .. depth'
          PROVE  /\ began'[l] \in [Group!Machine -> Group!State]
                 /\ \A x \in Group!Machine : taken'[l][x] # None => taken'[l][x] = began'[l][x]
                 /\ failed = 0 => GroupFits(began'[l])
      <3>1. began'[l] = began[l] /\ l \in 1 .. depth /\ l \in Group!Level
        BY <1>2, <1>3
      <3>2. \A x \in Group!Machine : taken'[l][x] # None => taken'[l][x] = taken[l][x]
        BY <1>6, <3>1
      <3> QED BY <1>10, <3>1, <3>2
    <2>2. GroupAt("destroy")' => \A x \in Group!Machine : GroupBack(x)' => state'[x] = began'[depth'][x]
      BY <1>2, <1>4, <1>10
    <2>3. failed = 0 /\ ~GroupAt("destroy")' => GroupFits(state')
      <3> SUFFICES ASSUME failed = 0, commands' = <<>> PROVE GroupFits(state')
        BY <1>2
      <3>1. GroupFits(began[depth])
        BY <1>3, <1>10
      <3>2. state' = began[depth]
        BY <1>11
      <3> QED BY <3>1, <3>2
    <2> QED BY <1>2, <2>1, <2>2, <2>3 DEF GroupQuiet, GroupFits
  <1>13. GroupUp'
    <2>1. \A l \in Group!Level, x \in Group!Machine : taken'[l][x] # None => taken'[l][x] = taken[l][x]
      BY <1>6
    <2> QED BY <1>1, <1>2, <1>4, <2>1 DEF GroupUp
  <1>14. GroupUpFits'
    <2> SUFFICES ASSUME talk = "upwards", failed = 0, NEW n \in Group!Machine,
                        NEW x \in Group!Machine, n < x
                 PROVE  /\ \A l \in 1 .. depth' :
                               taken'[l][n] # None /\ taken'[l][x] # None =>
                                   taken'[l][n].heard[x] <= taken'[l][x].said
                        /\ commands' = <<>> \/ (n >= m <=> x >= m) =>
                               state[n].heard[x] <= state[x].said
                        /\ commands' # <<>> /\ ~(n >= m) /\ x >= m =>
                               taken'[depth][n].heard[x] <= state[x].said
      BY <1>2, <1>4 DEF GroupUpFits
    <2>1. /\ \A l \in 1 .. depth :
                 taken[l][n] # None /\ taken[l][x] # None =>
                     taken[l][n].heard[x] <= taken[l][x].said
          /\ (n >= m <=> x >= m) => state[n].heard[x] <= state[x].said
          /\ ~(n >= m) /\ x >= m => taken[depth][n].heard[x] <= state[x].said
      BY <1>1, <1>2 DEF GroupUpFits
    <2>2. \A l \in 1 .. depth' :
              taken'[l][n] # None /\ taken'[l][x] # None =>
                  taken'[l][n].heard[x] <= taken'[l][x].said
      <3>1. \A l \in 1 .. depth', y \in Group!Machine :
                taken'[l][y] # None => taken'[l][y] = taken[l][y]
        BY <1>3, <1>6
      <3> QED BY <1>3, <2>1, <3>1
    <2>3. ~(n >= m) => taken'[depth][n] = taken[depth][n]
      <3>1. ~(n >= m) => n # m
        BY <1>3
      <3> QED BY <1>2, <1>6, <3>1
    <2> QED BY <2>1, <2>2, <2>3
  <1> QED BY <1>7, <1>9, <1>11, <1>12, <1>13, <1>14 DEF GroupIInv

LEMMA GroupCommand ==
    ASSUME Group!Assumptions, GroupIInv, Group!Command
    PROVE  /\ GroupIInv'
           /\ talk = "none" /\ method \in {"destroy", "revert"} /\ commands' = <<>> =>
                  state' = began[depth]
  <1>1. /\ commands # <<>> /\ GroupUnderWay' /\ commands' \in Seq(GroupCommands)
        /\ \E m \in Group!Machine :
               \/ /\ method \in {"create", "revert"} /\ Head(commands) = <<method, m>>
                  /\ \A x \in Group!Machine : GroupBack(x) <=> x < m
                  /\ \A x \in Group!Machine : GroupBack(x)' <=> x <= m
                  /\ commands' = <<>> => \A x \in Group!Machine : x <= m
               \/ /\ method = "destroy" /\ Head(commands) = <<"revert", m>>
                  /\ \A x \in Group!Machine : /\ GroupBack(x) <=> x > m
                                              /\ GroupGone(x) <=> x > m
                  /\ \A x \in Group!Machine : /\ GroupBack(x)' <=> x >= m
                                              /\ GroupGone(x)' <=> x > m
                  /\ commands' # <<>>
               \/ /\ method = "destroy" /\ Head(commands) = <<"delete", m>>
                  /\ \A x \in Group!Machine : /\ GroupBack(x) <=> x >= m
                                              /\ GroupGone(x) <=> x > m
                  /\ \A x \in Group!Machine : /\ GroupBack(x)' <=> x >= m
                                              /\ GroupGone(x)' <=> x >= m
                  /\ commands' = <<>> => \A x \in Group!Machine : x >= m
    BY GroupCommandIs DEF GroupIInv
  <1> QED BY <1>1, GroupSaves, GroupReverts, GroupGoesBack, GroupDeletes

LEMMA GroupNext ==
    ASSUME Group!Assumptions, GroupIInv, [Group!Next]_group
    PROVE  GroupIInv' /\ Group!AllAsBefore
  <1>1. CASE UNCHANGED group
    <2>1. UNCHANGED <<talk, state, taken, began, depth, method, commands, failed>>
      BY <1>1 DEF group
    <2>2. /\ \A how : GroupAt(how)' <=> GroupAt(how)
          /\ \A x : (GroupBack(x)' <=> GroupBack(x)) /\ (GroupGone(x)' <=> GroupGone(x))
      BY <2>1 DEF GroupAt, GroupBack, GroupGone, GroupDone, GroupPlan
    <2>3. /\ Group!TypeOK /\ GroupUnderWay /\ GroupWhole /\ GroupQuiet /\ GroupUp /\ GroupUpFits
      BY DEF GroupIInv
    <2>4. Group!TypeOK' /\ GroupUnderWay'
      BY <2>1, <2>3 DEF Group!TypeOK, GroupUnderWay, GroupDone, GroupPlan
    <2>5. GroupWhole'
      BY <2>1, <2>2, <2>3 DEF GroupWhole
    <2>6. GroupQuiet'
      BY <2>1, <2>2, <2>3 DEF GroupQuiet, GroupFits
    <2>7. GroupUp' /\ GroupUpFits'
      BY <2>1, <2>2, <2>3 DEF GroupUp, GroupUpFits
    <2>8. Group!AllAsBefore
      BY <2>1 DEF Group!AllAsBefore, Group!Idle
    <2> QED BY <2>4, <2>5, <2>6, <2>7, <2>8 DEF GroupIInv
  <1>2. CASE /\ \/ \E m \in Group!Machine : Group!Say(m) \/ Group!Power(m)
                \/ \E n, m \in Group!Machine : n # m /\ Group!Hear(n, m)
             /\ ~UNCHANGED group
    <2>1. UNCHANGED <<talk, taken, began, depth, method, commands, failed>>
      BY <1>2 DEF Group!Say, Group!Power, Group!Hear
    <2>2. state' # state
      BY <1>2, <2>1 DEF group
    <2>3. Group!AllAsBefore
      BY <2>1 DEF Group!AllAsBefore, Group!Idle
    <2> QED BY <1>2, <2>2, <2>3, GroupTalk
  <1>3. CASE Group!Create \/ Group!Destroy \/ Group!Revert
    <2>1. Group!AllAsBefore
      BY <1>3 DEF Group!AllAsBefore, Group!Create, Group!Destroy, Group!Revert, Group!Idle
    <2> QED BY <1>3, <2>1, GroupCall
  <1>4. CASE Group!Command
    BY <1>4, GroupCommand DEF Group!AllAsBefore
  <1>5. CASE Group!Fail
    <2>1. failed' # failed
      <3>1. failed \in Nat
        BY DEF GroupIInv, Group!TypeOK, Group!Assumptions
      <3> QED BY <1>5, <3>1 DEF Group!Fail
    <2> QED BY <1>5, <2>1, GroupFail DEF Group!AllAsBefore
  <1> QED BY <1>1, <1>2, <1>3, <1>4, <1>5 DEF Group!Next

LEMMA GroupHolds ==
    ASSUME Group!Assumptions, GroupIInv
    PROVE  Group!OneCut /\ Group!GroupIsWhole
  <1>1. /\ Group!TypeOK /\ GroupUnderWay /\ GroupWhole /\ GroupQuiet /\ GroupUp /\ GroupUpFits
    BY DEF GroupIInv
  <1>2. Group!GroupIsWhole
    <2>1. \A l \in 1 .. depth, m \in Group!Machine :
              Group!Idle \/ l < depth \/ method # "destroy" => taken[l][m] # None
      <3>1. \A l \in 1 .. depth : l < depth => l # depth
        BY <1>1 DEF Group!TypeOK, Group!Assumptions
      <3> QED BY <1>1, <3>1 DEF GroupWhole, GroupAt, Group!Idle
    <2>2. Group!Idle /\ failed = 0 => \A l \in Group!Level, m \in Group!Machine :
                                          l > depth => taken[l][m] = None
      BY <1>1 DEF GroupWhole, GroupAt, Group!Idle
    <2> QED BY <2>1, <2>2 DEF Group!GroupIsWhole
  <1>3. ASSUME Group!Idle, failed = 0, NEW n \in Group!Machine, NEW m \in Group!Machine
        PROVE  state[n].heard[m] <= state[m].said
    <2>1. ~GroupAt("destroy") /\ ~GroupAt("revert")
      BY <1>3 DEF Group!Idle, GroupAt
    <2>2. CASE talk = "none"
      BY <1>1, <1>3, <2>1, <2>2 DEF GroupQuiet, GroupFits
    <2>3. CASE talk = "upwards" /\ n < m
      BY <1>1, <1>3, <2>1, <2>3 DEF GroupUpFits
    <2>4. CASE talk = "upwards" /\ n >= m
      <3>1. state[n].heard[m] = 0
        BY <1>1, <2>4 DEF GroupUp
      <3>2. state[m].said \in 0 .. MaxSaid
        BY <1>1 DEF Group!TypeOK, Group!State
      <3> QED BY <3>1, <3>2
    <2>5. n < m \/ n >= m
      BY DEF Group!Machine
    <2> QED BY <1>1, <2>2, <2>3, <2>4, <2>5 DEF Group!TypeOK
  <1> QED BY <1>1, <1>2, <1>3 DEF Group!OneCut

\* Groups of snapshots (core/machine.py), of any number of machines, nested however deep:
\* whichever commands fail, a group that exists has all of its snapshots; while none fails,
\* nobody has heard what was never said, if the machines are quiet during methods or only
\* talk to those before them; and quiet machines are back where create() found them, whatever
\* failed in groups inside.
THEOREM GroupStaysOne == Spec => GroupIsOne
  <1> DEFINE IInv == part = "group" => GroupIInv
  <1>1. Init => IInv
    BY PartsAssumption, GroupInit DEF Init
  <1>2. IInv /\ [Next]_vars => IInv'
    BY PartsAssumption, PartStays, GroupSteps, GroupNext
  <1>3. IInv => (part = "group" => Group!OneCut /\ Group!GroupIsWhole)
    BY PartsAssumption, GroupHolds
  <1>4. IInv /\ [Next]_vars => [part = "group" => Group!AllAsBefore]_group
    BY PartsAssumption, GroupSteps, GroupNext
  <1> QED BY <1>1, <1>2, <1>3, <1>4, PTL DEF Spec, GroupIsOne

-----------------------------------------------------------------------------
(* FileTransfer                                                            *)

Effects ==
    {"mktemp", "append", "cut archive", "gunzip", "rm", "cut", "put", "pack", "write"} \X Nat

\* The last call's ith temporary file.
NoTemp(i) == <<calls, i>> \notin DOMAIN temps
TempIs(i, content) == <<calls, i>> \in DOMAIN temps /\ temps[<<calls, i>>] = content

TempsGood ==
    /\ DOMAIN temps \subseteq (1 .. calls) \X {1, 2}
    /\ \A t \in DOMAIN temps : temps[t] \in 0 .. Chunks

\* What is left of a call are the last effects of its plan, and q of them are done.
TransferLeft(plan, q) ==
    /\ q = Len(plan) - Len(effects) /\ q >= 0
    /\ \A k \in 1 .. Len(effects) : effects[k] = plan[q + k]

\* What each method has done with the first q effects of its plan.
UploadDid(q) ==
    /\ q <= 1 \/ q >= Chunks + 5 => NoTemp(2)
    /\ q = 0 \/ q = Chunks + 6 + 2 * NumFiles => NoTemp(1)
    /\ 1 <= q /\ q <= Chunks + 3 => TempIs(1, 0)
    /\ Chunks + 4 <= q /\ q <= Chunks + 5 + 2 * NumFiles => TempIs(1, Chunks)
    /\ 2 <= q /\ q <= Chunks + 2 => TempIs(2, q - 2)
    /\ Chunks + 3 <= q /\ q <= Chunks + 4 => TempIs(2, Chunks)
    /\ \A f \in Transfer!Files : q >= Chunks + 5 + 2 * f => remote[f] = calls

UploadSingleDid(f, q) ==
    /\ NoTemp(2)
    /\ q = 0 \/ q = Chunks + 4 => NoTemp(1)
    /\ 1 <= q /\ q <= Chunks + 1 => TempIs(1, q - 1)
    /\ Chunks + 2 <= q /\ q <= Chunks + 3 => TempIs(1, Chunks)
    /\ q >= Chunks + 3 => remote[f] = calls

DownloadDid(q) ==
    /\ NoTemp(2)
    /\ q = 0 \/ q >= NumFiles + 2 => NoTemp(1)
    /\ 1 <= q /\ q <= NumFiles + 1 => TempIs(1, 0)
    /\ \A f \in Transfer!Files : q >= f + 1 => archive[f] = remote[f]
    /\ \A f \in Transfer!Files : q >= NumFiles + 2 + f => local[f] = remote[f]

DownloadSingleDid(f, q) ==
    /\ NoTemp(1) /\ NoTemp(2)
    /\ q >= 1 => archive[f] = remote[f]
    /\ q >= 2 => local[f] = remote[f]

Uploads ==
    /\ way = "up" /\ moved = Transfer!Files
    /\ \E q \in Nat : TransferLeft(Transfer!Upload, q) /\ UploadDid(q)

UploadsSingle(f) ==
    /\ way = "up" /\ moved = {f}
    /\ \E q \in Nat : TransferLeft(Transfer!UploadSingle(f), q) /\ UploadSingleDid(f, q)

Downloads ==
    /\ way = "down" /\ moved = Transfer!Files
    /\ \E q \in Nat : TransferLeft(Transfer!Download, q) /\ DownloadDid(q)

DownloadsSingle(f) ==
    /\ way = "down" /\ moved = {f}
    /\ \E q \in Nat : TransferLeft(Transfer!DownloadSingle(f), q) /\ DownloadSingleDid(f, q)

TransferUnderWay ==
    Uploads \/ Downloads \/ \E f \in Transfer!Files : UploadsSingle(f) \/ DownloadsSingle(f)

TransferIInv ==
    /\ Transfer!TypeOK /\ Transfer!ReturnedMeansMoved
    /\ effects \in Seq(Effects)
    /\ TempsGood
    /\ result # "working" => effects = <<>>
    /\ result = "working" => calls > 0 /\ TransferUnderWay

\* The effects, as names: what one is made of does not matter where it is in a plan.
MktempOf(t) == <<"mktemp", t>>
AppendTo(t) == <<"append", t>>
RmOf(t) == <<"rm", t>>
CutArchive == <<"cut archive", 1>>
Gunzip == <<"gunzip", 1>>
PackOf(f) == <<"pack", f>>
WriteOf(f) == <<"write", f>>

LEMMA EffectsHas ==
    ASSUME NEW b \in Nat
    PROVE  /\ MktempOf(b) \in Effects /\ AppendTo(b) \in Effects /\ RmOf(b) \in Effects
           /\ Transfer!Cut(b) \in Effects /\ Transfer!Put(b) \in Effects
           /\ PackOf(b) \in Effects /\ WriteOf(b) \in Effects
           /\ <<"cut archive", b>> \in Effects /\ <<"gunzip", b>> \in Effects
  BY DEF Effects, MktempOf, AppendTo, RmOf, Transfer!Cut, Transfer!Put, PackOf, WriteOf

LEMMA ArchiveEffects == CutArchive \in Effects /\ Gunzip \in Effects
  <1>1. 1 \in Nat
    OBVIOUS
  <1> QED BY <1>1, EffectsHas DEF CutArchive, Gunzip

LEMMA OneEffect ==
    ASSUME NEW S, NEW e \in S
    PROVE  <<e>> \in Seq(S) /\ Len(<<e>>) = 1 /\ <<e>>[1] = e
  OBVIOUS

\* The effects of write_file() ...
WriteFileIs(plan, t, open, fill) ==
    /\ plan \in Seq(Effects) /\ Len(plan) = Chunks + 4
    /\ plan[1] = MktempOf(t)
    /\ \A k \in 2 .. Chunks + 1 : plan[k] = AppendTo(t)
    /\ plan[Chunks + 2] = open /\ plan[Chunks + 3] = fill
    /\ plan[Chunks + 4] = RmOf(t)

LEMMA WriteFilePlan ==
    ASSUME Transfer!Assumptions, NEW t \in Nat, NEW open \in Effects, NEW fill \in Effects
    PROVE  WriteFileIs(Transfer!WriteFile(t, <<open>>, <<fill>>), t, open, fill)
  <1> DEFINE a == <<MktempOf(t)>>
             b == [i \in 1 .. Chunks |-> AppendTo(t)]
             d == <<RmOf(t)>>
             ab == a \o b
             abo == ab \o <<open>>
             abof == abo \o <<fill>>
             plan == abof \o d
  <1>1. Chunks \in Nat \ {0}
    BY DEF Transfer!Assumptions
  <1>2. MktempOf(t) \in Effects /\ AppendTo(t) \in Effects /\ RmOf(t) \in Effects
    BY EffectsHas
  <1>3. /\ a \in Seq(Effects) /\ Len(a) = 1 /\ a[1] = MktempOf(t)
        /\ d \in Seq(Effects) /\ Len(d) = 1 /\ d[1] = RmOf(t)
        /\ <<open>> \in Seq(Effects) /\ Len(<<open>>) = 1 /\ <<open>>[1] = open
        /\ <<fill>> \in Seq(Effects) /\ Len(<<fill>>) = 1 /\ <<fill>>[1] = fill
    BY <1>2, OneEffect
  <1>4. b \in Seq(Effects) /\ Len(b) = Chunks /\ \A i \in 1 .. Chunks : b[i] = AppendTo(t)
    BY <1>1, <1>2
  <1>5. Transfer!WriteFile(t, <<open>>, <<fill>>) = plan
    BY DEF Transfer!WriteFile, MktempOf, AppendTo, RmOf
  <1> HIDE DEF a, b, d
  <1>6. /\ ab \in Seq(Effects) /\ Len(ab) = Chunks + 1
        /\ ab[1] = MktempOf(t) /\ \A k \in 2 .. Chunks + 1 : ab[k] = AppendTo(t)
    <2>1. /\ ab \in Seq(Effects) /\ Len(ab) = 1 + Chunks
          /\ \A i \in 1 .. 1 + Chunks : ab[i] = IF i <= 1 THEN a[i] ELSE b[i - 1]
      <3>1. /\ ab \in Seq(Effects) /\ Len(ab) = Len(a) + Len(b)
            /\ \A i \in 1 .. Len(a) + Len(b) :
                   ab[i] = IF i <= Len(a) THEN a[i] ELSE b[i - Len(a)]
        BY <1>3, <1>4, ConcatProperties
      <3> HIDE DEF ab
      <3> QED BY <1>3, <1>4, <3>1
    <2> HIDE DEF ab
    <2> QED BY <1>1, <1>3, <1>4, <2>1
  <1> HIDE DEF ab
  <1>7. /\ abo \in Seq(Effects) /\ Len(abo) = Chunks + 2
        /\ abo[1] = MktempOf(t) /\ \A k \in 2 .. Chunks + 1 : abo[k] = AppendTo(t)
        /\ abo[Chunks + 2] = open
    <2>1. /\ abo \in Seq(Effects) /\ Len(abo) = Chunks + 1 + 1
          /\ \A i \in 1 .. Chunks + 1 + 1 :
                 abo[i] = IF i <= Chunks + 1 THEN ab[i] ELSE <<open>>[i - (Chunks + 1)]
      <3>1. /\ abo \in Seq(Effects) /\ Len(abo) = Len(ab) + Len(<<open>>)
            /\ \A i \in 1 .. Len(ab) + Len(<<open>>) :
                   abo[i] = IF i <= Len(ab) THEN ab[i] ELSE <<open>>[i - Len(ab)]
        BY <1>3, <1>6, ConcatProperties
      <3> HIDE DEF abo
      <3> QED BY <1>3, <1>6, <3>1
    <2> HIDE DEF abo
    <2>2. ASSUME NEW i \in Nat, i = Chunks + 2
          PROVE  abo[i] = open
      <3>1. i \in 1 .. Chunks + 1 + 1 /\ ~(i <= Chunks + 1) /\ i - (Chunks + 1) = 1
        BY <1>1, <2>2
      <3> QED BY <1>3, <2>1, <3>1
    <2>3. abo[Chunks + 2] = open
      BY <1>1, <2>2
    <2>4. \A i \in 1 .. Chunks + 1 : abo[i] = ab[i]
      BY <1>1, <2>1
    <2> QED BY <1>1, <1>6, <2>1, <2>3, <2>4
  <1> HIDE DEF abo
  <1>8. /\ abof \in Seq(Effects) /\ Len(abof) = Chunks + 3
        /\ abof[1] = MktempOf(t) /\ \A k \in 2 .. Chunks + 1 : abof[k] = AppendTo(t)
        /\ abof[Chunks + 2] = open /\ abof[Chunks + 3] = fill
    <2>1. /\ abof \in Seq(Effects) /\ Len(abof) = Chunks + 2 + 1
          /\ \A i \in 1 .. Chunks + 2 + 1 :
                 abof[i] = IF i <= Chunks + 2 THEN abo[i] ELSE <<fill>>[i - (Chunks + 2)]
      <3>1. /\ abof \in Seq(Effects) /\ Len(abof) = Len(abo) + Len(<<fill>>)
            /\ \A i \in 1 .. Len(abo) + Len(<<fill>>) :
                   abof[i] = IF i <= Len(abo) THEN abo[i] ELSE <<fill>>[i - Len(abo)]
        BY <1>3, <1>7, ConcatProperties
      <3> HIDE DEF abof
      <3> QED BY <1>3, <1>7, <3>1
    <2> HIDE DEF abof
    <2> QED BY <1>1, <1>3, <1>7, <2>1
  <1> HIDE DEF abof
  <1>9. /\ plan \in Seq(Effects) /\ Len(plan) = Chunks + 4
        /\ plan[1] = MktempOf(t) /\ \A k \in 2 .. Chunks + 1 : plan[k] = AppendTo(t)
        /\ plan[Chunks + 2] = open /\ plan[Chunks + 3] = fill
        /\ plan[Chunks + 4] = RmOf(t)
    <2>1. /\ plan \in Seq(Effects) /\ Len(plan) = Chunks + 3 + 1
          /\ \A i \in 1 .. Chunks + 3 + 1 :
                 plan[i] = IF i <= Chunks + 3 THEN abof[i] ELSE d[i - (Chunks + 3)]
      <3>1. /\ plan \in Seq(Effects) /\ Len(plan) = Len(abof) + Len(d)
            /\ \A i \in 1 .. Len(abof) + Len(d) :
                   plan[i] = IF i <= Len(abof) THEN abof[i] ELSE d[i - Len(abof)]
        BY <1>3, <1>8, ConcatProperties
      <3> HIDE DEF plan
      <3> QED BY <1>3, <1>8, <3>1
    <2> HIDE DEF plan
    <2> QED BY <1>1, <1>3, <1>8, <2>1
  <1> QED BY <1>5, <1>9 DEF WriteFileIs

\* ... of upload() ...
LEMMA UnpackPlan ==
    ASSUME Transfer!Assumptions
    PROVE  LET u == Transfer!Unpack
           IN  /\ u \in Seq(Effects) /\ Len(u) = 2 * NumFiles
               /\ \A k \in 1 .. 2 * NumFiles : \E f \in Transfer!Files :
                      \/ k = 2 * f - 1 /\ u[k] = Transfer!Cut(f)
                      \/ k = 2 * f /\ u[k] = Transfer!Put(f)
  <1> DEFINE u == Transfer!Unpack
  <1>1. NumFiles \in Nat /\ 2 * NumFiles \in Nat
    BY DEF Transfer!Assumptions
  <1>2. /\ DOMAIN u = 1 .. 2 * NumFiles
        /\ \A k \in 1 .. 2 * NumFiles :
               u[k] = IF k % 2 = 1 THEN Transfer!Cut((k + 1) \div 2)
                      ELSE Transfer!Put((k + 1) \div 2)
        /\ u = [k \in 1 .. 2 * NumFiles |-> u[k]]
    BY DEF Transfer!Unpack
  <1> HIDE DEF u
  <1>3. \A k \in 1 .. 2 * NumFiles :
            /\ (k + 1) \div 2 \in 1 .. NumFiles /\ (k + 1) \div 2 \in Nat
            /\ k % 2 = 1 => k = 2 * ((k + 1) \div 2) - 1
            /\ k % 2 # 1 => k = 2 * ((k + 1) \div 2)
    BY <1>1
  <1>4. \A k \in 1 .. 2 * NumFiles : u[k] \in Effects
    BY <1>2, <1>3, EffectsHas
  <1>5. u \in Seq(Effects) /\ Len(u) = 2 * NumFiles
    BY <1>1, <1>2, <1>4
  <1>6. ASSUME NEW k \in 1 .. 2 * NumFiles
        PROVE  \E f \in Transfer!Files : \/ k = 2 * f - 1 /\ u[k] = Transfer!Cut(f)
                                         \/ k = 2 * f /\ u[k] = Transfer!Put(f)
    BY <1>2, <1>3 DEF Transfer!Files
  <1> QED BY <1>5, <1>6 DEF u

LEMMA UploadPlan ==
    ASSUME Transfer!Assumptions
    PROVE  LET plan == Transfer!Upload
           IN  /\ plan \in Seq(Effects) /\ Len(plan) = Chunks + 6 + 2 * NumFiles
               /\ plan[1] = MktempOf(1) /\ plan[2] = MktempOf(2)
               /\ \A k \in 3 .. Chunks + 2 : plan[k] = AppendTo(2)
               /\ plan[Chunks + 3] = CutArchive
               /\ plan[Chunks + 4] = Gunzip /\ plan[Chunks + 5] = RmOf(2)
               /\ \A k \in Chunks + 6 .. Chunks + 5 + 2 * NumFiles :
                      \E f \in Transfer!Files :
                          \/ k = Chunks + 4 + 2 * f /\ plan[k] = Transfer!Cut(f)
                          \/ k = Chunks + 5 + 2 * f /\ plan[k] = Transfer!Put(f)
               /\ plan[Chunks + 6 + 2 * NumFiles] = RmOf(1)
  <1> DEFINE a == <<MktempOf(1)>>
             w == Transfer!WriteFile(2, <<CutArchive>>, <<Gunzip>>)
             u == Transfer!Unpack
             d == <<RmOf(1)>>
             aw == a \o w
             awu == aw \o u
             plan == awu \o d
  <1>1. Chunks \in Nat \ {0} /\ NumFiles \in Nat /\ 2 * NumFiles \in Nat /\ 1 \in Nat /\ 2 \in Nat
    BY DEF Transfer!Assumptions
  <1>2. MktempOf(1) \in Effects /\ RmOf(1) \in Effects
    BY <1>1, EffectsHas
  <1>3. /\ a \in Seq(Effects) /\ Len(a) = 1 /\ a[1] = MktempOf(1)
        /\ d \in Seq(Effects) /\ Len(d) = 1 /\ d[1] = RmOf(1)
    BY <1>2, OneEffect
  <1>4. /\ w \in Seq(Effects) /\ Len(w) = Chunks + 4
        /\ w[1] = MktempOf(2)
        /\ \A k \in 2 .. Chunks + 1 : w[k] = AppendTo(2)
        /\ w[Chunks + 2] = CutArchive /\ w[Chunks + 3] = Gunzip
        /\ w[Chunks + 4] = RmOf(2)
    <2>1. WriteFileIs(w, 2, CutArchive, Gunzip)
      BY <1>1, ArchiveEffects, WriteFilePlan, Zenon
    <2> HIDE DEF w
    <2> QED BY <2>1 DEF WriteFileIs
  <1>5. /\ u \in Seq(Effects) /\ Len(u) = 2 * NumFiles
        /\ \A k \in 1 .. 2 * NumFiles : \E f \in Transfer!Files :
               \/ k = 2 * f - 1 /\ u[k] = Transfer!Cut(f)
               \/ k = 2 * f /\ u[k] = Transfer!Put(f)
    BY UnpackPlan
  <1>6. Transfer!Upload = plan
    BY DEF Transfer!Upload, MktempOf, RmOf, CutArchive, Gunzip
  <1> HIDE DEF a, w, u, d
  <1>7. /\ aw \in Seq(Effects) /\ Len(aw) = Chunks + 5
        /\ aw[1] = MktempOf(1)
        /\ \A k \in 2 .. Chunks + 5 : aw[k] = w[k - 1]
    <2>1. /\ aw \in Seq(Effects) /\ Len(aw) = 1 + (Chunks + 4)
          /\ \A i \in 1 .. 1 + (Chunks + 4) : aw[i] = IF i <= 1 THEN a[i] ELSE w[i - 1]
      <3>1. /\ aw \in Seq(Effects) /\ Len(aw) = Len(a) + Len(w)
            /\ \A i \in 1 .. Len(a) + Len(w) :
                   aw[i] = IF i <= Len(a) THEN a[i] ELSE w[i - Len(a)]
        BY <1>3, <1>4, ConcatProperties
      <3> HIDE DEF aw
      <3> QED BY <1>3, <1>4, <3>1
    <2> HIDE DEF aw
    <2> QED BY <1>1, <1>3, <2>1
  <1> HIDE DEF aw
  <1>8. /\ aw[2] = MktempOf(2) /\ \A k \in 3 .. Chunks + 2 : aw[k] = AppendTo(2)
        /\ aw[Chunks + 3] = CutArchive
        /\ aw[Chunks + 4] = Gunzip /\ aw[Chunks + 5] = RmOf(2)
    <2>1. aw[2] = w[1] /\ \A k \in 3 .. Chunks + 2 : aw[k] = w[k - 1] /\ k - 1 \in 2 .. Chunks + 1
      BY <1>1, <1>7
    <2>2. ASSUME NEW i \in Nat, i = Chunks + 3 PROVE aw[i] = CutArchive
      <3>1. i \in 2 .. Chunks + 5 /\ i - 1 = Chunks + 2
        BY <1>1, <2>2
      <3> QED BY <1>4, <1>7, <3>1
    <2>3. ASSUME NEW i \in Nat, i = Chunks + 4 PROVE aw[i] = Gunzip
      <3>1. i \in 2 .. Chunks + 5 /\ i - 1 = Chunks + 3
        BY <1>1, <2>3
      <3> QED BY <1>4, <1>7, <3>1
    <2>4. ASSUME NEW i \in Nat, i = Chunks + 5 PROVE aw[i] = RmOf(2)
      <3>1. i \in 2 .. Chunks + 5 /\ i - 1 = Chunks + 4
        BY <1>1, <2>4
      <3> QED BY <1>4, <1>7, <3>1
    <2>5. Chunks + 3 \in Nat /\ Chunks + 4 \in Nat /\ Chunks + 5 \in Nat
      BY <1>1
    <2> QED BY <1>4, <2>1, <2>2, <2>3, <2>4, <2>5
  <1>9. /\ awu \in Seq(Effects) /\ Len(awu) = Chunks + 5 + 2 * NumFiles
        /\ \A k \in 1 .. Chunks + 5 : awu[k] = aw[k]
        /\ \A k \in Chunks + 6 .. Chunks + 5 + 2 * NumFiles : awu[k] = u[k - (Chunks + 5)]
    <2>1. /\ awu \in Seq(Effects) /\ Len(awu) = Chunks + 5 + 2 * NumFiles
          /\ \A i \in 1 .. Chunks + 5 + 2 * NumFiles :
                 awu[i] = IF i <= Chunks + 5 THEN aw[i] ELSE u[i - (Chunks + 5)]
      <3>1. /\ awu \in Seq(Effects) /\ Len(awu) = Len(aw) + Len(u)
            /\ \A i \in 1 .. Len(aw) + Len(u) :
                   awu[i] = IF i <= Len(aw) THEN aw[i] ELSE u[i - Len(aw)]
        BY <1>5, <1>7, ConcatProperties
      <3> HIDE DEF awu
      <3> QED BY <1>5, <1>7, <3>1
    <2> HIDE DEF awu
    <2> QED BY <1>1, <2>1
  <1> HIDE DEF awu
  <1>10. /\ plan \in Seq(Effects) /\ Len(plan) = Chunks + 6 + 2 * NumFiles
         /\ \A k \in 1 .. Chunks + 5 + 2 * NumFiles : plan[k] = awu[k]
         /\ plan[Chunks + 6 + 2 * NumFiles] = RmOf(1)
    <2>1. /\ plan \in Seq(Effects) /\ Len(plan) = Chunks + 5 + 2 * NumFiles + 1
          /\ \A i \in 1 .. Chunks + 5 + 2 * NumFiles + 1 :
                 plan[i] = IF i <= Chunks + 5 + 2 * NumFiles THEN awu[i]
                           ELSE d[i - (Chunks + 5 + 2 * NumFiles)]
      <3>1. /\ plan \in Seq(Effects) /\ Len(plan) = Len(awu) + Len(d)
            /\ \A i \in 1 .. Len(awu) + Len(d) :
                   plan[i] = IF i <= Len(awu) THEN awu[i] ELSE d[i - Len(awu)]
        BY <1>3, <1>9, ConcatProperties
      <3> HIDE DEF plan
      <3> QED BY <1>3, <1>9, <3>1
    <2> HIDE DEF plan
    <2> QED BY <1>1, <1>3, <2>1
  <1> HIDE DEF plan
  <1>11. \A k \in 1 .. Chunks + 5 : plan[k] = aw[k]
    BY <1>1, <1>9, <1>10
  <1>12. ASSUME NEW k \in Chunks + 6 .. Chunks + 5 + 2 * NumFiles
         PROVE  \E f \in Transfer!Files :
                    \/ k = Chunks + 4 + 2 * f /\ plan[k] = Transfer!Cut(f)
                    \/ k = Chunks + 5 + 2 * f /\ plan[k] = Transfer!Put(f)
    <2>1. plan[k] = u[k - (Chunks + 5)] /\ k - (Chunks + 5) \in 1 .. 2 * NumFiles
      BY <1>1, <1>9, <1>10
    <2>2. PICK f \in Transfer!Files :
               \/ k - (Chunks + 5) = 2 * f - 1 /\ u[k - (Chunks + 5)] = Transfer!Cut(f)
               \/ k - (Chunks + 5) = 2 * f /\ u[k - (Chunks + 5)] = Transfer!Put(f)
      BY <1>5, <2>1
    <2> QED BY <1>1, <2>1, <2>2 DEF Transfer!Files
  <1>13. /\ plan[1] = MktempOf(1) /\ plan[2] = MktempOf(2)
         /\ \A k \in 3 .. Chunks + 2 : plan[k] = AppendTo(2)
         /\ plan[Chunks + 3] = CutArchive
         /\ plan[Chunks + 4] = Gunzip /\ plan[Chunks + 5] = RmOf(2)
    BY <1>1, <1>7, <1>8, <1>11
  <1> QED BY <1>6, <1>10, <1>12, <1>13

\* ... and of the others.
LEMMA DownloadPlan ==
    ASSUME Transfer!Assumptions
    PROVE  LET plan == Transfer!Download
           IN  /\ plan \in Seq(Effects) /\ Len(plan) = 2 * NumFiles + 2
               /\ plan[1] = MktempOf(1)
               /\ \A f \in Transfer!Files : plan[f + 1] = PackOf(f)
               /\ plan[NumFiles + 2] = RmOf(1)
               /\ \A f \in Transfer!Files : plan[NumFiles + 2 + f] = WriteOf(f)
  <1> DEFINE a == <<MktempOf(1)>>
             p == [f \in Transfer!Files |-> PackOf(f)]
             d == <<RmOf(1)>>
             w == [f \in Transfer!Files |-> WriteOf(f)]
             ap == a \o p
             apd == ap \o d
             plan == apd \o w
  <1>1. NumFiles \in Nat /\ 1 \in Nat
    BY DEF Transfer!Assumptions
  <1>2. /\ MktempOf(1) \in Effects /\ RmOf(1) \in Effects
        /\ \A f \in 1 .. NumFiles : PackOf(f) \in Effects /\ WriteOf(f) \in Effects
    <2>1. MktempOf(1) \in Effects /\ RmOf(1) \in Effects
      BY <1>1, EffectsHas
    <2>2. \A f \in 1 .. NumFiles : PackOf(f) \in Effects /\ WriteOf(f) \in Effects
      <3> TAKE f \in 1 .. NumFiles
      <3>1. f \in Nat
        BY <1>1
      <3> QED BY <3>1, EffectsHas
    <2> QED BY <2>1, <2>2
  <1>3. /\ a \in Seq(Effects) /\ Len(a) = 1 /\ a[1] = MktempOf(1)
        /\ d \in Seq(Effects) /\ Len(d) = 1 /\ d[1] = RmOf(1)
    BY <1>2, OneEffect
  <1>4. /\ p \in Seq(Effects) /\ Len(p) = NumFiles
        /\ \A f \in 1 .. NumFiles : p[f] = PackOf(f)
    BY <1>1, <1>2 DEF Transfer!Files
  <1>5. /\ w \in Seq(Effects) /\ Len(w) = NumFiles
        /\ \A f \in 1 .. NumFiles : w[f] = WriteOf(f)
    BY <1>1, <1>2 DEF Transfer!Files
  <1>6. Transfer!Download = plan
    BY DEF Transfer!Download, MktempOf, PackOf, RmOf, WriteOf
  <1> HIDE DEF a, p, d, w
  <1>7. /\ ap \in Seq(Effects) /\ Len(ap) = NumFiles + 1
        /\ ap[1] = MktempOf(1) /\ \A f \in 1 .. NumFiles : ap[f + 1] = PackOf(f)
    <2>1. /\ ap \in Seq(Effects) /\ Len(ap) = 1 + NumFiles
          /\ \A i \in 1 .. 1 + NumFiles : ap[i] = IF i <= 1 THEN a[i] ELSE p[i - 1]
      <3>1. /\ ap \in Seq(Effects) /\ Len(ap) = Len(a) + Len(p)
            /\ \A i \in 1 .. Len(a) + Len(p) :
                   ap[i] = IF i <= Len(a) THEN a[i] ELSE p[i - Len(a)]
        BY <1>3, <1>4, ConcatProperties
      <3> HIDE DEF ap
      <3> QED BY <1>3, <1>4, <3>1
    <2> HIDE DEF ap
    <2>2. \A f \in 1 .. NumFiles : ap[f + 1] = p[f]
      <3>1. \A f \in 1 .. NumFiles : f + 1 \in 1 .. 1 + NumFiles /\ ~(f + 1 <= 1) /\ f + 1 - 1 = f
        BY <1>1
      <3>2. \A f \in 1 .. NumFiles : ap[f + 1] = p[f + 1 - 1]
        BY <2>1, <3>1
      <3> QED BY <3>1, <3>2
    <2> QED BY <1>1, <1>3, <1>4, <2>1, <2>2
  <1> HIDE DEF ap
  <1>8. /\ apd \in Seq(Effects) /\ Len(apd) = NumFiles + 2
        /\ \A k \in 1 .. NumFiles + 1 : apd[k] = ap[k]
        /\ apd[NumFiles + 2] = RmOf(1)
    <2>1. /\ apd \in Seq(Effects) /\ Len(apd) = NumFiles + 1 + 1
          /\ \A i \in 1 .. NumFiles + 1 + 1 :
                 apd[i] = IF i <= NumFiles + 1 THEN ap[i] ELSE d[i - (NumFiles + 1)]
      <3>1. /\ apd \in Seq(Effects) /\ Len(apd) = Len(ap) + Len(d)
            /\ \A i \in 1 .. Len(ap) + Len(d) :
                   apd[i] = IF i <= Len(ap) THEN ap[i] ELSE d[i - Len(ap)]
        BY <1>3, <1>7, ConcatProperties
      <3> HIDE DEF apd
      <3> QED BY <1>3, <1>7, <3>1
    <2> HIDE DEF apd
    <2>2. ASSUME NEW i \in Nat, i = NumFiles + 2
          PROVE  apd[i] = RmOf(1)
      <3>1. i \in 1 .. NumFiles + 1 + 1 /\ ~(i <= NumFiles + 1) /\ i - (NumFiles + 1) = 1
        BY <1>1, <2>2
      <3> QED BY <1>3, <2>1, <3>1
    <2>3. NumFiles + 2 \in Nat
      BY <1>1
    <2> QED BY <1>1, <2>1, <2>2, <2>3
  <1> HIDE DEF apd
  <1>9. /\ plan \in Seq(Effects) /\ Len(plan) = 2 * NumFiles + 2
        /\ \A k \in 1 .. NumFiles + 2 : plan[k] = apd[k]
        /\ \A f \in 1 .. NumFiles : plan[NumFiles + 2 + f] = WriteOf(f)
    <2>1. /\ plan \in Seq(Effects) /\ Len(plan) = NumFiles + 2 + NumFiles
          /\ \A i \in 1 .. NumFiles + 2 + NumFiles :
                 plan[i] = IF i <= NumFiles + 2 THEN apd[i] ELSE w[i - (NumFiles + 2)]
      <3>1. /\ plan \in Seq(Effects) /\ Len(plan) = Len(apd) + Len(w)
            /\ \A i \in 1 .. Len(apd) + Len(w) :
                   plan[i] = IF i <= Len(apd) THEN apd[i] ELSE w[i - Len(apd)]
        BY <1>5, <1>8, ConcatProperties
      <3> HIDE DEF plan
      <3> QED BY <1>5, <1>8, <3>1
    <2> HIDE DEF plan
    <2>2. \A f \in 1 .. NumFiles : plan[NumFiles + 2 + f] = w[f]
      <3>1. \A f, i \in Nat : f \in 1 .. NumFiles /\ i = NumFiles + 2 + f => plan[i] = w[f]
        <4> TAKE f, i \in Nat
        <4> SUFFICES ASSUME f \in 1 .. NumFiles, i = NumFiles + 2 + f PROVE plan[i] = w[f]
          OBVIOUS
        <4>1. i \in 1 .. NumFiles + 2 + NumFiles /\ ~(i <= NumFiles + 2) /\ i - (NumFiles + 2) = f
          BY <1>1
        <4>2. plan[i] = w[i - (NumFiles + 2)]
          BY <2>1, <4>1
        <4> QED BY <4>1, <4>2
      <3>2. \A f \in 1 .. NumFiles : f \in Nat /\ NumFiles + 2 + f \in Nat
        BY <1>1
      <3> QED BY <3>1, <3>2
    <2> QED BY <1>1, <1>5, <2>1, <2>2
  <1> HIDE DEF plan
  <1>10. /\ plan[1] = MktempOf(1) /\ plan[NumFiles + 2] = RmOf(1)
         /\ \A f \in 1 .. NumFiles : plan[f + 1] = PackOf(f)
    BY <1>1, <1>7, <1>8, <1>9
  <1> QED BY <1>6, <1>9, <1>10 DEF Transfer!Files

LEMMA SinglePlans ==
    ASSUME Transfer!Assumptions, NEW f \in Transfer!Files
    PROVE  /\ LET plan == Transfer!UploadSingle(f)
              IN  /\ plan \in Seq(Effects) /\ Len(plan) = Chunks + 4
                  /\ plan[1] = MktempOf(1)
                  /\ \A k \in 2 .. Chunks + 1 : plan[k] = AppendTo(1)
                  /\ plan[Chunks + 2] = Transfer!Cut(f) /\ plan[Chunks + 3] = Transfer!Put(f)
                  /\ plan[Chunks + 4] = RmOf(1)
           /\ LET plan == Transfer!DownloadSingle(f)
              IN  /\ plan \in Seq(Effects) /\ Len(plan) = 2
                  /\ plan[1] = PackOf(f) /\ plan[2] = WriteOf(f)
  <1>1. f \in Nat /\ 1 \in Nat
    BY DEF Transfer!Files
  <1>2. /\ Transfer!Cut(f) \in Effects /\ Transfer!Put(f) \in Effects
        /\ PackOf(f) \in Effects /\ WriteOf(f) \in Effects
    BY <1>1, EffectsHas
  <1>3. LET plan == Transfer!UploadSingle(f)
        IN  /\ plan \in Seq(Effects) /\ Len(plan) = Chunks + 4
            /\ plan[1] = MktempOf(1)
            /\ \A k \in 2 .. Chunks + 1 : plan[k] = AppendTo(1)
            /\ plan[Chunks + 2] = Transfer!Cut(f) /\ plan[Chunks + 3] = Transfer!Put(f)
            /\ plan[Chunks + 4] = RmOf(1)
    <2>1. WriteFileIs(Transfer!UploadSingle(f), 1, Transfer!Cut(f), Transfer!Put(f))
      BY <1>1, <1>2, WriteFilePlan, Zenon DEF Transfer!UploadSingle
    <2> QED BY <2>1 DEF WriteFileIs
  <1>4. LET plan == Transfer!DownloadSingle(f)
        IN  /\ plan \in Seq(Effects) /\ Len(plan) = 2
            /\ plan[1] = PackOf(f) /\ plan[2] = WriteOf(f)
    <2>1. Transfer!DownloadSingle(f) = <<PackOf(f), WriteOf(f)>>
      BY DEF Transfer!DownloadSingle, PackOf, WriteOf
    <2> QED BY <1>2, <2>1
  <1> QED BY <1>3, <1>4

TransferMoves ==
    \/ Transfer!Mktemp \/ Transfer!Append1 \/ Transfer!WriteArchive \/ Transfer!WriteRemote
    \/ Transfer!Rm \/ Transfer!Pack \/ Transfer!WriteLocal

LEMMA TransferSteps ==
    ASSUME [Next]_vars, part = "transfer"
    PROVE  [Transfer!Next]_transfer
  BY DEF vars, Next, Only, SessionStep, DefaultStep, TransferStep, GroupStep, BootStep,
         KVNetStep, DevicesStep, KVModelStep, NetStep

\* What a command's effect does, all of which leave the other temporary files alone.
Rest(b) ==
    /\ UNCHANGED calls
    /\ \A j \in {1, 2} : j # b => /\ NoTemp(j) => NoTemp(j)'
                                  /\ \A c : TempIs(j, c) => TempIs(j, c)'

AllTemps ==
    UNCHANGED calls /\ \A j \in {1, 2} : /\ NoTemp(j) => NoTemp(j)'
                                         /\ \A c : TempIs(j, c) => TempIs(j, c)'

LEMMA TempsWith ==
    ASSUME NEW b, NEW c, UNCHANGED calls, Transfer!With(<<calls, b>>, c)
    PROVE  /\ TempIs(b, c)' /\ Rest(b)
           /\ DOMAIN temps' = DOMAIN temps \cup {<<calls, b>>}
           /\ \A t \in DOMAIN temps' : temps'[t] = c \/ (t \in DOMAIN temps /\ temps'[t] = temps[t])
  <1>1. /\ DOMAIN temps' = DOMAIN temps \cup {<<calls, b>>}
        /\ \A t \in DOMAIN temps' : temps'[t] = IF t = <<calls, b>> THEN c ELSE temps[t]
        /\ calls' = calls
    BY DEF Transfer!With
  <1>2. TempIs(b, c)'
    BY <1>1 DEF TempIs
  <1>3. \A j : j # b => <<calls, j>> # <<calls, b>>
    OBVIOUS
  <1>4. Rest(b)
    BY <1>1, <1>3 DEF Rest, NoTemp, TempIs
  <1> QED BY <1>1, <1>2, <1>4

LEMMA TempsWithout ==
    ASSUME NEW b, UNCHANGED calls,
           temps' = [u \in DOMAIN temps \ {<<calls, b>>} |-> temps[u]]
    PROVE  /\ NoTemp(b)' /\ Rest(b)
           /\ DOMAIN temps' \subseteq DOMAIN temps
           /\ \A t \in DOMAIN temps' : temps'[t] = temps[t]
  <1>1. /\ DOMAIN temps' = DOMAIN temps \ {<<calls, b>>}
        /\ \A t \in DOMAIN temps' : temps'[t] = temps[t]
        /\ calls' = calls
    OBVIOUS
  <1>2. NoTemp(b)'
    BY <1>1 DEF NoTemp
  <1>3. \A j : j # b => <<calls, j>> # <<calls, b>>
    OBVIOUS
  <1>4. Rest(b)
    BY <1>1, <1>3 DEF Rest, NoTemp, TempIs
  <1> QED BY <1>1, <1>2, <1>4

\* The next effect happens, whatever it is.
Happens(e) == effects # <<>> /\ Head(effects) = e

LEMMA EffectIs ==
    ASSUME TransferMoves, NEW b
    PROVE  /\ Happens(MktempOf(b)) => Transfer!With(<<calls, b>>, 0) /\ UNCHANGED <<remote, local, archive>>
           /\ Happens(AppendTo(b)) =>
                  /\ Transfer!With(<<calls, b>>, temps[<<calls, b>>] + 1)
                  /\ UNCHANGED <<remote, local, archive>>
           /\ Happens(<<"cut archive", b>>) =>
                  Transfer!With(<<calls, b>>, 0) /\ UNCHANGED <<remote, local, archive>>
           /\ Happens(<<"gunzip", b>>) =>
                  Transfer!With(<<calls, b>>, Chunks) /\ UNCHANGED <<remote, local, archive>>
           /\ Happens(RmOf(b)) =>
                  /\ temps' = [u \in DOMAIN temps \ {<<calls, b>>} |-> temps[u]]
                  /\ UNCHANGED <<remote, local, archive>>
           /\ Happens(Transfer!Cut(b)) =>
                  remote' = [remote EXCEPT ![b] = Part] /\ UNCHANGED <<temps, local, archive>>
           /\ Happens(Transfer!Put(b)) =>
                  remote' = [remote EXCEPT ![b] = calls] /\ UNCHANGED <<temps, local, archive>>
           /\ Happens(PackOf(b)) =>
                  /\ archive' = [archive EXCEPT ![b] = remote[b]]
                  /\ UNCHANGED <<temps, remote, local>>
           /\ Happens(WriteOf(b)) =>
                  /\ local' = [local EXCEPT ![b] = archive[b]]
                  /\ UNCHANGED <<temps, remote, archive>>
  <1> DEFINE e == Head(effects)[1]
             i == Head(effects)[2]
  <1>1. /\ e = "mktemp" => Transfer!With(<<calls, i>>, 0) /\ UNCHANGED <<remote, local, archive>>
        /\ e = "append" => /\ Transfer!With(<<calls, i>>, temps[<<calls, i>>] + 1)
                           /\ UNCHANGED <<remote, local, archive>>
        /\ e = "cut archive" =>
               Transfer!With(<<calls, i>>, 0) /\ UNCHANGED <<remote, local, archive>>
        /\ e = "gunzip" =>
               Transfer!With(<<calls, i>>, Chunks) /\ UNCHANGED <<remote, local, archive>>
        /\ e = "rm" => /\ temps' = [u \in DOMAIN temps \ {<<calls, i>>} |-> temps[u]]
                       /\ UNCHANGED <<remote, local, archive>>
        /\ e = "cut" => /\ remote' = [remote EXCEPT ![i] = Part]
                        /\ UNCHANGED <<temps, local, archive>>
        /\ e = "put" => /\ remote' = [remote EXCEPT ![i] = calls]
                        /\ UNCHANGED <<temps, local, archive>>
        /\ e = "pack" => /\ archive' = [archive EXCEPT ![i] = remote[i]]
                         /\ UNCHANGED <<temps, remote, local>>
        /\ e = "write" => /\ local' = [local EXCEPT ![i] = archive[i]]
                          /\ UNCHANGED <<temps, remote, archive>>
    BY DEF TransferMoves, Transfer!Mktemp, Transfer!Append1, Transfer!WriteArchive,
           Transfer!WriteRemote, Transfer!Rm, Transfer!Pack, Transfer!WriteLocal,
           Transfer!Doing, Transfer!Temp, Transfer!Arg
  <1>2. \A a : Happens(<<a, b>>) => e = a /\ i = b
    BY DEF Happens
  <1> HIDE DEF e, i
  <1> QED BY <1>1, <1>2 DEF MktempOf, AppendTo, RmOf, Transfer!Cut, Transfer!Put, PackOf, WriteOf

\* An effect is done: one more of the plan.
LEMMA PlanGoesOn ==
    ASSUME TransferMoves, effects \in Seq(Effects), NEW plan \in Seq(Effects), NEW q \in Nat,
           TransferLeft(plan, q)
    PROVE  /\ q + 1 \in 1 .. Len(plan) /\ Len(plan) \in Nat
           /\ Happens(plan[q + 1]) /\ TransferLeft(plan, q + 1)'
           /\ effects' \in Seq(Effects)
           /\ UNCHANGED <<calls, way, moved, result>>
  <1>1. effects # <<>> /\ effects' = Tail(effects) /\ UNCHANGED <<calls, way, moved, result>>
    BY DEF TransferMoves, Transfer!Mktemp, Transfer!Append1, Transfer!WriteArchive,
           Transfer!WriteRemote, Transfer!Rm, Transfer!Pack, Transfer!WriteLocal,
           Transfer!Doing, Transfer!Goes
  <1>2. Len(effects) \in Nat \ {0} /\ Len(plan) \in Nat /\ Head(effects) = effects[1]
    BY <1>1, EmptySeq, LenProperties
  <1>3. /\ effects' \in Seq(Effects) /\ Len(effects') = Len(effects) - 1
        /\ \A k \in 1 .. Len(effects') : effects'[k] = effects[k + 1]
    BY <1>1, HeadTailProperties
  <1>4. q = Len(plan) - Len(effects) /\ \A k \in 1 .. Len(effects) : effects[k] = plan[q + k]
    BY DEF TransferLeft
  <1>5. q + 1 \in 1 .. Len(plan)
    BY <1>2, <1>4
  <1>6. Happens(plan[q + 1])
    BY <1>1, <1>2, <1>4 DEF Happens
  <1>7. TransferLeft(plan, q + 1)'
    <2>1. q + 1 = Len(plan) - Len(effects') /\ q + 1 >= 0
      BY <1>2, <1>3, <1>4
    <2>2. ASSUME NEW k \in 1 .. Len(effects')
          PROVE  effects'[k] = plan[q + 1 + k]
      <3>1. k + 1 \in 1 .. Len(effects) /\ q + (k + 1) = q + 1 + k
        BY <1>2, <1>3
      <3>2. effects'[k] = effects[k + 1] /\ effects[k + 1] = plan[q + (k + 1)]
        BY <1>3, <1>4, <3>1
      <3> QED BY <3>1, <3>2
    <2> QED BY <2>1, <2>2 DEF TransferLeft
  <1> QED BY <1>1, <1>2, <1>3, <1>5, <1>6, <1>7

LEMMA EffectDoes ==
    ASSUME Transfer!Assumptions, TransferMoves, UNCHANGED calls, calls \in Nat \ {0}, TempsGood
    PROVE  /\ \A b \in {1, 2} : Happens(MktempOf(b)) =>
                  TempIs(b, 0)' /\ Rest(b) /\ TempsGood' /\ UNCHANGED <<remote, local, archive>>
           /\ \A b \in {1, 2}, c \in 0 .. Chunks - 1 :
                  Happens(AppendTo(b)) /\ TempIs(b, c) =>
                      /\ TempIs(b, c + 1)' /\ Rest(b) /\ TempsGood'
                      /\ UNCHANGED <<remote, local, archive>>
           /\ Happens(CutArchive) =>
                  TempIs(1, 0)' /\ Rest(1) /\ TempsGood' /\ UNCHANGED <<remote, local, archive>>
           /\ Happens(Gunzip) =>
                  /\ TempIs(1, Chunks)' /\ Rest(1) /\ TempsGood'
                  /\ UNCHANGED <<remote, local, archive>>
           /\ \A b \in {1, 2} : Happens(RmOf(b)) =>
                  NoTemp(b)' /\ Rest(b) /\ TempsGood' /\ UNCHANGED <<remote, local, archive>>
           /\ \A f : Happens(Transfer!Cut(f)) =>
                  /\ remote' = [remote EXCEPT ![f] = Part]
                  /\ AllTemps /\ TempsGood' /\ UNCHANGED <<local, archive>>
           /\ \A f : Happens(Transfer!Put(f)) =>
                  /\ remote' = [remote EXCEPT ![f] = calls]
                  /\ AllTemps /\ TempsGood' /\ UNCHANGED <<local, archive>>
           /\ \A f : Happens(PackOf(f)) =>
                  /\ archive' = [archive EXCEPT ![f] = remote[f]]
                  /\ AllTemps /\ TempsGood' /\ UNCHANGED <<remote, local>>
           /\ \A f : Happens(WriteOf(f)) =>
                  /\ local' = [local EXCEPT ![f] = archive[f]]
                  /\ AllTemps /\ TempsGood' /\ UNCHANGED <<remote, archive>>
  <1>1. ASSUME NEW b \in {1, 2}, NEW c \in 0 .. Chunks, Transfer!With(<<calls, b>>, c)
        PROVE  TempIs(b, c)' /\ Rest(b) /\ TempsGood'
    <2>1. /\ TempIs(b, c)' /\ Rest(b)
          /\ DOMAIN temps' = DOMAIN temps \cup {<<calls, b>>}
          /\ \A t \in DOMAIN temps' : temps'[t] = c \/ (t \in DOMAIN temps /\ temps'[t] = temps[t])
      BY <1>1, TempsWith
    <2>2. <<calls, b>> \in (1 .. calls) \X {1, 2}
      OBVIOUS
    <2>3. TempsGood'
      BY <2>1, <2>2 DEF TempsGood
    <2> QED BY <2>1, <2>3
  <1>2. UNCHANGED temps => AllTemps /\ TempsGood'
    BY DEF AllTemps, TempsGood, TempIs, NoTemp
  <1>3. 0 \in 0 .. Chunks /\ Chunks \in 0 .. Chunks /\ 1 \in {1, 2}
    BY DEF Transfer!Assumptions
  <1>4. ASSUME NEW b \in {1, 2}, Happens(MktempOf(b))
        PROVE  TempIs(b, 0)' /\ Rest(b) /\ TempsGood' /\ UNCHANGED <<remote, local, archive>>
    BY <1>1, <1>3, <1>4, EffectIs
  <1>5. ASSUME NEW b \in {1, 2}, NEW c \in 0 .. Chunks - 1, Happens(AppendTo(b)), TempIs(b, c)
        PROVE  /\ TempIs(b, c + 1)' /\ Rest(b) /\ TempsGood'
               /\ UNCHANGED <<remote, local, archive>>
    <2>1. temps[<<calls, b>>] = c /\ c + 1 \in 0 .. Chunks
      BY <1>5 DEF TempIs, Transfer!Assumptions
    <2>2. /\ Transfer!With(<<calls, b>>, temps[<<calls, b>>] + 1)
          /\ UNCHANGED <<remote, local, archive>>
      BY <1>5, EffectIs
    <2>3. Transfer!With(<<calls, b>>, c + 1)
      BY <2>1, <2>2
    <2> QED BY <1>1, <2>1, <2>2, <2>3
  <1>6. ASSUME Happens(CutArchive)
        PROVE  /\ TempIs(1, 0)' /\ Rest(1) /\ TempsGood'
               /\ UNCHANGED <<remote, local, archive>>
    <2>1. Transfer!With(<<calls, 1>>, 0) /\ UNCHANGED <<remote, local, archive>>
      BY <1>6, EffectIs DEF CutArchive
    <2> QED BY <1>1, <1>3, <2>1
  <1>7. ASSUME Happens(Gunzip)
        PROVE  /\ TempIs(1, Chunks)' /\ Rest(1) /\ TempsGood'
               /\ UNCHANGED <<remote, local, archive>>
    <2>1. Transfer!With(<<calls, 1>>, Chunks) /\ UNCHANGED <<remote, local, archive>>
      BY <1>7, EffectIs DEF Gunzip
    <2> QED BY <1>1, <1>3, <2>1
  <1>8. ASSUME NEW b \in {1, 2}, Happens(RmOf(b))
        PROVE  NoTemp(b)' /\ Rest(b) /\ TempsGood' /\ UNCHANGED <<remote, local, archive>>
    <2>1. /\ temps' = [u \in DOMAIN temps \ {<<calls, b>>} |-> temps[u]]
          /\ UNCHANGED <<remote, local, archive>>
      BY <1>8, EffectIs
    <2>2. /\ NoTemp(b)' /\ Rest(b) /\ DOMAIN temps' \subseteq DOMAIN temps
          /\ \A t \in DOMAIN temps' : temps'[t] = temps[t]
      BY <2>1, TempsWithout
    <2>3. TempsGood'
      BY <2>2 DEF TempsGood
    <2> QED BY <2>1, <2>2, <2>3
  <1>9. ASSUME NEW f
        PROVE  /\ Happens(Transfer!Cut(f)) =>
                      /\ remote' = [remote EXCEPT ![f] = Part]
                      /\ UNCHANGED temps /\ UNCHANGED <<local, archive>>
               /\ Happens(Transfer!Put(f)) =>
                      /\ remote' = [remote EXCEPT ![f] = calls]
                      /\ UNCHANGED temps /\ UNCHANGED <<local, archive>>
               /\ Happens(PackOf(f)) =>
                      /\ archive' = [archive EXCEPT ![f] = remote[f]]
                      /\ UNCHANGED temps /\ UNCHANGED <<remote, local>>
               /\ Happens(WriteOf(f)) =>
                      /\ local' = [local EXCEPT ![f] = archive[f]]
                      /\ UNCHANGED temps /\ UNCHANGED <<remote, archive>>
    BY EffectIs
  <1> QED BY <1>2, <1>4, <1>5, <1>6, <1>7, <1>8, <1>9

LEMMA UploadGoesOn ==
    ASSUME Transfer!Assumptions, Transfer!TypeOK, TempsGood, effects \in Seq(Effects),
           calls > 0, Uploads, TransferMoves
    PROVE  /\ Uploads' /\ TempsGood' /\ effects' \in Seq(Effects)
           /\ UNCHANGED <<calls, way, moved, result, local, archive>>
           /\ remote' # remote => TempIs(1, Chunks)
           /\ remote' \in [Transfer!Files -> Transfer!Content]
  <1> DEFINE plan == Transfer!Upload
  <1>1. PICK q \in Nat : TransferLeft(plan, q) /\ UploadDid(q)
    BY DEF Uploads
  <1>2. /\ plan \in Seq(Effects) /\ Len(plan) = Chunks + 6 + 2 * NumFiles
        /\ plan[1] = MktempOf(1) /\ plan[2] = MktempOf(2)
        /\ \A k \in 3 .. Chunks + 2 : plan[k] = AppendTo(2)
        /\ plan[Chunks + 3] = CutArchive
        /\ plan[Chunks + 4] = Gunzip /\ plan[Chunks + 5] = RmOf(2)
        /\ \A k \in Chunks + 6 .. Chunks + 5 + 2 * NumFiles :
               \E f \in Transfer!Files :
                   \/ k = Chunks + 4 + 2 * f /\ plan[k] = Transfer!Cut(f)
                   \/ k = Chunks + 5 + 2 * f /\ plan[k] = Transfer!Put(f)
        /\ plan[Chunks + 6 + 2 * NumFiles] = RmOf(1)
    BY UploadPlan
  <1> HIDE DEF plan
  <1>3. /\ q + 1 \in 1 .. Len(plan) /\ Happens(plan[q + 1]) /\ TransferLeft(plan, q + 1)'
        /\ effects' \in Seq(Effects) /\ UNCHANGED <<calls, way, moved, result>>
    BY <1>1, <1>2, PlanGoesOn
  <1>4. /\ Chunks \in Nat \ {0} /\ NumFiles \in Nat /\ calls \in Nat \ {0} /\ MaxCalls \in Nat
        /\ calls \in 0 .. MaxCalls /\ calls \in Transfer!Content /\ Part \in Transfer!Content
        /\ remote \in [Transfer!Files -> Transfer!Content]
        /\ Transfer!Files \subseteq Nat
    BY DEF Transfer!Assumptions, Transfer!TypeOK, Transfer!Content, Transfer!Files
  <1> DEFINE p == q + 1
             Goal == /\ UploadDid(p)' /\ TempsGood' /\ UNCHANGED <<local, archive>>
                     /\ remote' # remote => TempIs(1, Chunks)
                     /\ remote' \in [Transfer!Files -> Transfer!Content]
  <1>5. p \in Nat \ {0} /\ p <= Chunks + 6 + 2 * NumFiles /\ q = p - 1 /\ Happens(plan[p])
    BY <1>2, <1>3
  <1> HIDE DEF p
  <1>6. ASSUME UNCHANGED <<remote, local, archive>>, TempsGood',
               \A f \in Transfer!Files : p = Chunks + 5 + 2 * f => remote[f] = calls,
               p <= 1 \/ p >= Chunks + 5 => NoTemp(2)',
               p = Chunks + 6 + 2 * NumFiles => NoTemp(1)',
               p <= Chunks + 3 => TempIs(1, 0)',
               Chunks + 4 <= p /\ p <= Chunks + 5 + 2 * NumFiles => TempIs(1, Chunks)',
               2 <= p /\ p <= Chunks + 2 => TempIs(2, p - 2)',
               Chunks + 3 <= p /\ p <= Chunks + 4 => TempIs(2, Chunks)'
        PROVE  Goal
    <2>1. \A f \in Transfer!Files : p >= Chunks + 5 + 2 * f => remote[f] = calls
      <3> TAKE f \in Transfer!Files
      <3> SUFFICES ASSUME p >= Chunks + 5 + 2 * f PROVE remote[f] = calls
        OBVIOUS
      <3>1. f \in Nat
        BY <1>4
      <3>2. p = Chunks + 5 + 2 * f \/ q >= Chunks + 5 + 2 * f
        BY <1>4, <1>5, <3>1
      <3> QED BY <1>1, <1>6, <3>2 DEF UploadDid
    <2>2. UploadDid(p)'
      BY <1>3, <1>5, <1>6, <2>1 DEF UploadDid
    <2> QED BY <1>4, <1>6, <2>2
  <1>7. \A f \in Transfer!Files : p # Chunks + 5 + 2 * f \/ p \in Chunks + 6 .. Chunks + 5 + 2 * NumFiles
    BY <1>4 DEF Transfer!Files
  <1>8. ASSUME p = 1 PROVE Goal
    <2>1. Happens(MktempOf(1)) /\ NoTemp(2)
      BY <1>1, <1>2, <1>4, <1>5, <1>8 DEF UploadDid
    <2>2. TempIs(1, 0)' /\ Rest(1) /\ TempsGood' /\ UNCHANGED <<remote, local, archive>>
      BY <1>3, <1>4, <2>1, EffectDoes
    <2>3. NoTemp(2)'
      BY <2>1, <2>2 DEF Rest
    <2> QED BY <1>4, <1>6, <1>7, <1>8, <2>2, <2>3
  <1>9. ASSUME p = 2 PROVE Goal
    <2>1. Happens(MktempOf(2)) /\ TempIs(1, 0)
      BY <1>1, <1>2, <1>4, <1>5, <1>9 DEF UploadDid
    <2>2. TempIs(2, 0)' /\ Rest(2) /\ TempsGood' /\ UNCHANGED <<remote, local, archive>>
      BY <1>3, <1>4, <2>1, EffectDoes
    <2>3. TempIs(1, 0)'
      BY <2>1, <2>2 DEF Rest
    <2> QED BY <1>4, <1>6, <1>7, <1>9, <2>2, <2>3
  <1>10. ASSUME p \in 3 .. Chunks + 2 PROVE Goal
    <2>1. Happens(AppendTo(2)) /\ TempIs(1, 0) /\ TempIs(2, p - 3) /\ p - 3 \in 0 .. Chunks - 1
      BY <1>1, <1>2, <1>4, <1>5, <1>10 DEF UploadDid
    <2>2. TempIs(2, p - 3 + 1)' /\ Rest(2) /\ TempsGood' /\ UNCHANGED <<remote, local, archive>>
      BY <1>3, <1>4, <2>1, EffectDoes
    <2>3. TempIs(1, 0)' /\ p - 3 + 1 = p - 2
      BY <1>5, <2>1, <2>2 DEF Rest
    <2> QED BY <1>4, <1>6, <1>7, <1>10, <2>2, <2>3
  <1>11. ASSUME p = Chunks + 3 PROVE Goal
    <2>1. Happens(CutArchive) /\ TempIs(2, Chunks)
      BY <1>1, <1>2, <1>4, <1>5, <1>11 DEF UploadDid
    <2>2. TempIs(1, 0)' /\ Rest(1) /\ TempsGood' /\ UNCHANGED <<remote, local, archive>>
      BY <1>3, <1>4, <2>1, EffectDoes
    <2>3. TempIs(2, Chunks)'
      BY <2>1, <2>2 DEF Rest
    <2> QED BY <1>4, <1>6, <1>7, <1>11, <2>2, <2>3
  <1>12. ASSUME p = Chunks + 4 PROVE Goal
    <2>1. Happens(Gunzip) /\ TempIs(2, Chunks)
      BY <1>1, <1>2, <1>4, <1>5, <1>12 DEF UploadDid
    <2>2. TempIs(1, Chunks)' /\ Rest(1) /\ TempsGood' /\ UNCHANGED <<remote, local, archive>>
      BY <1>3, <1>4, <2>1, EffectDoes
    <2>3. TempIs(2, Chunks)'
      BY <2>1, <2>2 DEF Rest
    <2> QED BY <1>4, <1>6, <1>7, <1>12, <2>2, <2>3
  <1>13. ASSUME p = Chunks + 5 PROVE Goal
    <2>1. Happens(RmOf(2)) /\ TempIs(1, Chunks)
      BY <1>1, <1>2, <1>4, <1>5, <1>13 DEF UploadDid
    <2>2. NoTemp(2)' /\ Rest(2) /\ TempsGood' /\ UNCHANGED <<remote, local, archive>>
      BY <1>3, <1>4, <2>1, EffectDoes
    <2>3. TempIs(1, Chunks)'
      BY <2>1, <2>2 DEF Rest
    <2> QED BY <1>4, <1>6, <1>7, <1>13, <2>2, <2>3
  <1>14. ASSUME p = Chunks + 6 + 2 * NumFiles PROVE Goal
    <2>1. Happens(RmOf(1)) /\ NoTemp(2)
      BY <1>1, <1>2, <1>4, <1>5, <1>14 DEF UploadDid
    <2>2. NoTemp(1)' /\ Rest(1) /\ TempsGood' /\ UNCHANGED <<remote, local, archive>>
      BY <1>3, <1>4, <2>1, EffectDoes
    <2>3. NoTemp(2)'
      BY <2>1, <2>2 DEF Rest
    <2> QED BY <1>4, <1>6, <1>7, <1>14, <2>2, <2>3
  <1>15. ASSUME p \in Chunks + 6 .. Chunks + 5 + 2 * NumFiles PROVE Goal
    <2>1. NoTemp(2) /\ TempIs(1, Chunks)
      BY <1>1, <1>4, <1>5, <1>15 DEF UploadDid
    <2>2. PICK f \in Transfer!Files : \/ p = Chunks + 4 + 2 * f /\ plan[p] = Transfer!Cut(f)
                                      \/ p = Chunks + 5 + 2 * f /\ plan[p] = Transfer!Put(f)
      BY <1>2, <1>15
    <2>3. /\ AllTemps /\ TempsGood' /\ UNCHANGED <<local, archive>>
          /\ \/ p = Chunks + 4 + 2 * f /\ remote' = [remote EXCEPT ![f] = Part]
             \/ p = Chunks + 5 + 2 * f /\ remote' = [remote EXCEPT ![f] = calls]
      BY <1>3, <1>4, <1>5, <2>2, EffectDoes
    <2>4. NoTemp(2)' /\ TempIs(1, Chunks)'
      BY <2>1, <2>3 DEF AllTemps
    <2>5. remote' \in [Transfer!Files -> Transfer!Content]
      BY <1>4, <2>3
    <2>6. ASSUME NEW g \in Transfer!Files, p >= Chunks + 5 + 2 * g
          PROVE  remote'[g] = calls
      <3>1. f \in Nat /\ g \in Nat
        BY <1>4
      <3>2. CASE g = f
        <4>1. p = Chunks + 5 + 2 * f
          BY <1>4, <1>5, <2>2, <2>6, <3>1, <3>2
        <4>2. p # Chunks + 4 + 2 * f
          BY <1>4, <3>1, <4>1
        <4> QED BY <1>4, <2>3, <3>2, <4>2
      <3>3. CASE g # f
        <4>1. q >= Chunks + 5 + 2 * g
          BY <1>4, <1>5, <2>2, <2>6, <3>1, <3>3
        <4>2. remote[g] = calls
          BY <1>1, <4>1 DEF UploadDid
        <4> QED BY <1>4, <2>3, <3>3, <4>2
      <3> QED BY <3>2, <3>3
    <2>7. UploadDid(p)'
      BY <1>3, <1>4, <1>15, <2>4, <2>6 DEF UploadDid
    <2> QED BY <2>1, <2>3, <2>5, <2>7
  <1>16. Goal
    <2>1. \/ p = 1 \/ p = 2 \/ p \in 3 .. Chunks + 2 \/ p = Chunks + 3 \/ p = Chunks + 4
          \/ p = Chunks + 5 \/ p \in Chunks + 6 .. Chunks + 5 + 2 * NumFiles
          \/ p = Chunks + 6 + 2 * NumFiles
      BY <1>4, <1>5
    <2> QED BY <1>8, <1>9, <1>10, <1>11, <1>12, <1>13, <1>14, <1>15, <2>1
  <1>17. Uploads'
    <2>1. TransferLeft(plan, p)' /\ p \in Nat /\ UploadDid(p)'
      BY <1>3, <1>5, <1>16 DEF p
    <2>2. way = "up" /\ moved = Transfer!Files
      BY DEF Uploads
    <2> QED BY <1>3, <2>1, <2>2 DEF Uploads, plan
  <1> QED BY <1>3, <1>16, <1>17

LEMMA UploadSingleGoesOn ==
    ASSUME Transfer!Assumptions, Transfer!TypeOK, TempsGood, effects \in Seq(Effects),
           calls > 0, NEW f \in Transfer!Files, UploadsSingle(f), TransferMoves
    PROVE  /\ UploadsSingle(f)' /\ TempsGood' /\ effects' \in Seq(Effects)
           /\ UNCHANGED <<calls, way, moved, result, local, archive>>
           /\ remote' # remote => TempIs(1, Chunks)
           /\ remote' \in [Transfer!Files -> Transfer!Content]
  <1> DEFINE plan == Transfer!UploadSingle(f)
  <1>1. PICK q \in Nat : TransferLeft(plan, q) /\ UploadSingleDid(f, q)
    BY DEF UploadsSingle
  <1>2. /\ plan \in Seq(Effects) /\ Len(plan) = Chunks + 4
        /\ plan[1] = MktempOf(1)
        /\ \A k \in 2 .. Chunks + 1 : plan[k] = AppendTo(1)
        /\ plan[Chunks + 2] = Transfer!Cut(f) /\ plan[Chunks + 3] = Transfer!Put(f)
        /\ plan[Chunks + 4] = RmOf(1)
    BY SinglePlans
  <1> HIDE DEF plan
  <1>3. /\ q + 1 \in 1 .. Len(plan) /\ Happens(plan[q + 1]) /\ TransferLeft(plan, q + 1)'
        /\ effects' \in Seq(Effects) /\ UNCHANGED <<calls, way, moved, result>>
    BY <1>1, <1>2, PlanGoesOn
  <1>4. /\ Chunks \in Nat \ {0} /\ calls \in Nat \ {0} /\ MaxCalls \in Nat
        /\ calls \in 0 .. MaxCalls /\ calls \in Transfer!Content /\ Part \in Transfer!Content
        /\ remote \in [Transfer!Files -> Transfer!Content]
    BY DEF Transfer!Assumptions, Transfer!TypeOK, Transfer!Content
  <1> DEFINE p == q + 1
             Goal == /\ UploadSingleDid(f, p)' /\ TempsGood' /\ UNCHANGED <<local, archive>>
                     /\ remote' # remote => TempIs(1, Chunks)
                     /\ remote' \in [Transfer!Files -> Transfer!Content]
  <1>5. p \in Nat \ {0} /\ p <= Chunks + 4 /\ q = p - 1 /\ Happens(plan[p])
    BY <1>2, <1>3
  <1> HIDE DEF p
  <1>6. NoTemp(2)
    BY <1>1 DEF UploadSingleDid
  <1>7. ASSUME p = 1 PROVE Goal
    <2>1. Happens(MktempOf(1))
      BY <1>2, <1>5, <1>7
    <2>2. TempIs(1, 0)' /\ Rest(1) /\ TempsGood' /\ UNCHANGED <<remote, local, archive>>
      BY <1>3, <1>4, <2>1, EffectDoes
    <2>3. NoTemp(2)' /\ p - 1 = 0
      BY <1>6, <1>7, <2>2 DEF Rest
    <2> QED BY <1>3, <1>4, <1>7, <2>2, <2>3 DEF UploadSingleDid
  <1>8. ASSUME p \in 2 .. Chunks + 1 PROVE Goal
    <2>1. Happens(AppendTo(1)) /\ TempIs(1, p - 2) /\ p - 2 \in 0 .. Chunks - 1
      BY <1>1, <1>2, <1>4, <1>5, <1>8 DEF UploadSingleDid
    <2>2. TempIs(1, p - 2 + 1)' /\ Rest(1) /\ TempsGood' /\ UNCHANGED <<remote, local, archive>>
      BY <1>3, <1>4, <2>1, EffectDoes
    <2>3. NoTemp(2)' /\ TempIs(1, p - 1)'
      <3>1. p - 2 + 1 = p - 1
        BY <1>5
      <3> QED BY <1>6, <2>2, <3>1 DEF Rest
    <2> QED BY <1>3, <1>4, <1>8, <2>2, <2>3 DEF UploadSingleDid
  <1>9. ASSUME p = Chunks + 2 PROVE Goal
    <2>1. Happens(Transfer!Cut(f)) /\ TempIs(1, Chunks)
      <3>1. q = Chunks + 1 /\ q - 1 = Chunks /\ 1 <= q
        BY <1>4, <1>5, <1>9
      <3>2. Happens(Transfer!Cut(f))
        BY <1>2, <1>5, <1>9
      <3>3. TempIs(1, q - 1)
        BY <1>1, <3>1 DEF UploadSingleDid
      <3> QED BY <3>1, <3>2, <3>3
    <2>2. /\ remote' = [remote EXCEPT ![f] = Part]
          /\ AllTemps /\ TempsGood' /\ UNCHANGED <<local, archive>>
      BY <1>3, <1>4, <2>1, EffectDoes
    <2>3. NoTemp(2)' /\ TempIs(1, Chunks)'
      BY <1>6, <2>1, <2>2 DEF AllTemps
    <2>4. remote' \in [Transfer!Files -> Transfer!Content]
      BY <1>4, <2>2
    <2> QED BY <1>3, <1>4, <1>9, <2>1, <2>2, <2>3, <2>4 DEF UploadSingleDid
  <1>10. ASSUME p = Chunks + 3 PROVE Goal
    <2>1. Happens(Transfer!Put(f)) /\ TempIs(1, Chunks)
      BY <1>1, <1>2, <1>4, <1>5, <1>10 DEF UploadSingleDid
    <2>2. /\ remote' = [remote EXCEPT ![f] = calls]
          /\ AllTemps /\ TempsGood' /\ UNCHANGED <<local, archive>>
      BY <1>3, <1>4, <2>1, EffectDoes
    <2>3. NoTemp(2)' /\ TempIs(1, Chunks)'
      BY <1>6, <2>1, <2>2 DEF AllTemps
    <2>4. remote' \in [Transfer!Files -> Transfer!Content] /\ remote'[f] = calls
      BY <1>4, <2>2
    <2> QED BY <1>3, <1>4, <1>10, <2>1, <2>2, <2>3, <2>4 DEF UploadSingleDid
  <1>11. ASSUME p = Chunks + 4 PROVE Goal
    <2>1. Happens(RmOf(1)) /\ remote[f] = calls
      BY <1>1, <1>2, <1>4, <1>5, <1>11 DEF UploadSingleDid
    <2>2. NoTemp(1)' /\ Rest(1) /\ TempsGood' /\ UNCHANGED <<remote, local, archive>>
      BY <1>3, <1>4, <2>1, EffectDoes
    <2>3. NoTemp(2)'
      BY <1>6, <2>2 DEF Rest
    <2> QED BY <1>3, <1>4, <1>11, <2>1, <2>2, <2>3 DEF UploadSingleDid
  <1>12. Goal
    <2>1. \/ p = 1 \/ p \in 2 .. Chunks + 1 \/ p = Chunks + 2 \/ p = Chunks + 3
          \/ p = Chunks + 4
      BY <1>4, <1>5
    <2> QED BY <1>7, <1>8, <1>9, <1>10, <1>11, <2>1
  <1>13. UploadsSingle(f)'
    <2>1. TransferLeft(plan, p)' /\ p \in Nat /\ UploadSingleDid(f, p)'
      BY <1>3, <1>5, <1>12 DEF p
    <2>2. way = "up" /\ moved = {f}
      BY DEF UploadsSingle
    <2> QED BY <1>3, <2>1, <2>2 DEF UploadsSingle, plan
  <1> QED BY <1>3, <1>12, <1>13

LEMMA DownloadGoesOn ==
    ASSUME Transfer!Assumptions, Transfer!TypeOK, TempsGood, effects \in Seq(Effects),
           calls > 0, Downloads, TransferMoves
    PROVE  /\ Downloads' /\ TempsGood' /\ effects' \in Seq(Effects)
           /\ UNCHANGED <<calls, way, moved, result, remote>>
           /\ local' # local => NoTemp(1) /\ \A f \in moved : archive[f] = remote[f]
           /\ local' \in [Transfer!Files -> Transfer!Content]
           /\ archive' \in [Transfer!Files -> Transfer!Content]
  <1> DEFINE plan == Transfer!Download
  <1>1. PICK q \in Nat : TransferLeft(plan, q) /\ DownloadDid(q)
    BY DEF Downloads
  <1>2. /\ plan \in Seq(Effects) /\ Len(plan) = 2 * NumFiles + 2
        /\ plan[1] = MktempOf(1)
        /\ \A f \in Transfer!Files : plan[f + 1] = PackOf(f)
        /\ plan[NumFiles + 2] = RmOf(1)
        /\ \A f \in Transfer!Files : plan[NumFiles + 2 + f] = WriteOf(f)
    BY DownloadPlan
  <1> HIDE DEF plan
  <1>3. /\ q + 1 \in 1 .. Len(plan) /\ Happens(plan[q + 1]) /\ TransferLeft(plan, q + 1)'
        /\ effects' \in Seq(Effects) /\ UNCHANGED <<calls, way, moved, result>>
    BY <1>1, <1>2, PlanGoesOn
  <1>4. /\ NumFiles \in Nat /\ calls \in Nat \ {0} /\ MaxCalls \in Nat
        /\ remote \in [Transfer!Files -> Transfer!Content]
        /\ local \in [Transfer!Files -> Transfer!Content]
        /\ archive \in [Transfer!Files -> Transfer!Content]
        /\ \A f \in Transfer!Files : f \in Nat \ {0} /\ f <= NumFiles
    BY DEF Transfer!Assumptions, Transfer!TypeOK, Transfer!Files
  <1> DEFINE p == q + 1
             Goal == /\ DownloadDid(p)' /\ TempsGood' /\ UNCHANGED remote
                     /\ local' # local => NoTemp(1) /\ q >= NumFiles + 2
                     /\ local' \in [Transfer!Files -> Transfer!Content]
                     /\ archive' \in [Transfer!Files -> Transfer!Content]
  <1>5. p \in Nat \ {0} /\ p <= 2 * NumFiles + 2 /\ q = p - 1 /\ Happens(plan[p])
    BY <1>2, <1>3
  <1> HIDE DEF p
  <1>6. /\ NoTemp(2)
        /\ \A f \in Transfer!Files : q >= f + 1 => archive[f] = remote[f]
        /\ \A f \in Transfer!Files : q >= NumFiles + 2 + f => local[f] = remote[f]
    BY <1>1 DEF DownloadDid
  <1>7. ASSUME p = 1 PROVE Goal
    <2>1. Happens(MktempOf(1))
      BY <1>2, <1>5, <1>7
    <2>2. TempIs(1, 0)' /\ Rest(1) /\ TempsGood' /\ UNCHANGED <<remote, local, archive>>
      BY <1>3, <1>4, <2>1, EffectDoes
    <2>3. NoTemp(2)'
      BY <1>6, <2>2 DEF Rest
    <2> QED BY <1>3, <1>4, <1>7, <2>2, <2>3 DEF DownloadDid
  <1>8. ASSUME NEW f \in Transfer!Files, p = f + 1 PROVE Goal
    <2>1. Happens(PackOf(f)) /\ TempIs(1, 0)
      BY <1>1, <1>2, <1>4, <1>5, <1>8 DEF DownloadDid
    <2>2. /\ archive' = [archive EXCEPT ![f] = remote[f]]
          /\ AllTemps /\ TempsGood' /\ UNCHANGED <<remote, local>>
      BY <1>3, <1>4, <2>1, EffectDoes
    <2>3. NoTemp(2)' /\ TempIs(1, 0)'
      BY <1>6, <2>1, <2>2 DEF AllTemps
    <2>4. archive' \in [Transfer!Files -> Transfer!Content]
      BY <1>4, <2>2
    <2>5. \A g \in Transfer!Files : p >= g + 1 => archive'[g] = remote[g]
      <3> TAKE g \in Transfer!Files
      <3>1. g = f \/ ~(p >= g + 1) \/ (g # f /\ q >= g + 1)
        BY <1>4, <1>5, <1>8
      <3> QED BY <1>4, <1>6, <2>2, <3>1
    <2>6. \A g \in Transfer!Files : ~(p >= NumFiles + 2 + g)
      BY <1>4, <1>8
    <2>7. p # 0 /\ ~(p >= NumFiles + 2)
      BY <1>4, <1>5, <1>8
    <2>8. DownloadDid(p)'
      <3>1. \A g \in Transfer!Files : p >= g + 1 => archive'[g] = remote'[g]
        BY <2>2, <2>5
      <3> QED BY <1>3, <2>3, <2>6, <2>7, <3>1 DEF DownloadDid
    <2> QED BY <1>4, <2>2, <2>4, <2>8
  <1>9. ASSUME p = NumFiles + 2 PROVE Goal
    <2>1. Happens(RmOf(1))
      BY <1>2, <1>5, <1>9
    <2>2. NoTemp(1)' /\ Rest(1) /\ TempsGood' /\ UNCHANGED <<remote, local, archive>>
      BY <1>3, <1>4, <2>1, EffectDoes
    <2>3. NoTemp(2)'
      BY <1>6, <2>2 DEF Rest
    <2>4. \A g \in Transfer!Files : q >= g + 1 /\ ~(p >= NumFiles + 2 + g)
      BY <1>4, <1>5, <1>9
    <2> QED BY <1>3, <1>4, <1>6, <1>9, <2>2, <2>3, <2>4 DEF DownloadDid
  <1>10. ASSUME NEW f \in Transfer!Files, p = NumFiles + 2 + f PROVE Goal
    <2>1. q >= NumFiles + 2 /\ \A g \in Transfer!Files : q >= g + 1
      BY <1>4, <1>5, <1>10
    <2>2. Happens(WriteOf(f)) /\ NoTemp(1)
      BY <1>1, <1>2, <1>5, <1>10, <2>1 DEF DownloadDid
    <2>3. /\ local' = [local EXCEPT ![f] = archive[f]]
          /\ AllTemps /\ TempsGood' /\ UNCHANGED <<remote, archive>>
      BY <1>3, <1>4, <2>2, EffectDoes
    <2>4. NoTemp(2)' /\ NoTemp(1)'
      BY <1>6, <2>2, <2>3 DEF AllTemps
    <2>5. local' \in [Transfer!Files -> Transfer!Content]
      BY <1>4, <2>3
    <2>6. \A g \in Transfer!Files : p >= NumFiles + 2 + g => local'[g] = remote[g]
      <3> TAKE g \in Transfer!Files
      <3>1. g = f \/ ~(p >= NumFiles + 2 + g) \/ (g # f /\ q >= NumFiles + 2 + g)
        BY <1>4, <1>5, <1>10
      <3> QED BY <1>4, <1>6, <2>1, <2>3, <3>1
    <2>7. ~(p <= NumFiles + 1) /\ p # 0
      BY <1>4, <1>10
    <2> QED BY <1>3, <1>4, <1>6, <2>1, <2>2, <2>3, <2>4, <2>5, <2>6, <2>7 DEF DownloadDid
  <1>11. Goal
    <2>1. \/ p = 1 \/ p - 1 \in Transfer!Files \/ p = NumFiles + 2
          \/ p - (NumFiles + 2) \in Transfer!Files
      BY <1>4, <1>5 DEF Transfer!Files
    <2>2. p = p - 1 + 1 /\ p = NumFiles + 2 + (p - (NumFiles + 2))
      BY <1>4, <1>5
    <2>3. \/ \E f \in Transfer!Files : p = f + 1
          \/ \E f \in Transfer!Files : p = NumFiles + 2 + f
          \/ p = 1 \/ p = NumFiles + 2
      BY <2>1, <2>2
    <2>4. CASE p = 1 \/ p = NumFiles + 2
      BY <1>7, <1>9, <2>4
    <2>5. CASE \E f \in Transfer!Files : p = f + 1
      <3>1. PICK f \in Transfer!Files : p = f + 1
        BY <2>5
      <3> QED BY <1>8, <3>1
    <2>6. CASE \E f \in Transfer!Files : p = NumFiles + 2 + f
      <3>1. PICK f \in Transfer!Files : p = NumFiles + 2 + f
        BY <2>6
      <3> QED BY <1>10, <3>1
    <2> QED BY <2>3, <2>4, <2>5, <2>6
  <1>12. Downloads'
    <2>1. TransferLeft(plan, p)' /\ p \in Nat /\ DownloadDid(p)'
      BY <1>3, <1>5, <1>11 DEF p
    <2>2. way = "down" /\ moved = Transfer!Files
      BY DEF Downloads
    <2> QED BY <1>3, <2>1, <2>2 DEF Downloads, plan
  <1>13. local' # local => \A f \in moved : archive[f] = remote[f]
    <2>1. q >= NumFiles + 2 => \A f \in Transfer!Files : q >= f + 1
      BY <1>4
    <2> QED BY <1>6, <1>11, <2>1 DEF Downloads
  <1> QED BY <1>3, <1>11, <1>12, <1>13

LEMMA DownloadSingleGoesOn ==
    ASSUME Transfer!Assumptions, Transfer!TypeOK, TempsGood, effects \in Seq(Effects),
           calls > 0, NEW f \in Transfer!Files, DownloadsSingle(f), TransferMoves
    PROVE  /\ DownloadsSingle(f)' /\ TempsGood' /\ effects' \in Seq(Effects)
           /\ UNCHANGED <<calls, way, moved, result, remote>>
           /\ local' # local => NoTemp(1) /\ archive[f] = remote[f] /\ moved = {f}
           /\ local' \in [Transfer!Files -> Transfer!Content]
           /\ archive' \in [Transfer!Files -> Transfer!Content]
  <1> DEFINE plan == Transfer!DownloadSingle(f)
  <1>1. PICK q \in Nat : TransferLeft(plan, q) /\ DownloadSingleDid(f, q)
    BY DEF DownloadsSingle
  <1>2. /\ plan \in Seq(Effects) /\ Len(plan) = 2
        /\ plan[1] = PackOf(f) /\ plan[2] = WriteOf(f)
    BY SinglePlans
  <1> HIDE DEF plan
  <1>3. /\ q + 1 \in 1 .. Len(plan) /\ Happens(plan[q + 1]) /\ TransferLeft(plan, q + 1)'
        /\ effects' \in Seq(Effects) /\ UNCHANGED <<calls, way, moved, result>>
    BY <1>1, <1>2, PlanGoesOn
  <1>4. /\ calls \in Nat \ {0} /\ MaxCalls \in Nat
        /\ remote \in [Transfer!Files -> Transfer!Content]
        /\ local \in [Transfer!Files -> Transfer!Content]
        /\ archive \in [Transfer!Files -> Transfer!Content]
    BY DEF Transfer!Assumptions, Transfer!TypeOK
  <1> DEFINE p == q + 1
             Goal == /\ DownloadSingleDid(f, p)' /\ TempsGood' /\ UNCHANGED remote
                     /\ local' # local => archive[f] = remote[f]
                     /\ local' \in [Transfer!Files -> Transfer!Content]
                     /\ archive' \in [Transfer!Files -> Transfer!Content]
  <1>5. (p = 1 \/ p = 2) /\ q = p - 1 /\ q \in Nat /\ Happens(plan[p])
    BY <1>2, <1>3
  <1> HIDE DEF p
  <1>6. NoTemp(1) /\ NoTemp(2)
    BY <1>1 DEF DownloadSingleDid
  <1>7. ASSUME p = 1 PROVE Goal
    <2>1. Happens(PackOf(f))
      BY <1>2, <1>5, <1>7
    <2>2. /\ archive' = [archive EXCEPT ![f] = remote[f]]
          /\ AllTemps /\ TempsGood' /\ UNCHANGED <<remote, local>>
      BY <1>3, <1>4, <2>1, EffectDoes
    <2>3. NoTemp(1)' /\ NoTemp(2)'
      BY <1>6, <2>2 DEF AllTemps
    <2>4. archive' \in [Transfer!Files -> Transfer!Content] /\ archive'[f] = remote[f]
      BY <1>4, <2>2
    <2> QED BY <1>3, <1>4, <1>7, <2>2, <2>3, <2>4 DEF DownloadSingleDid
  <1>8. ASSUME p = 2 PROVE Goal
    <2>1. Happens(WriteOf(f)) /\ archive[f] = remote[f]
      BY <1>1, <1>2, <1>5, <1>8 DEF DownloadSingleDid
    <2>2. /\ local' = [local EXCEPT ![f] = archive[f]]
          /\ AllTemps /\ TempsGood' /\ UNCHANGED <<remote, archive>>
      BY <1>3, <1>4, <2>1, EffectDoes
    <2>3. NoTemp(1)' /\ NoTemp(2)'
      BY <1>6, <2>2 DEF AllTemps
    <2>4. local' \in [Transfer!Files -> Transfer!Content] /\ local'[f] = archive[f]
      BY <1>4, <2>2
    <2> QED BY <1>3, <1>4, <1>8, <2>1, <2>2, <2>3, <2>4 DEF DownloadSingleDid
  <1>9. Goal
    BY <1>5, <1>7, <1>8
  <1>10. way = "down" /\ moved = {f}
    BY DEF DownloadsSingle
  <1>11. DownloadsSingle(f)'
    <2>1. TransferLeft(plan, p)' /\ p \in Nat /\ DownloadSingleDid(f, p)'
      BY <1>3, <1>5, <1>9 DEF p
    <2> QED BY <1>3, <1>10, <2>1 DEF DownloadsSingle, plan
  <1> QED BY <1>3, <1>6, <1>9, <1>10, <1>11

LEMMA TransferInit ==
    ASSUME Transfer!Assumptions, Transfer!Init
    PROVE  TransferIInv
  <1>1. /\ calls = 0 /\ way = "up" /\ moved = {} /\ effects = <<>> /\ result = "none"
        /\ temps = <<>> /\ DOMAIN temps = {}
        /\ remote = [f \in Transfer!Files |-> 0] /\ local = [f \in Transfer!Files |-> 0]
        /\ archive = [f \in Transfer!Files |-> 0]
    BY DEF Transfer!Init
  <1>2. MaxCalls \in Nat /\ 0 \in Transfer!Content
    BY DEF Transfer!Assumptions, Transfer!Content
  <1>3. Transfer!TypeOK
    BY <1>1, <1>2 DEF Transfer!TypeOK
  <1>4. Transfer!ReturnedMeansMoved /\ TempsGood /\ effects \in Seq(Effects)
    BY <1>1 DEF Transfer!ReturnedMeansMoved, TempsGood
  <1> QED BY <1>1, <1>3, <1>4 DEF TransferIInv

\* A call is the whole of its plan.
LEMMA TransferCall ==
    ASSUME Transfer!Assumptions, TransferIInv, NEW w, NEW files, NEW plan,
           Transfer!Call(w, files, plan)
    PROVE  /\ calls' = calls + 1 /\ calls' \in 1 .. MaxCalls /\ calls \in Nat /\ TempsGood'
           /\ way' = w /\ moved' = files /\ effects' = plan /\ result' = "working"
           /\ UNCHANGED <<temps, remote, local, archive>>
           /\ NoTemp(1)' /\ NoTemp(2)'
           /\ plan \in Seq(Effects) => TransferLeft(plan, 0)'
  <1>1. /\ calls' = calls + 1 /\ way' = w /\ moved' = files /\ effects' = plan
        /\ result' = "working" /\ calls < MaxCalls
        /\ UNCHANGED <<temps, remote, local, archive>>
    BY DEF Transfer!Call
  <1>2. calls \in 0 .. MaxCalls /\ MaxCalls \in Nat /\ TempsGood
    BY DEF TransferIInv, Transfer!TypeOK, Transfer!Assumptions
  <1>3. calls' \in 1 .. MaxCalls /\ calls \in Nat
    BY <1>1, <1>2
  <1>4. TempsGood'
    BY <1>1, <1>2 DEF TempsGood
  <1>5. \A j : <<calls + 1, j>> \notin DOMAIN temps
    BY <1>2 DEF TempsGood
  <1>6. NoTemp(1)' /\ NoTemp(2)'
    BY <1>1, <1>5 DEF NoTemp
  <1>7. ASSUME plan \in Seq(Effects)
        PROVE  TransferLeft(plan, 0)'
    <2>1. Len(plan) \in Nat
      BY <1>7, LenProperties
    <2> QED BY <1>1, <2>1 DEF TransferLeft
  <1> QED BY <1>1, <1>3, <1>4, <1>6, <1>7

LEMMA TransferCalls ==
    ASSUME Transfer!Assumptions, TransferIInv,
           \/ Transfer!Call("up", Transfer!Files, Transfer!Upload)
           \/ Transfer!Call("down", Transfer!Files, Transfer!Download)
           \/ \E f \in Transfer!Files :
                  \/ Transfer!Call("up", {f}, Transfer!UploadSingle(f))
                  \/ Transfer!Call("down", {f}, Transfer!DownloadSingle(f))
    PROVE  TransferIInv' /\ UNCHANGED <<remote, local>>
  <1>1. Chunks \in Nat \ {0} /\ NumFiles \in Nat /\ MaxCalls \in Nat
    BY DEF Transfer!Assumptions
  <1> DEFINE Began(w, files, plan) ==
                 /\ calls' = calls + 1 /\ calls' \in 1 .. MaxCalls /\ TempsGood'
                 /\ way' = w /\ moved' = files /\ effects' = plan /\ result' = "working"
                 /\ UNCHANGED <<temps, remote, local, archive>>
                 /\ NoTemp(1)' /\ NoTemp(2)' /\ TransferLeft(plan, 0)'
  <1>2. ASSUME NEW w \in {"up", "down"}, NEW files \in SUBSET Transfer!Files,
               NEW plan \in Seq(Effects), Began(w, files, plan), TransferUnderWay'
        PROVE  TransferIInv' /\ UNCHANGED <<remote, local>>
    <2>1. Transfer!TypeOK
      BY DEF TransferIInv
    <2>2. Transfer!TypeOK'
      BY <1>1, <1>2, <2>1 DEF Transfer!TypeOK
    <2>3. Transfer!ReturnedMeansMoved'
      BY <1>2 DEF Transfer!ReturnedMeansMoved
    <2>4. calls' > 0
      BY <1>1, <1>2
    <2> QED BY <1>2, <2>2, <2>3, <2>4 DEF TransferIInv
  <1>3. \A f \in Transfer!Files : f \in Nat \ {0}
    BY DEF Transfer!Files
  <1>4. CASE Transfer!Call("up", Transfer!Files, Transfer!Upload)
    <2>1. Transfer!Upload \in Seq(Effects)
      BY UploadPlan
    <2>2. Began("up", Transfer!Files, Transfer!Upload)
      BY <1>4, <2>1, TransferCall
    <2>3. UploadDid(0)'
      BY <1>1, <1>3, <2>2 DEF UploadDid
    <2>4. Uploads'
      BY <2>2, <2>3 DEF Uploads
    <2> QED BY <1>2, <2>1, <2>2, <2>4 DEF TransferUnderWay
  <1>5. CASE Transfer!Call("down", Transfer!Files, Transfer!Download)
    <2>1. Transfer!Download \in Seq(Effects)
      BY DownloadPlan
    <2>2. Began("down", Transfer!Files, Transfer!Download)
      BY <1>5, <2>1, TransferCall
    <2>3. DownloadDid(0)'
      BY <1>1, <1>3, <2>2 DEF DownloadDid
    <2>4. Downloads'
      BY <2>2, <2>3 DEF Downloads
    <2> QED BY <1>2, <2>1, <2>2, <2>4 DEF TransferUnderWay
  <1>6. ASSUME NEW f \in Transfer!Files, Transfer!Call("up", {f}, Transfer!UploadSingle(f))
        PROVE  TransferIInv' /\ UNCHANGED <<remote, local>>
    <2>1. Transfer!UploadSingle(f) \in Seq(Effects)
      BY SinglePlans
    <2>2. Began("up", {f}, Transfer!UploadSingle(f))
      BY <1>6, <2>1, TransferCall
    <2>3. UploadSingleDid(f, 0)'
      BY <1>1, <2>2 DEF UploadSingleDid
    <2>4. UploadsSingle(f)'
      BY <2>2, <2>3 DEF UploadsSingle
    <2> QED BY <1>2, <2>1, <2>2, <2>4 DEF TransferUnderWay
  <1>7. ASSUME NEW f \in Transfer!Files, Transfer!Call("down", {f}, Transfer!DownloadSingle(f))
        PROVE  TransferIInv' /\ UNCHANGED <<remote, local>>
    <2>1. Transfer!DownloadSingle(f) \in Seq(Effects)
      BY SinglePlans
    <2>2. Began("down", {f}, Transfer!DownloadSingle(f))
      BY <1>7, <2>1, TransferCall
    <2>3. DownloadSingleDid(f, 0)'
      BY <1>1, <2>2 DEF DownloadSingleDid
    <2>4. DownloadsSingle(f)'
      BY <2>2, <2>3 DEF DownloadsSingle
    <2> QED BY <1>2, <2>1, <2>2, <2>4 DEF TransferUnderWay
  <1> QED BY <1>4, <1>5, <1>6, <1>7

LEMMA TransferGoesOn ==
    ASSUME Transfer!Assumptions, TransferIInv, TransferMoves
    PROVE  TransferIInv' /\ Transfer!ChangedOnceArrived
  <1>1. /\ Transfer!TypeOK /\ TempsGood /\ effects \in Seq(Effects)
        /\ result = "working" /\ calls > 0 /\ TransferUnderWay
    <2>1. effects # <<>>
      BY DEF TransferMoves, Transfer!Mktemp, Transfer!Append1, Transfer!WriteArchive,
             Transfer!WriteRemote, Transfer!Rm, Transfer!Pack, Transfer!WriteLocal,
             Transfer!Doing
    <2> QED BY <2>1 DEF TransferIInv
  <1> DEFINE Goal == /\ TransferUnderWay' /\ TempsGood' /\ effects' \in Seq(Effects)
                     /\ UNCHANGED <<calls, way, moved, result>>
                     /\ remote' # remote => way = "up" /\ TempIs(1, Chunks)
                     /\ local' # local =>
                            way = "down" /\ NoTemp(1) /\ \A f \in moved : archive[f] = remote[f]
                     /\ {remote', local', archive'}
                            \subseteq [Transfer!Files -> Transfer!Content]
  <1>2. {remote, local, archive} \subseteq [Transfer!Files -> Transfer!Content]
    BY <1>1 DEF Transfer!TypeOK
  <1>3. ASSUME Uploads PROVE Goal
    <2>1. way = "up"
      BY <1>3 DEF Uploads
    <2> QED BY <1>1, <1>2, <1>3, <2>1, UploadGoesOn DEF TransferUnderWay
  <1>4. ASSUME Downloads PROVE Goal
    <2>1. way = "down"
      BY <1>4 DEF Downloads
    <2> QED BY <1>1, <1>2, <1>4, <2>1, DownloadGoesOn DEF TransferUnderWay
  <1>5. ASSUME NEW f \in Transfer!Files, UploadsSingle(f) PROVE Goal
    <2>1. way = "up"
      BY <1>5 DEF UploadsSingle
    <2> QED BY <1>1, <1>2, <1>5, <2>1, UploadSingleGoesOn DEF TransferUnderWay
  <1>6. ASSUME NEW f \in Transfer!Files, DownloadsSingle(f) PROVE Goal
    <2>1. way = "down"
      BY <1>6 DEF DownloadsSingle
    <2> QED BY <1>1, <1>2, <1>6, <2>1, DownloadSingleGoesOn DEF TransferUnderWay
  <1>7. Goal
    BY <1>1, <1>3, <1>4, <1>5, <1>6 DEF TransferUnderWay
  <1>8. Transfer!TypeOK'
    <2>1. DOMAIN temps' \subseteq Transfer!Temporaries
      <3>1. calls \in 0 .. MaxCalls /\ MaxCalls \in Nat
        BY <1>1 DEF Transfer!TypeOK, Transfer!Assumptions
      <3>2. 1 .. calls \subseteq 1 .. MaxCalls
        BY <3>1
      <3>3. DOMAIN temps' \subseteq (1 .. calls) \X {1, 2}
        BY <1>7 DEF TempsGood
      <3> QED BY <3>2, <3>3 DEF Transfer!Temporaries
    <2>2. \A t \in DOMAIN temps' : temps'[t] \in 0 .. Chunks
      BY <1>7 DEF TempsGood
    <2> QED BY <1>1, <1>7, <2>1, <2>2 DEF Transfer!TypeOK
  <1>9. Transfer!ReturnedMeansMoved'
    BY <1>1, <1>7 DEF Transfer!ReturnedMeansMoved
  <1>10. TransferIInv'
    BY <1>1, <1>7, <1>8, <1>9 DEF TransferIInv
  <1>11. Transfer!ChangedOnceArrived
    BY <1>7 DEF Transfer!ChangedOnceArrived, Transfer!Whole, Transfer!Temp, TempIs, NoTemp
  <1> QED BY <1>10, <1>11

\* A call that returns did all of its plan.
LEMMA TransferReturns ==
    ASSUME Transfer!Assumptions, TransferIInv, Transfer!Return
    PROVE  TransferIInv' /\ UNCHANGED <<remote, local>>
  <1>1. /\ Transfer!TypeOK /\ TempsGood /\ effects \in Seq(Effects)
        /\ result = "working" /\ effects = <<>> /\ Len(effects) = 0 /\ calls > 0
        /\ TransferUnderWay
        /\ result' = "returned"
        /\ UNCHANGED <<calls, way, moved, effects, temps, remote, local, archive>>
    BY DEF Transfer!Return, TransferIInv
  <1>2. /\ Chunks \in Nat \ {0} /\ NumFiles \in Nat
        /\ \A f \in Transfer!Files : f \in Nat \ {0} /\ f <= NumFiles
    BY DEF Transfer!Assumptions, Transfer!Files
  <1> DEFINE Did == /\ NoTemp(1) /\ NoTemp(2)
                    /\ \A f \in moved : IF way = "up" THEN remote[f] = calls
                                        ELSE local[f] = remote[f]
  <1>3. \A plan \in Seq(Effects), q \in Nat : TransferLeft(plan, q) => q = Len(plan)
    <2> TAKE plan \in Seq(Effects), q \in Nat
    <2>1. Len(plan) \in Nat
      BY LenProperties
    <2> QED BY <1>1, <2>1 DEF TransferLeft
  <1>4. ASSUME Uploads PROVE Did
    <2>1. PICK q \in Nat : TransferLeft(Transfer!Upload, q) /\ UploadDid(q)
      BY <1>4 DEF Uploads
    <2>2. q = Chunks + 6 + 2 * NumFiles
      BY <1>3, <2>1, UploadPlan
    <2>3. \A f \in Transfer!Files : q >= Chunks + 5 + 2 * f
      BY <1>2, <2>2
    <2> QED BY <1>2, <1>4, <2>1, <2>2, <2>3 DEF UploadDid, Uploads
  <1>5. ASSUME Downloads PROVE Did
    <2>1. PICK q \in Nat : TransferLeft(Transfer!Download, q) /\ DownloadDid(q)
      BY <1>5 DEF Downloads
    <2>2. q = 2 * NumFiles + 2
      BY <1>3, <2>1, DownloadPlan
    <2>3. /\ \A f \in Transfer!Files : q >= NumFiles + 2 + f
          /\ q >= NumFiles + 2
      BY <1>2, <2>2
    <2> QED BY <1>5, <2>1, <2>3 DEF DownloadDid, Downloads
  <1>6. ASSUME NEW f \in Transfer!Files, UploadsSingle(f) PROVE Did
    <2>1. PICK q \in Nat : TransferLeft(Transfer!UploadSingle(f), q) /\ UploadSingleDid(f, q)
      BY <1>6 DEF UploadsSingle
    <2>2. q = Chunks + 4
      BY <1>3, <2>1, SinglePlans
    <2> QED BY <1>2, <1>6, <2>1, <2>2 DEF UploadSingleDid, UploadsSingle
  <1>7. ASSUME NEW f \in Transfer!Files, DownloadsSingle(f) PROVE Did
    <2>1. PICK q \in Nat : TransferLeft(Transfer!DownloadSingle(f), q) /\ DownloadSingleDid(f, q)
      BY <1>7 DEF DownloadsSingle
    <2>2. q = 2
      BY <1>3, <2>1, SinglePlans
    <2> QED BY <1>7, <2>1, <2>2 DEF DownloadSingleDid, DownloadsSingle
  <1>8. Did
    BY <1>1, <1>4, <1>5, <1>6, <1>7 DEF TransferUnderWay
  <1>9. \A t \in DOMAIN temps : t[1] # calls
    <2> TAKE t \in DOMAIN temps
    <2>1. PICK n \in 1 .. calls, j \in {1, 2} : t = <<n, j>>
      BY <1>1 DEF TempsGood
    <2> QED BY <1>8, <2>1 DEF NoTemp
  <1>10. Transfer!ReturnedMeansMoved'
    BY <1>1, <1>8, <1>9 DEF Transfer!ReturnedMeansMoved
  <1>11. Transfer!TypeOK' /\ TempsGood'
    BY <1>1 DEF Transfer!TypeOK, TempsGood
  <1> QED BY <1>1, <1>10, <1>11 DEF TransferIInv

LEMMA TransferFails ==
    ASSUME Transfer!Assumptions, TransferIInv, Transfer!Fail
    PROVE  TransferIInv' /\ UNCHANGED <<remote, local>>
  <1>1. /\ Transfer!TypeOK /\ TempsGood /\ effects' = <<>> /\ result' = "raised"
        /\ UNCHANGED <<calls, way, moved, temps, remote, local, archive>>
    BY DEF Transfer!Fail, TransferIInv
  <1>2. Transfer!TypeOK' /\ TempsGood' /\ Transfer!ReturnedMeansMoved'
    BY <1>1 DEF Transfer!TypeOK, TempsGood, Transfer!ReturnedMeansMoved
  <1>3. effects' \in Seq(Effects)
    BY <1>1
  <1> QED BY <1>1, <1>2, <1>3 DEF TransferIInv

LEMMA TransferNext ==
    ASSUME Transfer!Assumptions, TransferIInv, [Transfer!Next]_transfer
    PROVE  TransferIInv' /\ Transfer!ChangedOnceArrived
  <1>1. UNCHANGED <<remote, local>> => Transfer!ChangedOnceArrived
    BY DEF Transfer!ChangedOnceArrived
  <1>2. CASE UNCHANGED transfer
    <2>1. UNCHANGED <<calls, way, moved, effects, result, temps, remote, local, archive>>
      BY <1>2 DEF transfer
    <2>2. /\ Transfer!TypeOK' /\ Transfer!ReturnedMeansMoved' /\ TempsGood'
          /\ effects' \in Seq(Effects)
      BY <2>1 DEF TransferIInv, Transfer!TypeOK, Transfer!ReturnedMeansMoved, TempsGood
    <2>3. TransferUnderWay => TransferUnderWay'
      <3>1. /\ \A i : (NoTemp(i) => NoTemp(i)') /\ \A c : (TempIs(i, c) => TempIs(i, c)')
            /\ \A plan, q : TransferLeft(plan, q) => TransferLeft(plan, q)'
        BY <2>1 DEF NoTemp, TempIs, TransferLeft
      <3>2. /\ \A q : (UploadDid(q) => UploadDid(q)') /\ (DownloadDid(q) => DownloadDid(q)')
            /\ \A f, q : /\ UploadSingleDid(f, q) => UploadSingleDid(f, q)'
                         /\ DownloadSingleDid(f, q) => DownloadSingleDid(f, q)'
        BY <2>1, <3>1 DEF UploadDid, DownloadDid, UploadSingleDid, DownloadSingleDid
      <3>3. (Uploads => Uploads') /\ (Downloads => Downloads')
        BY <2>1, <3>1, <3>2 DEF Uploads, Downloads
      <3>4. \A f : (UploadsSingle(f) => UploadsSingle(f)')
                   /\ (DownloadsSingle(f) => DownloadsSingle(f)')
        BY <2>1, <3>1, <3>2 DEF UploadsSingle, DownloadsSingle
      <3> QED BY <3>3, <3>4 DEF TransferUnderWay
    <2> QED BY <1>1, <2>1, <2>2, <2>3 DEF TransferIInv
  <1>3. CASE \/ Transfer!Call("up", Transfer!Files, Transfer!Upload)
             \/ Transfer!Call("down", Transfer!Files, Transfer!Download)
             \/ \E f \in Transfer!Files :
                    \/ Transfer!Call("up", {f}, Transfer!UploadSingle(f))
                    \/ Transfer!Call("down", {f}, Transfer!DownloadSingle(f))
    BY <1>1, <1>3, TransferCalls
  <1>4. CASE TransferMoves
    BY <1>4, TransferGoesOn
  <1>5. CASE Transfer!Return
    BY <1>1, <1>5, TransferReturns
  <1>6. CASE Transfer!Fail
    BY <1>1, <1>6, TransferFails
  <1> QED BY <1>2, <1>3, <1>4, <1>5, <1>6 DEF Transfer!Next, TransferMoves

\* File transfers (communicators/unix.py), of however many files, chunks and calls: one that
\* returns moved its files, whole, and left no temporary file of its own; and one that fails
\* or times out while the data is under way changed nothing on the other side.
THEOREM TransfersMove == Spec => MovedOrUnchanged
  <1> DEFINE IInv == part = "transfer" => TransferIInv
  <1>1. Init => IInv
    BY PartsAssumption, TransferInit DEF Init
  <1>2. IInv /\ [Next]_vars => IInv'
    BY PartsAssumption, PartStays, TransferSteps, TransferNext
  <1>3. IInv => (part = "transfer" => Transfer!TypeOK /\ Transfer!ReturnedMeansMoved)
    BY DEF TransferIInv
  <1>4. IInv /\ [Next]_vars => [part = "transfer" => Transfer!ChangedOnceArrived]_transfer
    BY PartsAssumption, TransferSteps, TransferNext
  <1> QED BY <1>1, <1>2, <1>3, <1>4, PTL DEF Spec, MovedOrUnchanged
=============================================================================
