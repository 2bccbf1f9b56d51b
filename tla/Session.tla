------------------------------ MODULE Session ------------------------------
(***************************************************************************)
(* susa.recipes.session.Session: a list of named recipes, each made into   *)
(* an object and, if it is a Resource, created, in order; destroyed in     *)
(* reverse.  create() that fails, or is interrupted (it catches            *)
(* BaseException), destroys what it had created.  Any create() or          *)
(* destroy() of a resource may fail.                                       *)
(*                                                                         *)
(* An object of one round of create() is another object than that of the   *)
(* next: models name what they make at random.  So what is on the host is  *)
(* a set of things <<object, round>>.                                      *)
(***************************************************************************)
EXTENDS Integers, FiniteSets, Sequences, Functions

CONSTANTS
    N,          \* the number of objects
    Resources,  \* those that are Resources; the others are only made
    RefsChoices, \* of sessions: [Obj -> SUBSET Obj], the objects that recipes refer to
    Faults,     \* which of "create", "halfway", "destroy", "interrupt" happen
    MaxRounds,  \* bound: how many times create() is called
    MaxFaults   \* bound: how many things go wrong

Obj == 1 .. N
Round == 1 .. MaxRounds
Thing == Obj \X Round

Assumptions ==
    /\ {N, MaxRounds, MaxFaults} \subseteq Nat
    /\ Resources \subseteq Obj /\ RefsChoices \subseteq [Obj -> SUBSET Obj]

VARIABLES
    refs,     \* the session: what each of its recipes refers to, which never changes
    pc,       \* what the session is doing
    next,     \* create(): the entry of self.objects it is at
    round,    \* how many times create() was called
    made,     \* [Obj -> the round of the object in self._made], 0 if none
    created,  \* self._created
    out,      \* destroy(): what it popped
    host,     \* the things that are on the host, whole or in part
    faulty    \* the things on which something went wrong

vars == <<refs, pc, next, round, made, created, out, host, faulty>>

This == <<next, round>>

Init ==
    /\ refs \in RefsChoices
    /\ pc = "idle"
    /\ next = 1
    /\ round = 0
    /\ made = [i \in Obj |-> 0]
    /\ created = <<>>
    /\ out = <<0, 0>>
    /\ host = {}
    /\ faulty = {}

May(fault) == fault \in Faults /\ Cardinality(faulty) < MaxFaults

-----------------------------------------------------------------------------
Start == 1

\* create(), whose assertion refuses a session that still has something.
Create ==
    /\ pc = "idle"
    /\ created = <<>>
    /\ round < MaxRounds
    /\ round' = round + 1
    /\ next' = Start
    /\ pc' = "making"
    /\ UNCHANGED <<refs, made, created, out, host, faulty>>

\* A slip: a reference to nothing made yet is let through.
ResolvesAnything(i) == TRUE

\* Reference.resolve finds names in self._made, where those of the last round
\* still are.
Resolves(i) == \A r \in refs[i] : made[r] # 0

Make ==
    /\ pc = "making"
    /\ next <= N
    /\ Resolves(next)
    /\ made' = [made EXCEPT ![next] = round]
    /\ IF next \in Resources
         THEN pc' = "creating" /\ next' = next
         ELSE pc' = "making" /\ next' = next + 1
    /\ UNCHANGED <<refs, round, created, out, host, faulty>>

\* "Unknown reference", a ValueError.
MakeFails ==
    /\ pc = "making"
    /\ next <= N
    /\ ~Resolves(next)
    /\ pc' = "destroying"
    /\ UNCHANGED <<refs, next, round, made, created, out, host, faulty>>

Created ==
    /\ pc = "creating"
    /\ host' = host \cup {This}
    /\ pc' = "appending"
    /\ UNCHANGED <<refs, next, round, made, created, out, faulty>>

\* create() of a resource raises: at once, or after a part of it is there (a
\* machine that is defined and doesn't start).
CreateFails ==
    /\ pc = "creating"
    /\ \/ May("create") /\ host' = host
       \/ May("halfway") /\ host' = host \cup {This}
    /\ faulty' = faulty \cup {This}
    /\ pc' = "destroying"
    /\ UNCHANGED <<refs, next, round, made, created, out>>

\* A slip: what was created isn't recorded.
Unrecorded(c, t) == c

Recorded(c, t) == Append(c, t)

Appended ==
    /\ pc = "appending"
    /\ created' = Recorded(created, This)
    /\ next' = next + 1
    /\ pc' = "making"
    /\ UNCHANGED <<refs, round, made, out, host, faulty>>

\* KeyboardInterrupt, anywhere in the try block.
Interrupt ==
    /\ May("interrupt")
    /\ \/ /\ pc = "making"
          /\ host' = host /\ faulty' = faulty
       \/ /\ pc = "creating"
          /\ host' \in {host, host \cup {This}} /\ faulty' = faulty \cup {This}
       \/ /\ pc = "appending"
          /\ host' = host /\ faulty' = faulty \cup {This}
    /\ pc' = "destroying"
    /\ UNCHANGED <<refs, next, round, made, created, out>>

Up ==
    /\ pc = "making"
    /\ next > N
    /\ pc' = "idle"
    /\ UNCHANGED <<refs, next, round, made, created, out, host, faulty>>

-----------------------------------------------------------------------------
Destroy ==
    /\ pc = "idle"
    /\ round > 0
    /\ pc' = "destroying"
    /\ UNCHANGED <<refs, next, round, made, created, out, host, faulty>>

\* Slips: pop(0), and looking at the last one without popping it.
PopFirst(c) == [popped |-> Head(c), left |-> Tail(c)]
PeekLast(c) == [popped |-> c[Len(c)], left |-> c]

PopLast(c) == [popped |-> c[Len(c)], left |-> SubSeq(c, 1, Len(c) - 1)]

Pop ==
    /\ pc = "destroying"
    /\ created # <<>>
    /\ out' = PopLast(created).popped
    /\ created' = PopLast(created).left
    /\ pc' = "popped"
    /\ UNCHANGED <<refs, next, round, made, host, faulty>>

Destroyed ==
    /\ pc = "popped"
    /\ host' = host \ {out}
    /\ pc' = "destroying"
    /\ UNCHANGED <<refs, next, round, made, created, out, faulty>>

\* destroy() of a resource raises, or is interrupted: the loop ends there.
DestroyFails ==
    /\ pc = "popped"
    /\ May("destroy") \/ May("interrupt")
    /\ faulty' = faulty \cup {out}
    /\ pc' = "idle"
    /\ UNCHANGED <<refs, next, round, made, created, out, host>>

\* KeyboardInterrupt between two objects, none of which is lost to the session.
DestroyInterrupted ==
    /\ pc = "destroying"
    /\ May("interrupt")
    /\ pc' = "idle"
    /\ UNCHANGED <<refs, next, round, made, created, out, host, faulty>>

AllDestroyed ==
    /\ pc = "destroying"
    /\ created = <<>>
    /\ pc' = "idle"
    /\ UNCHANGED <<refs, next, round, made, created, out, host, faulty>>

Next ==
    \/ Create \/ Make \/ MakeFails \/ Created \/ CreateFails \/ Appended \/ Interrupt \/ Up
    \/ Destroy \/ Pop \/ Destroyed \/ DestroyFails \/ DestroyInterrupted \/ AllDestroyed

Spec == Init /\ [][Next]_vars

-----------------------------------------------------------------------------
TypeOK ==
    /\ refs \in RefsChoices
    /\ pc \in {"idle", "making", "creating", "appending", "destroying", "popped"}
    /\ next \in 1 .. N + 1
    /\ round \in 0 .. MaxRounds
    /\ made \in [Obj -> 0 .. MaxRounds]
    /\ created \in Seq(Thing)
    /\ out \in Thing \cup {<<0, 0>>}
    /\ host \subseteq Thing
    /\ faulty \subseteq Thing

\* The thing that a step of create() or destroy() is busy with.
Busy ==
    (IF pc = "appending" THEN {This} ELSE {}) \cup (IF pc = "popped" THEN {out} ELSE {})

\* Whatever else failed and wherever create() was interrupted, a thing on the
\* host is in _created, so that destroy() will get to it, or its own create() or
\* destroy() went wrong: no fault makes the session lose another object.
OnlyItsOwnFault == host \subseteq Range(created) \cup Busy \cup faulty

\* destroy() is never called on what was never created or is destroyed already
\* (and the variables keep their types).
CreatedOnce ==
    /\ TypeOK
    /\ Range(created) \subseteq host
    /\ pc = "popped" => out \in host /\ out \notin Range(created)

\* "destroyed in reverse": a thing goes only when all that came after it, and may
\* refer to it, went, but for those whose own create() or destroy() failed.
DependentsFirst ==
    \A t \in host \ host', u \in host' : u[2] = t[2] /\ u[1] > t[1] => u \in faulty

\* "They refer to the ones before": although _made keeps the last round's objects,
\* a reference never resolves to one of them.
RefsOfThisRound ==
    \A i \in Obj : made'[i] # made[i] => \A r \in refs[i] : made[r] = round
=============================================================================
