--------------------------- MODULE DefaultSession ---------------------------
(***************************************************************************)
(* susa.utilities.environment: the session that SUSA_SESSION's recipe      *)
(* describes, and the default of susa.core.communicator.HOST, its object   *)
(* "host".  session() is wrapped in functools.cache, which keeps what the  *)
(* function returned, once it did: until then each call is one more        *)
(* cooking, also one that an object of that very recipe makes, which takes *)
(* the default as it is made (SSHCommunicator and SubnetReservation have   *)
(* `host or HOST.get()').  Cookings nest, up to Python's recursion limit.  *)
(***************************************************************************)
EXTENDS Naturals, Sequences, Functions

CONSTANTS
    N,          \* the recipe's objects: 1 .. N, all of which are Resources
    MaxCooked,  \* bound: how many sessions are made
    MaxDepth,   \* the recursion limit
    MaxFaults,  \* bound: how many calls of create() and destroy() fail
    None

Obj == 1 .. N
Cooking == 1 .. MaxCooked

VARIABLES
    asks,     \* the objects that take the default as they're made, which never changes
    named,    \* what the recipe calls "host", neither does: "runner", "other" or "nothing"
    stack,    \* the calls of session() under way: each its cooking, and what it created
    raising,  \* whether an exception leaves the innermost of them
    cooked,   \* how many sessions were made
    session,  \* the cooking whose session is cached, or None
    default,  \* what HOST's default factory returned, which is cached too, or None
    answers,  \* what HOST.get() returned to its callers
    things,   \* what objects put on the host: <<cooking, object>>
    halfway,  \* history: the objects whose create() failed
    stuck,    \* history: the objects whose destroy() failed
    faults    \* how many of both

failings == <<halfway, stuck, faults>>
vars == <<asks, named, stack, raising, cooked, session, default, answers, things, failings>>

Assumptions ==
    /\ {N, MaxCooked, MaxFaults} \subseteq Nat /\ MaxDepth \in Nat \ {0}
    /\ None \notin Cooking

Init ==
    /\ asks \in SUBSET Obj
    /\ named \in {"runner", "other", "nothing"}
    /\ stack = <<>> /\ raising = FALSE /\ cooked = 0
    /\ session = None /\ default = None /\ answers = {} /\ things = {}
    /\ halfway = {} /\ stuck = {} /\ faults = 0

-----------------------------------------------------------------------------
Top == stack[Len(stack)]
Below == SubSeq(stack, 1, Len(stack) - 1)
NextObj == Len(Top.created) + 1
Working == stack # <<>> /\ ~raising
Asking == Working /\ NextObj \in asks

\* default("host", AsyncCommandRunner) or HostAsyncCommandRunner(): the session's object,
\* or, when it has none of that name, what runs commands on this system.  (One of another
\* class raises.)
DefaultOf(s) == IF named = "runner" THEN <<"session", s>> ELSE <<"own", 0>>

\* HOST.get(), outside of any cooking, when the session is there.
Get ==
    /\ stack = <<>> /\ session # None /\ named # "other"
    /\ default' = IF default = None THEN DefaultOf(session) ELSE default
    /\ answers' = answers \cup {default'}
    /\ UNCHANGED <<asks, named, stack, raising, cooked, session, things, failings>>

\* session(), called by HOST.get() or by an object that Session.create() makes.
Cook ==
    /\ session = None /\ cooked < MaxCooked
    /\ \/ stack = <<>>
       \/ Asking /\ Len(stack) < MaxDepth
    /\ cooked' = cooked + 1
    /\ stack' = Append(stack, [cooking |-> cooked', created |-> <<>>])
    /\ UNCHANGED <<asks, named, raising, session, default, answers, things, failings>>

\* RecursionError.
TooDeep ==
    /\ Asking /\ Len(stack) = MaxDepth
    /\ raising' = TRUE
    /\ UNCHANGED <<asks, named, stack, cooked, session, default, answers, things, failings>>

\* Session.create() makes and creates the next object, which doesn't ask.
CreateNext ==
    /\ Working /\ NextObj \in Obj \ asks
    /\ stack' = [stack EXCEPT ![Len(stack)].created = Append(@, NextObj)]
    /\ things' = things \cup {<<Top.cooking, NextObj>>}
    /\ UNCHANGED <<asks, named, raising, cooked, session, default, answers, failings>>

\* It raises, having put something there or not; or what interrupts it does, before the
\* object is appended to those created.
CreateFails ==
    /\ Working /\ NextObj \in Obj \ asks /\ faults < MaxFaults
    /\ LET failing == <<Top.cooking, NextObj>> IN
       /\ things' \in {things, things \cup {failing}}
       /\ halfway' = halfway \cup {failing}
    /\ raising' = TRUE /\ faults' = faults + 1
    /\ UNCHANGED <<asks, named, stack, cooked, session, default, answers, stuck>>

\* A slip: session() isn't cached.
Forgotten(s) == None

Cached(s) == s

\* session() returns.  (No object is left to wait for it: none that asks is ever made.)
Return ==
    /\ Working /\ NextObj > N
    /\ session' = Cached(Top.cooking)
    /\ stack' = Below
    /\ UNCHANGED <<asks, named, raising, cooked, default, answers, things, failings>>

\* The exception passes create(), which destroys what it created one by one, the last
\* first.
Last == Top.created[Len(Top.created)]

DestroyLast ==
    /\ raising /\ Top.created # <<>>
    /\ stack' = [stack EXCEPT ![Len(stack)].created = SubSeq(@, 1, Len(@) - 1)]
    /\ things' = things \ {<<Top.cooking, Last>>}
    /\ UNCHANGED <<asks, named, raising, cooked, session, default, answers, failings>>

\* Then it leaves session(), which has nothing to cache, and the object that asked, if one
\* did, isn't made either.
Leaves ==
    /\ stack' = Below
    /\ raising' = (Len(stack) > 1)
    /\ UNCHANGED <<asks, named, cooked, session, default, answers, halfway>>

Unwound == raising /\ Top.created = <<>> /\ Leaves /\ UNCHANGED <<things, stuck, faults>>

\* A destroy() raises, with the object gone or not.  Nobody has the session to call
\* destroy() again, so those created before stay.
DestroyFails ==
    /\ raising /\ Top.created # <<>> /\ faults < MaxFaults
    /\ LET failing == <<Top.cooking, Last>> IN
       /\ things' \in {things, things \ {failing}}
       /\ stuck' = stuck \cup {failing}
    /\ faults' = faults + 1
    /\ Leaves

Next ==
    \/ Get \/ Cook \/ TooDeep \/ CreateNext \/ CreateFails \/ Return
    \/ DestroyLast \/ Unwound \/ DestroyFails

Spec == Init /\ [][Next]_vars

-----------------------------------------------------------------------------
TypeOK ==
    /\ asks \subseteq Obj /\ named \in {"runner", "other", "nothing"}
    /\ stack \in Seq([cooking : Cooking, created : Seq(Obj)]) /\ Len(stack) <= MaxDepth
    /\ raising \in BOOLEAN /\ cooked \in 0 .. MaxCooked /\ faults \in 0 .. MaxFaults
    /\ session \in Cooking \cup {None}
    /\ answers \subseteq ({"session"} \X Cooking) \cup {<<"own", 0>>}
    /\ default \in answers \cup {None}
    /\ {things, halfway, stuck} \subseteq SUBSET (Cooking \X Obj)

\* "cooked once it's first needed", the comment on session(): unless a cooking fails,
\* which is tried again the next time, there's one session at most.
CookedOnce == faults = 0 => cooked <= 1

\* What the session that is cached, or those under way, created; and what a cooking may
\* have left: an object whose create() failed, and, when a destroy() failed, that object
\* and those created before it.
Owned ==
    {<<session, i>> : i \in {j \in Obj : session # None}}
        \cup UNION {{<<stack[d].cooking, i>> : i \in Range(stack[d].created)} :
                      d \in DOMAIN stack}

Left == halfway \cup UNION {{<<t[1], i>> : i \in 1 .. t[2]} : t \in stuck}

\* For a recipe none of whose objects asks for the default, CookedOnce holds, and
\* whoever takes HOST's default gets the same.  Whatever a recipe asks, however deep its
\* cookings nested, and whichever create() and destroy() failed in them, the session that
\* is cached is there as a whole, no cooking took anything of another's with it, and
\* besides, nothing is left but by a create() or destroy() that failed.
OneDefault ==
    /\ TypeOK
    /\ asks = {} => CookedOnce
    /\ \A a, b \in answers : a = b
    /\ Owned \subseteq things /\ things \subseteq Owned \cup Left
=============================================================================
