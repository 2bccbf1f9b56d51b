---------------------------- MODULE SavedState -----------------------------
(***************************************************************************)
(* susa.libvirt.state: LVState, which saves libvirt volumes and the        *)
(* memories of running machines to a directory, and creates them again     *)
(* from it, with LVMachine's and LVVolume's create(), destroy(), save()    *)
(* and restore().                                                          *)
(*                                                                         *)
(* Every method is loops over the resources that run virsh commands, each  *)
(* a step here, between which guests write, shut themselves down and virsh *)
(* fails.  A volume's content is the number of writes to it; a guest's     *)
(* memory is what it knows of its volume and the boot it is from.          *)
(***************************************************************************)
EXTENDS Naturals, Sequences, FiniteSets

CONSTANTS
    Volumes, Machines,
    Resources,       \* what is saved, a sequence of volumes and machines
    DiskOf,          \* the volume of each machine
    Nothing,         \* no content
    MaxWrites, MaxBoots, MaxFaults   \* bounds: writes, boots, failing commands

All == 1 .. Len(Resources)
IsVolume(i) == Resources[i] \in Volumes

\* Each is there once, and a machine after the volume it refers to.
ASSUME ResourcesAssumption ==
    /\ Resources \in Seq(Volumes \cup Machines) /\ Volumes \cap Machines = {}
    /\ \A r \in Volumes \cup Machines : \E i \in All : Resources[i] = r
    /\ \A i, j \in All : Resources[i] = Resources[j] => i = j
    /\ \A i, j \in All :
          Resources[j] \in Machines /\ Resources[i] = DiskOf[Resources[j]] => i < j

\* QEMU locks a volume that a machine has.
ASSUME DiskAssumption ==
    /\ DiskOf \in [Machines -> Volumes]
    /\ \A m, n \in Machines : DiskOf[m] = DiskOf[n] => m = n

ASSUME BoundsAssumption == MaxWrites \in Nat /\ MaxBoots \in Nat \ {0} /\ MaxFaults \in Nat

Contents == 0 .. MaxWrites
Memories == [disk : Contents, boot : 1 .. MaxBoots]
ASSUME NothingAssumption == Nothing \notin Contents \cup Memories

VARIABLES
    call,           \* the method that was called; "undo" is create() destroying
    step, index,    \* where it is: what it does next, and to which resource
    created,        \* how many resources it keeps, the first ones: LVState.resources,
                    \* or a session's
    live,           \* save()'s machines: those that were powered on
    volume,         \* the volumes' contents, or Nothing
    domain, memory, \* the machines: "undefined", "off", "on" or "saved", which is
                    \* off as its memory is in a file; the memories of their guests
    images,         \* the directory's files of volumes and memories, or Nothing
    pickled,        \* whether it has the pickled resources
    made,           \* whether there is a directory
    boots, faults   \* counters, for the bounds

position == <<call, step, index>>
host == <<volume, domain, memory>>
directory == <<images, pickled, made>>
vars == <<position, created, live, host, directory, boots, faults>>

\* What is to be saved was created, and is used.
Init ==
    /\ call = "none" /\ step = "idle" /\ index = 0 /\ live = {}
    /\ created = Len(Resources)
    /\ volume = [v \in Volumes |-> 0]
    /\ domain = [m \in Machines |-> "on"]
    /\ memory = [m \in Machines |-> [disk |-> 0, boot |-> 1]]
    /\ images = [r \in Volumes \cup Machines |-> Nothing] /\ pickled = FALSE /\ made = FALSE
    /\ boots = 1 /\ faults = 0

Idle == call \in {"none", "failed"}

-----------------------------------------------------------------------------
\* The methods: which command follows one that succeeded.

GoTo(c, s, i) == call' = c /\ step' = s /\ index' = i

\* A slip: the machines go on before the volumes are saved.
ResumeFirst(loop) ==
    CASE loop = "look" -> "memorize" [] loop = "memorize" -> "redefine"
      [] loop = "redefine" -> "copy" [] loop = "copy" -> "pickle"

\* A slip: the machines aren't started again.
NoResume(loop) ==
    CASE loop = "look" -> "memorize" [] loop = "memorize" -> "copy" [] loop = "copy" -> "pickle"

\* save()'s loops over the resources, and what follows them.
NextLoop(loop) ==
    CASE loop = "look" -> "memorize" [] loop = "memorize" -> "copy"
      [] loop = "copy" -> "redefine" [] loop = "redefine" -> "pickle"

SaveThen ==
    CASE step = "mkdir" -> GoTo("save", "look", 1)
      [] step \in {"look", "memorize", "copy"} -> GoTo("save", step, index + 1)
      [] step = "redefine" -> GoTo("save", "resume", index)
      [] step = "resume" -> GoTo("save", "redefine", index + 1)
      [] step = "pickle" -> GoTo("none", "idle", 0)

\* A slip: machines boot rather than go on from their memories.
RestoreBoots(i) == IF IsVolume(i) THEN "vol-create" ELSE "define"

\* restore() for what has a file, and create().
FirstStep(i) ==
    CASE IsVolume(i) -> "vol-create"
      [] ~IsVolume(i) /\ images[Resources[i]] # Nothing -> "redefine"
      [] OTHER -> "define"

Creates(i) == IF i \in All THEN GoTo("create", FirstStep(i), i) ELSE GoTo("none", "idle", 0)

\* A slip: volumes are created empty.
RestoreEmpty(s) == CASE s = "redefine" -> "resume" [] s = "define" -> "start" [] OTHER -> "keep"

NextStep(s) ==
    CASE s = "vol-create" -> "vol-upload" [] s = "redefine" -> "resume" [] s = "define" -> "start"
      [] OTHER -> "keep"

CreateThen ==
    CASE step = "load" -> Creates(1)
      [] step = "keep" -> Creates(index + 1)
      [] OTHER -> GoTo("create", NextStep(step), index)

\* A slip: only what was created last.
DestroyLast(c) ==
    IF created = 0 \/ step \in {"vol-delete", "undefine"}
      THEN GoTo(IF c = "undo" THEN "failed" ELSE "none", "idle", 0)
      ELSE GoTo(c, "pop", created)

\* while self.resources.
Unwinds(c) ==
    IF created = 0 THEN GoTo(IF c = "undo" THEN "failed" ELSE "none", "idle", 0)
    ELSE GoTo(c, "pop", created)

DestroyThen ==
    CASE step = "pop" -> GoTo(call, IF IsVolume(index) THEN "vol-delete" ELSE "ask", index)
      [] step = "ask" -> GoTo(call, IF domain[Resources[index]] = "on" THEN "kill" ELSE "undefine", index)
      [] step = "kill" -> GoTo(call, "undefine", index)
      [] OTHER -> Unwinds(call)

Goes ==
    CASE call = "save" -> SaveThen [] call = "create" -> CreateThen [] OTHER -> DestroyThen

\* What raises ends the method, except that create() destroys what it created.
Raises ==
    IF call = "create" /\ created # 0 THEN Unwinds("undo") ELSE GoTo("failed", "idle", 0)

-----------------------------------------------------------------------------
\* Calls.

Calls(at) ==
    /\ Idle
    /\ at
    /\ UNCHANGED <<created, live, host, directory, boots, faults>>

\* mkdir() fails for a directory that is there, and create() without the pickle.
CallSave == created = Len(Resources) /\ ~made /\ Calls(GoTo("save", "mkdir", 0))
CallCreate == created = 0 /\ pickled /\ Calls(GoTo("create", "load", 0))
CallDestroy == created # 0 /\ Calls(Unwinds("destroy"))

\* Steps.
Mkdir ==
    /\ step = "mkdir" /\ Goes
    /\ made' = TRUE
    /\ UNCHANGED <<created, live, host, images, pickled, boots, faults>>

At == Resources[index]

\* What a loop of save() has a command for.
Concerned ==
    /\ index \in All
    /\ CASE step = "look" -> ~IsVolume(index)
         [] step = "copy" -> IsVolume(index)
         [] OTHER -> At \in live

\* is_powered_on of each machine.
Look ==
    /\ step = "look" /\ Concerned /\ Goes
    /\ live' = IF domain[At] = "on" THEN live \cup {At} ELSE live \ {At}
    /\ UNCHANGED <<created, host, directory, boots, faults>>

\* virsh save, of a machine that is running.
Memorizes ==
    /\ step = "memorize" /\ Concerned /\ domain[At] = "on" /\ Goes
    /\ domain' = [domain EXCEPT ![At] = "saved"]
    /\ images' = [images EXCEPT ![At] = memory[At]]
    /\ UNCHANGED <<created, live, volume, memory, pickled, made, boots, faults>>

\* vol-download and qemu-img.
Copies ==
    /\ step = "copy" /\ Concerned /\ Goes
    /\ images' = [images EXCEPT ![At] = volume[At]]
    /\ UNCHANGED <<created, live, host, pickled, made, boots, faults>>

\* The other resources, and the end of the loop.
Passes ==
    /\ step \in {"look", "memorize", "copy"} \/ (step = "redefine" /\ call = "save")
    /\ ~Concerned
    /\ IF index \in All THEN GoTo("save", step, index + 1) ELSE GoTo("save", NextLoop(step), 1)
    /\ UNCHANGED <<created, live, host, directory, boots, faults>>

Pickle ==
    /\ step = "pickle" /\ Goes
    /\ pickled' = TRUE
    /\ UNCHANGED <<created, live, host, images, made, boots, faults>>

Load ==
    /\ step = "load" /\ Goes
    /\ UNCHANGED <<created, live, host, directory, boots, faults>>

\* define and restore, of the XML and the memory in the file.
Resumes ==
    /\ \/ /\ step = "redefine" /\ (call = "save" => Concerned)
          /\ domain' = [domain EXCEPT ![At] = IF @ = "undefined" THEN "off" ELSE @]
          /\ UNCHANGED memory
       \/ /\ step = "resume" /\ domain[At] \in {"off", "saved"}
          /\ domain' = [domain EXCEPT ![At] = "on"]
          /\ memory' = [memory EXCEPT ![At] = images[At]]
    /\ Goes
    /\ UNCHANGED <<created, live, volume, directory, boots, faults>>

\* define and start: the guest reads its volume.
Boots(m) ==
    /\ domain[m] \in {"off", "saved"} /\ boots < MaxBoots /\ volume[DiskOf[m]] # Nothing
    /\ domain' = [domain EXCEPT ![m] = "on"]
    /\ boots' = boots + 1
    /\ memory' = [memory EXCEPT ![m] = [disk |-> volume[DiskOf[m]], boot |-> boots + 1]]
    /\ UNCHANGED volume

Define ==
    /\ \/ /\ step = "define" /\ domain[At] = "undefined"
          /\ domain' = [domain EXCEPT ![At] = "off"]
          /\ UNCHANGED <<volume, memory, boots>>
       \/ step = "start" /\ Boots(At)
    /\ Goes
    /\ UNCHANGED <<created, live, directory, faults>>

\* vol-create, upload and delete.
Volume ==
    /\ \/ step = "vol-create" /\ volume[At] = Nothing /\ volume' = [volume EXCEPT ![At] = 0]
       \/ step = "vol-upload" /\ volume' = [volume EXCEPT ![At] = images[At]]
       \/ step = "vol-delete" /\ volume' = [volume EXCEPT ![At] = Nothing]
    /\ Goes
    /\ UNCHANGED <<created, live, domain, memory, directory, boots, faults>>

\* resources.append() and pop().
Keep ==
    /\ \/ step = "keep" /\ created' = index
       \/ step = "pop" /\ created' = index - 1
    /\ Goes
    /\ UNCHANGED <<live, host, directory, boots, faults>>

\* Asking whether it's on, powering off if it was, and undefining.
Undefine ==
    /\ \/ step = "ask" /\ UNCHANGED domain
       \/ step = "kill" /\ domain[At] = "on" /\ domain' = [domain EXCEPT ![At] = "off"]
       \/ step = "undefine" /\ domain' = [domain EXCEPT ![At] = "undefined"]
    /\ Goes
    /\ UNCHANGED <<created, live, volume, memory, directory, boots, faults>>

\* A command that has to fail: saving a machine that shut itself down since it
\* was asked for, or creating what is there.
Refused ==
    /\ \/ step = "memorize" /\ Concerned /\ domain[At] # "on"
       \/ step = "vol-create" /\ volume[At] # Nothing
       \/ step = "define" /\ domain[At] # "undefined"
    /\ Raises
    /\ UNCHANGED <<created, live, host, directory, boots, faults>>

\* One that fails for another reason, or that powers off a machine which shut itself
\* down since it was asked.  (Session has whatever else a failing destroy() does.)
Fault ==
    /\ \/ call \in {"save", "create"} /\ step # "keep"
       \/ step = "kill" /\ domain[At] # "on"
    /\ faults < MaxFaults /\ faults' = faults + 1
    /\ Raises
    /\ UNCHANGED <<created, live, host, directory, boots>>

Step ==
    \/ Mkdir \/ Look \/ Memorizes \/ Copies \/ Passes \/ Pickle \/ Load \/ Resumes \/ Define
    \/ Volume \/ Keep \/ Undefine \/ Refused

-----------------------------------------------------------------------------
\* The guests, and a user who boots what was created.

Writes(m) ==
    LET v == DiskOf[m] IN
    /\ domain[m] = "on" /\ volume[v] # Nothing /\ volume[v] < MaxWrites
    /\ volume' = [volume EXCEPT ![v] = @ + 1]
    /\ memory' = [memory EXCEPT ![m].disk = @ + 1]
    /\ UNCHANGED <<position, created, live, domain, directory, boots, faults>>

ShutsDown(m) ==
    /\ domain[m] = "on"
    /\ domain' = [domain EXCEPT ![m] = "off"]
    /\ UNCHANGED <<position, created, live, volume, memory, directory, boots, faults>>

PowerOn(i) ==
    /\ Idle /\ ~IsVolume(i) /\ Boots(Resources[i])
    /\ UNCHANGED <<position, created, live, directory, faults>>

Next ==
    \/ CallSave \/ CallCreate \/ CallDestroy \/ Step \/ Fault
    \/ \E m \in Machines : Writes(m) \/ ShutsDown(m)
    \/ \E i \in 1 .. created : PowerOn(i)

Spec == Init /\ [][Next]_vars

-----------------------------------------------------------------------------
\* The type invariant: what the methods, the host and the directory can be at.
Steps ==
    [none |-> {"idle"}, failed |-> {"idle"},
     save |-> {"mkdir", "look", "memorize", "copy", "redefine", "resume", "pickle"},
     create |-> {"load", "vol-create", "vol-upload", "redefine", "resume", "define", "start", "keep"},
     destroy |-> {"pop", "vol-delete", "ask", "kill", "undefine"},
     undo |-> {"pop", "vol-delete", "ask", "kill", "undefine"}]

TypeOK ==
    /\ call \in DOMAIN Steps /\ step \in Steps[call] /\ index \in 0 .. Len(Resources) + 1
    /\ created \in 0 .. Len(Resources)
    /\ live \in SUBSET Machines
    /\ volume \in [Volumes -> {Nothing} \cup Contents]
    /\ domain \in [Machines -> {"undefined", "off", "on", "saved"}]
    /\ memory \in [Machines -> Memories]
    /\ DOMAIN images = Volumes \cup Machines
    /\ \A v \in Volumes : images[v] \in {Nothing} \cup Contents
    /\ \A m \in Machines : images[m] \in {Nothing} \cup Memories
    /\ {pickled, made} \subseteq BOOLEAN
    /\ boots \in 1 .. MaxBoots /\ faults \in 0 .. MaxFaults

\* What a running guest knows of its volume is what the volume has: a machine goes
\* on from its memory only with the volume that memory was saved with.
Coherent ==
    /\ TypeOK
    /\ \A m \in Machines : domain[m] = "on" => memory[m].disk = volume[DiskOf[m]]

\* A directory that can be created from is whole: every volume is in it, and as
\* the memory of its machine has it.
SavedTogether ==
    pickled =>
        /\ \A v \in Volumes : images[v] # Nothing
        /\ \A m \in Machines : images[m] # Nothing => images[m].disk = images[DiskOf[m]]

\* "Created again as they were": once create() succeeded, the machines saved with
\* their memories go on from them rather than boot.
GoesOn ==
    [][call = "create" /\ call' = "none" =>
        \A m \in Machines : images[m] # Nothing => memory'[m].boot = images[m].boot]_vars

\* A save() that succeeds leaves no machine stopped: those it stopped go on.
SaveGivesBack ==
    [][call = "save" /\ call' = "none" => \A m \in Machines : domain'[m] # "saved"]_vars

\* A create() that fails leaves nothing but the resource that failed, if only that
\* one failed.
Existing ==
    {v \in Volumes : volume[v] # Nothing} \cup {m \in Machines : domain[m] # "undefined"}

OneLeftAtMost ==
    [][(call = "create" \/ call = "undo") /\ call' = "failed" /\ faults' <= 1 =>
        Cardinality(Existing') <= 1]_vars
=============================================================================
