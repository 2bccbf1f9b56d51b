-------------------------- MODULE SavedStateProofs -------------------------
(***************************************************************************)
(* What holds of SavedState for any resources in which each machine comes  *)
(* after the volume it has, and any number of writes, boots and failures.  *)
(***************************************************************************)
EXTENDS SavedState, FiniteSetTheorems, TLAPS

\* The methods that create and destroy, by what they have in hand: a resource between
\* the first command for it and its being kept, or after it was popped.
InHand ==
    \/ call = "create" /\ step \in {"vol-upload", "resume", "start", "keep"}
    \/ call \in {"destroy", "undo"} /\ step # "pop"

Placed ==
    /\ call = "save" =>
        /\ created = Len(Resources) /\ ~pickled
        /\ made <=> step # "mkdir"
        /\ step \notin {"mkdir", "pickle"} => index >= 1
        /\ step = "resume" => index \in All /\ At \in live
    /\ call = "create" =>
        /\ pickled
        /\ step = "load" => created = 0
        /\ step # "load" => index \in All /\ created = index - 1
        /\ step \in {"vol-create", "vol-upload"} => IsVolume(index)
        /\ step \in {"redefine", "resume"} => ~IsVolume(index) /\ images[At] # Nothing
        /\ step \in {"define", "start"} => ~IsVolume(index) /\ images[At] = Nothing
    /\ call \in {"destroy", "undo"} =>
        /\ index \in All
        /\ created = IF step = "pop" THEN index ELSE index - 1
        /\ step = "vol-delete" => IsVolume(index)
        /\ step \in {"ask", "kill", "undefine"} => ~IsVolume(index)
        /\ step = "undefine" => domain[At] # "on"

\* What is kept is there, and only what is kept, or was until now, is on.
KeptIsThere ==
    \A i \in All : IsVolume(i) /\ (i <= created \/ (i = index /\ call = "create" /\ step = "keep")) =>
        volume[Resources[i]] # Nothing

OnlyKeptRun ==
    \A i \in All : ~IsVolume(i) /\ domain[Resources[i]] = "on" =>
        \/ i <= created
        \/ i = index /\ call = "create" /\ step = "keep"
        \/ i = index /\ call \in {"destroy", "undo"} /\ step \in {"ask", "kill"}

\* How far save() is, by the resource.
Memorized(i) == (step = "memorize" /\ i < index) \/ step \in {"copy", "redefine", "resume", "pickle"}
Copied(i) == (step = "copy" /\ i < index) \/ step \in {"redefine", "resume", "pickle"}
Resumed(i) == (step \in {"redefine", "resume"} /\ i < index) \/ step = "pickle"

\* Until save() goes on with it, a machine is as its memory in the file has it, and
\* so is its volume, whenever that is copied.
Saving ==
    call = "save" =>
        /\ \A i \in All : IsVolume(i) /\ Copied(i) => images[Resources[i]] # Nothing
        /\ \A i \in All : ~IsVolume(i) =>
            LET m == Resources[i] IN
            /\ ~Memorized(i) \/ m \notin live => images[m] = Nothing /\ domain[m] # "saved"
            /\ Memorized(i) /\ m \in live =>
                /\ images[m] # Nothing
                /\ IF Resumed(i) THEN domain[m] # "saved"
                   ELSE domain[m] = "saved" /\ images[m].disk = volume[DiskOf[m]]
                /\ \A j \in All : Resources[j] = DiskOf[m] /\ Copied(j) =>
                      images[m].disk = images[DiskOf[m]]

Unmade ==
    ~made =>
        /\ ~pickled
        /\ \A r \in Volumes \cup Machines : images[r] = Nothing
        /\ \A m \in Machines : domain[m] # "saved"

\* Until create() starts the machine, its volume has what was saved.
Started(i) == i <= created \/ (i = index /\ step = "keep")

Creating ==
    call = "create" => \A i \in All : ~IsVolume(i) =>
        LET m == Resources[i] IN
        /\ ~Started(i) => \A j \in All :
              Resources[j] = DiskOf[m] /\ Started(j) => volume[DiskOf[m]] = images[DiskOf[m]]
        /\ Started(i) /\ images[m] # Nothing => memory[m].boot = images[m].boot

\* What is there, isn't kept and won't be: one for each command that failed.
Exists(i) == IF IsVolume(i) THEN volume[Resources[i]] # Nothing ELSE domain[Resources[i]] # "undefined"
Leftovers == {i \in All : Exists(i) /\ i > created /\ ~(i = index /\ InHand)}

FewLeft ==
    /\ faults = 0 => Leftovers = {}
    /\ faults <= 1 => \A i, j \in Leftovers : i = j
    /\ call = "undo" => faults # 0

IInv ==
    /\ Coherent /\ Placed /\ KeptIsThere /\ OnlyKeptRun /\ Saving /\ Unmade /\ SavedTogether
    /\ Creating /\ FewLeft

-----------------------------------------------------------------------------
LEMMA ResourceFacts ==
    /\ Len(Resources) \in Nat /\ All = 1 .. Len(Resources)
    /\ \A i \in All : IsVolume(i) => Resources[i] \in Volumes /\ Resources[i] \notin Machines
    /\ \A i \in All : ~IsVolume(i) => Resources[i] \in Machines /\ Resources[i] \notin Volumes
    /\ \A i, j \in All : Resources[i] = Resources[j] => i = j
    /\ \A m \in Machines : \E i \in All : ~IsVolume(i) /\ Resources[i] = m
    /\ \A v \in Volumes : \E i \in All : IsVolume(i) /\ Resources[i] = v
  <1>1. Len(Resources) \in Nat /\ \A i \in All : Resources[i] \in Volumes \cup Machines
    BY ResourcesAssumption DEF All
  <1> QED BY <1>1, ResourcesAssumption DEF All, IsVolume

LEMMA DiskFacts ==
    /\ \A m \in Machines : DiskOf[m] \in Volumes
    /\ \A m, n \in Machines : DiskOf[m] = DiskOf[n] => m = n
    /\ \A i \in All : ~IsVolume(i) =>
          \E j \in All : IsVolume(j) /\ Resources[j] = DiskOf[Resources[i]]
    /\ \A i, j \in All : ~IsVolume(i) /\ Resources[j] = DiskOf[Resources[i]] => j < i /\ IsVolume(j)
  BY ResourceFacts, DiskAssumption, ResourcesAssumption DEF IsVolume

\* A method that begins.
LEMMA CallsKeep ==
    ASSUME IInv, CallSave \/ CallCreate \/ CallDestroy
    PROVE  IInv'
  <1> USE DEF IInv
  <1>1. /\ Idle /\ TypeOK
        /\ UNCHANGED <<created, live, volume, domain, memory, images, pickled, made, boots, faults>>
        /\ \/ call' = "save" /\ step' = "mkdir" /\ index' = 0 /\ created = Len(Resources) /\ ~made
           \/ call' = "create" /\ step' = "load" /\ index' = 0 /\ created = 0 /\ pickled
           \/ call' = "destroy" /\ step' = "pop" /\ index' = created /\ created # 0
    BY DEF CallSave, CallCreate, CallDestroy, Calls, Unwinds, GoTo, host, directory, Coherent
  <1>2. created \in 0 .. Len(Resources) /\ Len(Resources) \in Nat
    BY <1>1, ResourceFacts DEF TypeOK
  <1>3. Coherent'
    BY <1>1, <1>2 DEF Coherent, TypeOK, Steps
  <1>4. Placed'
    BY <1>1, <1>2 DEF Placed, Unmade, All
  <1>5. KeptIsThere' /\ OnlyKeptRun'
    BY <1>1 DEF KeptIsThere, OnlyKeptRun, Idle
  <1>6. Saving'
    <2> SUFFICES ASSUME call' = "save" PROVE Saving'
      BY DEF Saving
    <2> QED BY <1>1, ResourceFacts DEF Saving, Memorized, Copied, Unmade
  <1>7. Unmade' /\ SavedTogether'
    BY <1>1 DEF Unmade, SavedTogether
  <1>8. Creating'
    BY <1>1, <1>2 DEF Creating, Started, All
  <1>9. FewLeft'
    <2>1. Leftovers' = Leftovers
      BY <1>1 DEF Leftovers, Exists, InHand, Idle
    <2> QED BY <2>1, <1>1 DEF FewLeft
  <1> QED BY <1>3, <1>4, <1>5, <1>6, <1>7, <1>8, <1>9

\* Which method a step is of.
LEMMA StepsOf ==
    ASSUME TypeOK
    PROVE  /\ step \in {"mkdir", "look", "memorize", "copy", "pickle"} => call = "save"
           /\ step \in {"load", "vol-create", "vol-upload", "define", "start", "keep"} => call = "create"
           /\ step \in {"redefine", "resume"} => call \in {"save", "create"}
           /\ step \in {"pop", "vol-delete", "ask", "kill", "undefine"} => call \in {"destroy", "undo"}
           /\ call \in {"none", "failed", "save", "create", "destroy", "undo"}
  BY DEF TypeOK, Steps

-----------------------------------------------------------------------------
\* save().

LEMMA MkdirKeeps ==
    ASSUME IInv, Mkdir
    PROVE  IInv'
  <1> USE DEF IInv
  <1>1. /\ TypeOK /\ step = "mkdir" /\ call = "save" /\ made'
        /\ call' = "save" /\ step' = "look" /\ index' = 1
        /\ UNCHANGED <<created, live, volume, domain, memory, images, pickled, boots, faults>>
        /\ created = Len(Resources) /\ ~made
    BY StepsOf DEF Mkdir, Goes, SaveThen, GoTo, host, Coherent, Placed
  <1>2. Len(Resources) \in Nat
    BY ResourceFacts
  <1>3. Coherent'
    BY <1>1, <1>2 DEF Coherent, TypeOK, Steps
  <1>4. Placed'
    BY <1>1 DEF Placed, Unmade
  <1>5. KeptIsThere' /\ OnlyKeptRun'
    BY <1>1 DEF KeptIsThere, OnlyKeptRun
  <1>6. Saving'
    BY <1>1, ResourceFacts DEF Saving, Memorized, Copied, Unmade
  <1>7. Unmade' /\ SavedTogether' /\ Creating'
    BY <1>1 DEF Unmade, SavedTogether, Creating
  <1>8. FewLeft'
    <2>1. Leftovers' = Leftovers
      BY <1>1 DEF Leftovers, Exists, InHand
    <2> QED BY <2>1, <1>1 DEF FewLeft
  <1> QED BY <1>3, <1>4, <1>5, <1>6, <1>7, <1>8

\* The steps of save() that change nothing but where it is, and what it looked at.
LEMMA LooksKeep ==
    ASSUME IInv, Look \/ (Passes /\ call = "save")
    PROVE  IInv'
  <1> USE DEF IInv
  <1>1. /\ TypeOK /\ call = "save" /\ call' = "save"
        /\ UNCHANGED <<created, volume, domain, memory, images, pickled, made, boots, faults>>
        /\ created = Len(Resources) /\ made /\ ~pickled /\ index \in 1 .. Len(Resources) + 1
    <2>1. /\ TypeOK /\ call = "save" /\ step \in {"look", "memorize", "copy", "redefine"}
          /\ UNCHANGED <<created, volume, domain, memory, images, pickled, made, boots, faults>>
      BY StepsOf DEF Look, Passes, host, directory, Coherent
    <2>2. call' = "save"
      BY <2>1 DEF Look, Passes, Goes, SaveThen, GoTo
    <2>3. index \in 1 .. Len(Resources) + 1
      BY <2>1, ResourceFacts DEF Placed, TypeOK
    <2> QED BY <2>1, <2>2, <2>3 DEF Placed
  <1>2. /\ Len(Resources) \in Nat /\ All = 1 .. Len(Resources)
    BY ResourceFacts
  <1>3. \/ /\ index \in All /\ step \in {"look", "memorize", "copy", "redefine"}
           /\ step' = step /\ index' = index + 1
           /\ step = "memorize" \/ step = "redefine" => At \notin live
           /\ step = "copy" => ~IsVolume(index)
        \/ /\ index = Len(Resources) + 1 /\ index' = 1
           /\ \/ step = "look" /\ step' = "memorize"
              \/ step = "memorize" /\ step' = "copy"
              \/ step = "copy" /\ step' = "redefine"
              \/ step = "redefine" /\ step' = "pickle"
    <2>1. CASE Look
      BY <2>1, <1>1, <1>2 DEF Look, Concerned, Goes, SaveThen, GoTo
    <2>2. CASE Passes
      BY <2>2, <1>1, <1>2 DEF Passes, Concerned, NextLoop, GoTo
    <2> QED BY <2>1, <2>2
  <1>4. live' \subseteq Machines /\ (step # "look" => live' = live)
    <2>1. CASE Look
      BY <2>1, ResourceFacts, <1>1 DEF Look, Concerned, TypeOK, At
    <2>2. CASE Passes
      BY <2>2, <1>1 DEF Passes, TypeOK
    <2> QED BY <2>1, <2>2
  <1>5. Coherent'
    BY <1>1, <1>2, <1>3, <1>4 DEF Coherent, TypeOK, Steps
  <1>6. Placed'
    BY <1>1, <1>3, <1>2 DEF Placed
  <1>7. KeptIsThere' /\ OnlyKeptRun'
    BY <1>1 DEF KeptIsThere, OnlyKeptRun
  <1>8. Saving'
    <2>1. \A i \in All : IsVolume(i) => (Copied(i)' <=> Copied(i))
      BY <1>2, <1>3 DEF Copied
    <2>2. \A i \in All : ~IsVolume(i) =>
             /\ (Memorized(i)' <=> Memorized(i)) \/ (Memorized(i)' /\ Resources[i] \notin live' /\ step = "memorize")
             /\ (Resumed(i)' <=> Resumed(i)) \/ (Resumed(i)' /\ Resources[i] \notin live')
             /\ step = "look" => ~Memorized(i) /\ ~Memorized(i)'
      BY <1>2, <1>3, <1>4 DEF Memorized, Resumed, At
    <2>3. ASSUME NEW i \in All, IsVolume(i), Copied(i)' PROVE images'[Resources[i]] # Nothing
      BY <2>1, <2>3, <1>1 DEF Saving
    <2>4. ASSUME NEW i \in All, ~IsVolume(i), ~Memorized(i)' \/ Resources[i] \notin live'
          PROVE  images'[Resources[i]] = Nothing /\ domain'[Resources[i]] # "saved"
      BY <2>2, <2>4, <1>1, <1>4 DEF Saving
    <2>5. ASSUME NEW i \in All, ~IsVolume(i), Memorized(i)', Resources[i] \in live'
          PROVE  /\ Memorized(i) /\ Resources[i] \in live /\ (Resumed(i)' <=> Resumed(i))
      BY <2>2, <2>5, <1>4
    <2>6. ASSUME NEW i \in All, ~IsVolume(i), Memorized(i)', Resources[i] \in live',
                 NEW j \in All, Resources[j] = DiskOf[Resources[i]], Copied(j)'
          PROVE  images'[Resources[i]].disk = images'[DiskOf[Resources[i]]]
      <3>1. Copied(j)
        BY <2>1, <2>6, DiskFacts
      <3> QED BY <3>1, <2>5, <2>6, <1>1 DEF Saving
    <2>7. ASSUME NEW i \in All, ~IsVolume(i), Memorized(i)', Resources[i] \in live'
          PROVE  /\ images'[Resources[i]] # Nothing
                 /\ IF Resumed(i)' THEN domain'[Resources[i]] # "saved"
                    ELSE /\ domain'[Resources[i]] = "saved"
                         /\ images'[Resources[i]].disk = volume'[DiskOf[Resources[i]]]
      BY <2>5, <2>7, <1>1 DEF Saving
    <2> QED BY <2>3, <2>4, <2>6, <2>7 DEF Saving
  <1>9. Unmade' /\ SavedTogether' /\ Creating'
    BY <1>1 DEF Unmade, SavedTogether, Creating
  <1>10. FewLeft'
    <2>1. Leftovers' = Leftovers
      BY <1>1 DEF Leftovers, Exists, InHand
    <2> QED BY <2>1, <1>1 DEF FewLeft
  <1> QED BY <1>5, <1>6, <1>7, <1>8, <1>9, <1>10

\* A step that leaves no more behind.
LEMMA FewerLeft ==
    ASSUME FewLeft, Leftovers' \subseteq Leftovers, faults' = faults, call' = "undo" => call = "undo"
    PROVE  FewLeft'
  BY DEF FewLeft

LEMMA PickleKeeps ==
    ASSUME IInv, Pickle
    PROVE  IInv'
  <1> USE DEF IInv
  <1>1. /\ TypeOK /\ step = "pickle" /\ call = "save" /\ pickled'
        /\ call' = "none" /\ step' = "idle" /\ index' = 0
        /\ UNCHANGED <<created, live, volume, domain, memory, images, made, boots, faults>>
        /\ created = Len(Resources) /\ made
    BY StepsOf DEF Pickle, Goes, SaveThen, GoTo, host, Coherent, Placed
  <1>2. Len(Resources) \in Nat
    BY ResourceFacts
  <1>3. Coherent'
    BY <1>1, <1>2 DEF Coherent, TypeOK, Steps
  <1>4. Placed' /\ KeptIsThere' /\ OnlyKeptRun' /\ Saving' /\ Creating'
    BY <1>1 DEF Placed, KeptIsThere, OnlyKeptRun, Saving, Creating
  <1>5. Unmade'
    BY <1>1 DEF Unmade
  <1>6. SavedTogether'
    <2>1. ASSUME NEW v \in Volumes PROVE images[v] # Nothing
      <3>1. PICK i \in All : IsVolume(i) /\ Resources[i] = v
        BY ResourceFacts
      <3> QED BY <3>1, <1>1 DEF Saving, Copied
    <2>2. ASSUME NEW m \in Machines, images[m] # Nothing
          PROVE  images[m].disk = images[DiskOf[m]]
      <3>1. PICK i \in All : ~IsVolume(i) /\ Resources[i] = m
        BY ResourceFacts
      <3>2. PICK j \in All : IsVolume(j) /\ Resources[j] = DiskOf[m]
        BY <3>1, DiskFacts
      <3>3. Memorized(i) /\ m \in live /\ Copied(j)
        BY <3>1, <2>2, <1>1 DEF Saving, Memorized, Copied
      <3> QED BY <3>1, <3>2, <3>3, <1>1 DEF Saving
    <2> QED BY <2>1, <2>2, <1>1 DEF SavedTogether
  <1>7. FewLeft'
    <2>1. Leftovers' \subseteq Leftovers
      BY <1>1 DEF Leftovers, Exists, InHand
    <2> QED BY <2>1, <1>1, FewerLeft
  <1> QED BY <1>3, <1>4, <1>5, <1>6, <1>7

LEMMA MemorizesKeep ==
    ASSUME IInv, Memorizes
    PROVE  IInv'
  <1> USE DEF IInv
  <1>1. /\ TypeOK /\ step = "memorize" /\ call = "save"
        /\ call' = "save" /\ step' = "memorize" /\ index' = index + 1
        /\ index \in All /\ At \in live /\ domain[At] = "on"
        /\ domain' = [domain EXCEPT ![At] = "saved"]
        /\ images' = [images EXCEPT ![At] = memory[At]]
        /\ UNCHANGED <<created, live, volume, memory, pickled, made, boots, faults>>
        /\ created = Len(Resources) /\ made /\ ~pickled
    BY StepsOf DEF Memorizes, Concerned, Goes, SaveThen, GoTo, Coherent, Placed
  <1>2. Len(Resources) \in Nat /\ All = 1 .. Len(Resources)
    BY ResourceFacts
  <1>3. At \in Machines /\ At \notin Volumes /\ ~IsVolume(index)
    BY <1>1, ResourceFacts DEF TypeOK, At
  <1>4. memory[At] \in Memories /\ memory[At] # Nothing /\ memory[At].disk = volume[DiskOf[At]]
    BY <1>1, <1>3, NothingAssumption DEF Coherent, TypeOK
  <1>5. /\ \A r \in Volumes \cup Machines : r # At => images'[r] = images[r]
        /\ images'[At] = memory[At]
        /\ \A m \in Machines : domain'[m] = IF m = At THEN "saved" ELSE domain[m]
    BY <1>1, <1>3 DEF TypeOK
  <1>6. Coherent'
    <2>1. TypeOK'
      BY <1>1, <1>2, <1>3, <1>4 DEF TypeOK, Steps
    <2> QED BY <2>1, <1>1, <1>5 DEF Coherent
  <1>7. Placed'
    BY <1>1, <1>2 DEF Placed
  <1>8. KeptIsThere' /\ OnlyKeptRun'
    <2>1. KeptIsThere'
      BY <1>1 DEF KeptIsThere
    <2>2. OnlyKeptRun'
      BY <1>1, <1>2 DEF OnlyKeptRun
    <2> QED BY <2>1, <2>2
  <1>9. Saving'
    <2>1. \A i \in All : ~Copied(i) /\ ~Copied(i)' /\ ~Resumed(i)'
      BY <1>1 DEF Copied, Resumed
    <2>2. \A i \in All : ~IsVolume(i) /\ i # index =>
             (Memorized(i)' <=> Memorized(i)) /\ (Resumed(i)' <=> Resumed(i)) /\ Resources[i] # At
      BY <1>1, <1>2, ResourceFacts DEF Memorized, Resumed, At
    <2>3. \A i \in All : i = index => Memorized(i)'
      BY <1>1, <1>2 DEF Memorized
    <2>4. \A i \in All : ~IsVolume(i) => Resources[i] \in Machines
      BY ResourceFacts
    <2>5. ASSUME NEW i \in All, ~IsVolume(i), ~Memorized(i)' \/ Resources[i] \notin live'
          PROVE  images'[Resources[i]] = Nothing /\ domain'[Resources[i]] # "saved"
      BY <2>2, <2>3, <2>4, <2>5, <1>1, <1>5 DEF Saving, At
    <2>6. ASSUME NEW i \in All, ~IsVolume(i), Memorized(i)', Resources[i] \in live'
          PROVE  /\ images'[Resources[i]] # Nothing
                 /\ domain'[Resources[i]] = "saved"
                 /\ images'[Resources[i]].disk = volume'[DiskOf[Resources[i]]]
      <3>1. CASE i = index
        BY <3>1, <1>1, <1>3, <1>4, <1>5 DEF At
      <3>2. CASE i # index
        <4>1. /\ images[Resources[i]] # Nothing
              /\ domain[Resources[i]] = "saved"
              /\ images[Resources[i]].disk = volume[DiskOf[Resources[i]]]
          BY <3>2, <2>1, <2>2, <2>6, <1>1 DEF Saving
        <4> QED BY <4>1, <3>2, <2>2, <2>4, <2>6, <1>1, <1>5
      <3> QED BY <3>1, <3>2
    <2> QED BY <2>1, <2>5, <2>6 DEF Saving
  <1>10. Unmade' /\ SavedTogether' /\ Creating'
    BY <1>1 DEF Unmade, SavedTogether, Creating
  <1>11. FewLeft'
    <2>1. Leftovers' \subseteq Leftovers
      BY <1>1, <1>2 DEF Leftovers
    <2> QED BY <2>1, <1>1, FewerLeft
  <1> QED BY <1>6, <1>7, <1>8, <1>9, <1>10, <1>11

LEMMA CopiesKeep ==
    ASSUME IInv, Copies
    PROVE  IInv'
  <1> USE DEF IInv
  <1>1. /\ TypeOK /\ step = "copy" /\ call = "save"
        /\ call' = "save" /\ step' = "copy" /\ index' = index + 1
        /\ index \in All /\ IsVolume(index)
        /\ images' = [images EXCEPT ![At] = volume[At]]
        /\ UNCHANGED <<created, live, volume, domain, memory, pickled, made, boots, faults>>
        /\ created = Len(Resources) /\ made /\ ~pickled
    BY StepsOf DEF Copies, Concerned, Goes, SaveThen, GoTo, host, Coherent, Placed
  <1>2. Len(Resources) \in Nat /\ All = 1 .. Len(Resources)
    BY ResourceFacts
  <1>3. At \in Volumes /\ At \notin Machines
    BY <1>1, ResourceFacts DEF At
  <1>4. volume[At] # Nothing /\ volume[At] \in Contents
    BY <1>1, <1>2, <1>3 DEF KeptIsThere, At, TypeOK
  <1>5. /\ \A r \in Volumes \cup Machines : r # At => images'[r] = images[r]
        /\ images'[At] = volume[At]
    BY <1>1, <1>3 DEF TypeOK
  <1>6. Coherent'
    <2>1. TypeOK'
      BY <1>1, <1>2, <1>3, <1>4 DEF TypeOK, Steps
    <2> QED BY <2>1, <1>1 DEF Coherent
  <1>7. Placed' /\ KeptIsThere' /\ OnlyKeptRun'
    BY <1>1, <1>2 DEF Placed, KeptIsThere, OnlyKeptRun
  <1>8. Saving'
    <2>1. \A i \in All : Copied(i)' => Copied(i) \/ i = index
      BY <1>1, <1>2 DEF Copied
    <2>2. \A i \in All : Memorized(i) /\ Memorized(i)' /\ ~Resumed(i) /\ ~Resumed(i)'
      BY <1>1 DEF Memorized, Resumed
    <2>3. \A i \in All : ~IsVolume(i) =>
             /\ Resources[i] \in Machines /\ images'[Resources[i]] = images[Resources[i]]
             /\ DiskOf[Resources[i]] \in Volumes
      BY <1>3, <1>5, ResourceFacts, DiskFacts
    <2>4. ASSUME NEW i \in All, IsVolume(i), Copied(i)' PROVE images'[Resources[i]] # Nothing
      <3>1. CASE i = index
        BY <3>1, <1>4, <1>5 DEF At
      <3>2. CASE i # index
        BY <3>2, <2>1, <2>4, <1>1, <1>5, ResourceFacts DEF At, Saving
      <3> QED BY <3>1, <3>2
    <2>5. ASSUME NEW i \in All, ~IsVolume(i), Resources[i] \in live,
                 NEW j \in All, Resources[j] = DiskOf[Resources[i]], Copied(j)'
          PROVE  images'[Resources[i]].disk = images'[DiskOf[Resources[i]]]
      <3>1. CASE j = index
        <4>1. images[Resources[i]].disk = volume[DiskOf[Resources[i]]]
          BY <2>2, <2>5, <1>1 DEF Saving
        <4> QED BY <4>1, <3>1, <2>3, <2>5, <1>5 DEF At
      <3>2. CASE j # index
        <4>1. images[Resources[i]].disk = images[DiskOf[Resources[i]]]
          BY <3>2, <2>1, <2>2, <2>5, <1>1 DEF Saving
        <4>2. DiskOf[Resources[i]] # At
          BY <3>2, <2>5, <1>1, ResourceFacts DEF At
        <4> QED BY <4>1, <4>2, <2>3, <2>5, <1>5
      <3> QED BY <3>1, <3>2
    <2>6. ASSUME NEW i \in All, ~IsVolume(i)
          PROVE  /\ Resources[i] \notin live => images'[Resources[i]] = Nothing /\ domain'[Resources[i]] # "saved"
                 /\ Resources[i] \in live =>
                     /\ images'[Resources[i]] # Nothing /\ domain'[Resources[i]] = "saved"
                     /\ images'[Resources[i]].disk = volume'[DiskOf[Resources[i]]]
      BY <2>2, <2>3, <2>6, <1>1 DEF Saving
    <2> QED BY <2>2, <2>4, <2>5, <2>6, <1>1 DEF Saving
  <1>9. Unmade' /\ SavedTogether' /\ Creating'
    BY <1>1 DEF Unmade, SavedTogether, Creating
  <1>10. FewLeft'
    <2>1. Leftovers' \subseteq Leftovers
      BY <1>1, <1>2 DEF Leftovers
    <2> QED BY <2>1, <1>1, FewerLeft
  <1> QED BY <1>6, <1>7, <1>8, <1>9, <1>10

\* What a machine goes on from is a memory, and as its volume is.
LEMMA ResumesKeepInSave ==
    ASSUME IInv, Resumes, call = "save"
    PROVE  IInv'
  <1> USE DEF IInv
  <1>1. /\ TypeOK /\ index \in All /\ At \in live /\ step \in {"redefine", "resume"}
        /\ call' = "save"
        /\ UNCHANGED <<created, live, volume, images, pickled, made, boots, faults>>
        /\ created = Len(Resources) /\ made /\ ~pickled
    BY DEF Resumes, Concerned, Goes, SaveThen, GoTo, directory, Coherent, Placed
  <1>2. Len(Resources) \in Nat /\ All = 1 .. Len(Resources)
    BY ResourceFacts
  <1>3. At \in Machines /\ ~IsVolume(index)
    BY <1>1, ResourceFacts DEF TypeOK, At
  <1>4. /\ images[At] \in Memories /\ domain[At] = "saved"
        /\ images[At].disk = volume[DiskOf[At]]
    <2>1. Memorized(index) /\ ~Resumed(index)
      BY <1>1, <1>2 DEF Memorized, Resumed
    <2> QED BY <2>1, <1>1, <1>3 DEF Saving, At, TypeOK
  <1>5. \/ /\ step = "redefine" /\ step' = "resume" /\ index' = index
           /\ domain' = domain /\ memory' = memory
        \/ /\ step = "resume" /\ step' = "redefine" /\ index' = index + 1
           /\ domain' = [domain EXCEPT ![At] = "on"]
           /\ memory' = [memory EXCEPT ![At] = images[At]]
    BY <1>1, <1>3, <1>4 DEF Resumes, Goes, SaveThen, GoTo, TypeOK
  <1>6. Coherent'
    <2>1. TypeOK'
      BY <1>1, <1>2, <1>3, <1>4, <1>5 DEF TypeOK, Steps
    <2>2. ASSUME NEW m \in Machines, domain'[m] = "on"
          PROVE  memory'[m].disk = volume'[DiskOf[m]]
      BY <2>2, <1>1, <1>3, <1>4, <1>5 DEF Coherent, TypeOK
    <2> QED BY <2>1, <2>2 DEF Coherent
  <1>7. Placed'
    BY <1>1, <1>2, <1>5 DEF Placed, At
  <1>8. KeptIsThere' /\ OnlyKeptRun'
    <2>1. KeptIsThere'
      BY <1>1 DEF KeptIsThere
    <2>2. OnlyKeptRun'
      BY <1>1, <1>2 DEF OnlyKeptRun
    <2> QED BY <2>1, <2>2
  <1>9. Saving'
    <2>1. \A i \in All : Copied(i) /\ Copied(i)' /\ Memorized(i) /\ Memorized(i)'
      BY <1>1, <1>5 DEF Copied, Memorized
    <2>2. \A i \in All : i # index =>
             /\ Resumed(i)' <=> Resumed(i)
             /\ Resources[i] # At
      BY <1>1, <1>2, <1>5, ResourceFacts DEF Resumed, At
    <2>3. \A i \in All : ~IsVolume(i) => Resources[i] \in Machines
      BY ResourceFacts
    <2>4. ASSUME NEW i \in All, ~IsVolume(i), Resources[i] \notin live
          PROVE  images'[Resources[i]] = Nothing /\ domain'[Resources[i]] # "saved"
      <3>1. Resources[i] # At
        BY <2>4, <1>1
      <3> QED BY <3>1, <2>1, <2>3, <2>4, <1>1, <1>5 DEF Saving, TypeOK
    <2>5. ASSUME NEW i \in All, ~IsVolume(i), Resources[i] \in live
          PROVE  IF Resumed(i)' THEN domain'[Resources[i]] # "saved"
                 ELSE /\ domain'[Resources[i]] = "saved"
                      /\ images'[Resources[i]].disk = volume'[DiskOf[Resources[i]]]
      <3>1. CASE i # index
        <4>1. domain'[Resources[i]] = domain[Resources[i]]
          <5>1. Resources[i] \in Machines /\ Resources[i] # At
            BY <3>1, <2>2, <2>3, <2>5
          <5>2. domain' = domain \/ domain' = [domain EXCEPT ![At] = "on"]
            BY <1>5
          <5> QED BY <5>1, <5>2, <1>1 DEF TypeOK
        <4>2. IF Resumed(i) THEN domain[Resources[i]] # "saved"
              ELSE /\ domain[Resources[i]] = "saved"
                   /\ images[Resources[i]].disk = volume[DiskOf[Resources[i]]]
          BY <2>1, <2>5, <1>1 DEF Saving
        <4> QED BY <3>1, <4>1, <4>2, <2>2, <1>1
      <3>2. CASE i = index
        BY <3>2, <2>5, <1>1, <1>2, <1>3, <1>4, <1>5 DEF Resumed, At, TypeOK
      <3> QED BY <3>1, <3>2
    <2> QED BY <2>1, <2>4, <2>5, <1>1 DEF Saving
  <1>10. Unmade' /\ SavedTogether' /\ Creating'
    BY <1>1 DEF Unmade, SavedTogether, Creating
  <1>11. FewLeft'
    <2>1. Leftovers' \subseteq Leftovers
      BY <1>1, <1>2 DEF Leftovers
    <2> QED BY <2>1, <1>1, FewerLeft
  <1> QED BY <1>6, <1>7, <1>8, <1>9, <1>10, <1>11

-----------------------------------------------------------------------------
\* create().

LEMMA LoadKeeps ==
    ASSUME IInv, Load
    PROVE  IInv'
  <1> USE DEF IInv
  <1>1. /\ TypeOK /\ step = "load" /\ call = "create" /\ created = 0 /\ pickled
        /\ UNCHANGED <<created, live, volume, domain, memory, images, pickled, made, boots, faults>>
    BY StepsOf DEF Load, host, directory, Coherent, Placed
  <1>2. Len(Resources) \in Nat /\ All = 1 .. Len(Resources)
    BY ResourceFacts
  <1>3. \/ /\ 1 \in All /\ call' = "create" /\ index' = 1 /\ step' = FirstStep(1)
        \/ call' = "none" /\ step' = "idle" /\ index' = 0
    BY <1>1 DEF Load, Goes, CreateThen, Creates, GoTo
  <1>4. /\ step' \in {"idle", "vol-create", "redefine", "define"}
        /\ call' = "create" =>
             /\ step' \in {"vol-create", "redefine", "define"}
             /\ step' = "vol-create" => IsVolume(1)
             /\ step' = "redefine" => ~IsVolume(1) /\ images[Resources[1]] # Nothing
             /\ step' = "define" => ~IsVolume(1) /\ images[Resources[1]] = Nothing
    BY <1>3 DEF FirstStep
  <1>5. Coherent'
    BY <1>1, <1>2, <1>3, <1>4 DEF Coherent, TypeOK, Steps
  <1>6. Placed'
    BY <1>1, <1>2, <1>3, <1>4 DEF Placed, At, IsVolume
  <1>7. KeptIsThere' /\ OnlyKeptRun'
    BY <1>1, <1>3, <1>4 DEF KeptIsThere, OnlyKeptRun
  <1>8. Saving' /\ Unmade' /\ SavedTogether' /\ Creating'
    BY <1>1, <1>2, <1>3, <1>4 DEF Saving, Unmade, SavedTogether, Creating, Started
  <1>9. FewLeft'
    <2>1. Leftovers' \subseteq Leftovers
      BY <1>1, <1>3, <1>4 DEF Leftovers, Exists, InHand
    <2> QED BY <2>1, <1>1, <1>3, FewerLeft
  <1> QED BY <1>5, <1>6, <1>7, <1>8, <1>9

LEMMA ResumesKeepInCreate ==
    ASSUME IInv, Resumes, call = "create"
    PROVE  IInv'
  <1> USE DEF IInv
  <1>1. /\ TypeOK /\ index \in All /\ step \in {"redefine", "resume"}
        /\ call' = "create" /\ index' = index /\ pickled /\ created = index - 1
        /\ ~IsVolume(index) /\ images[At] # Nothing
        /\ UNCHANGED <<created, live, volume, images, pickled, made, boots, faults>>
    BY DEF Resumes, Goes, CreateThen, GoTo, directory, Coherent, Placed
  <1>2. Len(Resources) \in Nat /\ All = 1 .. Len(Resources)
    BY ResourceFacts
  <1>3. At \in Machines /\ DiskOf[At] \in Volumes
    BY <1>1, ResourceFacts, DiskFacts DEF At
  <1>4. images[At] \in Memories
    BY <1>1, <1>3 DEF TypeOK
  <1>5. \/ /\ step = "redefine" /\ step' = "resume" /\ memory' = memory
           /\ domain' = [domain EXCEPT ![At] = IF @ = "undefined" THEN "off" ELSE @]
        \/ /\ step = "resume" /\ step' = "keep"
           /\ domain' = [domain EXCEPT ![At] = "on"]
           /\ memory' = [memory EXCEPT ![At] = images[At]]
    BY <1>1 DEF Resumes, Goes, CreateThen, NextStep, GoTo
  <1>6. images[At].disk = volume[DiskOf[At]]
    <2>1. PICK j \in All : IsVolume(j) /\ Resources[j] = DiskOf[At]
      BY <1>1, DiskFacts DEF At
    <2>2. j < index
      BY <2>1, <1>1, DiskFacts DEF At
    <2>3. Started(j) /\ ~Started(index)
      BY <2>2, <1>1, <1>2 DEF Started
    <2>4. volume[DiskOf[At]] = images[DiskOf[At]]
      BY <2>1, <2>3, <1>1 DEF Creating, At
    <2> QED BY <2>4, <1>1, <1>3 DEF SavedTogether
  <1>7. /\ \A m \in Machines : m # At => domain'[m] = domain[m] /\ memory'[m] = memory[m]
        /\ domain'[At] = "on" => memory'[At].disk = volume[DiskOf[At]]
        /\ step = "resume" => memory'[At] = images[At]
    BY <1>1, <1>3, <1>4, <1>5, <1>6 DEF Coherent, TypeOK
  <1>8. Coherent'
    <2>1. TypeOK'
      BY <1>1, <1>2, <1>3, <1>4, <1>5 DEF TypeOK, Steps
    <2>2. ASSUME NEW m \in Machines, domain'[m] = "on"
          PROVE  memory'[m].disk = volume'[DiskOf[m]]
      BY <2>2, <1>1, <1>7 DEF Coherent
    <2> QED BY <2>1, <2>2 DEF Coherent
  <1>9. Placed'
    BY <1>1, <1>5 DEF Placed, At, IsVolume
  <1>10. KeptIsThere'
    BY <1>1, <1>5 DEF KeptIsThere
  <1>11. OnlyKeptRun'
    <2> SUFFICES ASSUME NEW i \in All, ~IsVolume(i), domain'[Resources[i]] = "on", ~(i <= created')
                 PROVE  i = index' /\ step' = "keep"
      BY <1>1 DEF OnlyKeptRun
    <2>1. i = index
      <3> SUFFICES ASSUME i # index PROVE FALSE
        OBVIOUS
      <3>1. Resources[i] \in Machines /\ Resources[i] # At
        BY <1>1, ResourceFacts DEF At
      <3>2. domain[Resources[i]] = "on"
        BY <3>1, <1>7
      <3> QED BY <3>2, <1>1 DEF OnlyKeptRun
    <2>2. domain[At] # "on"
      BY <1>1, <1>2 DEF OnlyKeptRun, At
    <2>3. domain'[At] = "on"
      BY <2>1 DEF At
    <2>4. step # "redefine"
      <3> SUFFICES ASSUME step = "redefine" PROVE FALSE
        OBVIOUS
      <3>1. domain' = [domain EXCEPT ![At] = IF domain[At] = "undefined" THEN "off" ELSE domain[At]]
        BY <1>5
      <3>2. domain'[At] = IF domain[At] = "undefined" THEN "off" ELSE domain[At]
        BY <3>1, <1>1, <1>3 DEF TypeOK
      <3> QED BY <3>2, <2>2, <2>3
    <2> QED BY <2>1, <2>4, <1>1, <1>5
  <1>12. Saving' /\ Unmade' /\ SavedTogether'
    BY <1>1 DEF Saving, Unmade, SavedTogether
  <1>13. Creating'
    <2>1. \A i \in All : i # index => (Started(i)' <=> Started(i))
      BY <1>1 DEF Started
    <2>2. \A i, j \in All : ~IsVolume(i) /\ Resources[j] = DiskOf[Resources[i]] => j # index
      BY <1>1, DiskFacts
    <2>3. ASSUME NEW i \in All, ~IsVolume(i), ~Started(i)',
                 NEW j \in All, Resources[j] = DiskOf[Resources[i]], Started(j)'
          PROVE  volume'[DiskOf[Resources[i]]] = images'[DiskOf[Resources[i]]]
      <3>1. ~Started(i)
        BY <2>1, <2>3, <1>1, <1>2, <1>5 DEF Started
      <3> QED BY <3>1, <2>1, <2>2, <2>3, <1>1 DEF Creating
    <2>4. ASSUME NEW i \in All, ~IsVolume(i), Started(i)', images'[Resources[i]] # Nothing
          PROVE  memory'[Resources[i]].boot = images'[Resources[i]].boot
      <3>1. CASE i = index
        BY <3>1, <2>4, <1>1, <1>2, <1>5, <1>7 DEF Started, At
      <3>2. CASE i # index
        <4>1. Resources[i] \in Machines /\ Resources[i] # At
          BY <3>2, <2>4, <1>1, ResourceFacts DEF At
        <4>2. memory[Resources[i]].boot = images[Resources[i]].boot
          BY <3>2, <2>1, <2>4, <1>1 DEF Creating
        <4> QED BY <4>1, <4>2, <1>1, <1>7
      <3> QED BY <3>1, <3>2
    <2> QED BY <2>3, <2>4 DEF Creating
  <1>14. FewLeft'
    <2>1. \A i \in All : i # index => (Exists(i)' <=> Exists(i))
      <3> SUFFICES ASSUME NEW i \in All, i # index PROVE Exists(i)' <=> Exists(i)
        OBVIOUS
      <3>1. CASE IsVolume(i)
        BY <3>1, <1>1 DEF Exists
      <3>2. CASE ~IsVolume(i)
        <4>1. Resources[i] \in Machines /\ Resources[i] # At
          BY <3>2, <1>1, ResourceFacts DEF At
        <4> QED BY <4>1, <3>2, <1>7 DEF Exists
      <3> QED BY <3>1, <3>2
    <2>2. Leftovers' \subseteq Leftovers
      BY <2>1, <1>1, <1>5 DEF Leftovers, InHand
    <2> QED BY <2>2, <1>1, FewerLeft
  <1> QED BY <1>8, <1>9, <1>10, <1>11, <1>12, <1>13, <1>14

\* A step that changes one machine leaves the other resources as they are.
LEMMA OtherMachines ==
    ASSUME NEW k \in All, ~IsVolume(k), volume' = volume,
           \A m \in Machines : m # Resources[k] => domain'[m] = domain[m] /\ memory'[m] = memory[m]
    PROVE  \A i \in All : i # k =>
             /\ Exists(i)' <=> Exists(i)
             /\ ~IsVolume(i) =>
                  domain'[Resources[i]] = domain[Resources[i]] /\ memory'[Resources[i]] = memory[Resources[i]]
  <1> SUFFICES ASSUME NEW i \in All, i # k
               PROVE  /\ Exists(i)' <=> Exists(i)
                      /\ ~IsVolume(i) => /\ domain'[Resources[i]] = domain[Resources[i]]
                                         /\ memory'[Resources[i]] = memory[Resources[i]]
    OBVIOUS
  <1>1. CASE IsVolume(i)
    BY <1>1 DEF Exists
  <1>2. CASE ~IsVolume(i)
    <2>1. Resources[i] \in Machines /\ Resources[i] # Resources[k]
      BY <1>2, ResourceFacts
    <2> QED BY <2>1, <1>2 DEF Exists
  <1> QED BY <1>1, <1>2

LEMMA DefineKeeps ==
    ASSUME IInv, Define
    PROVE  IInv'
  <1> USE DEF IInv
  <1>1. /\ TypeOK /\ index \in All /\ step \in {"define", "start"} /\ call = "create"
        /\ call' = "create" /\ index' = index /\ pickled /\ created = index - 1
        /\ ~IsVolume(index) /\ images[At] = Nothing
        /\ UNCHANGED <<created, live, volume, images, pickled, made, faults>>
    BY StepsOf DEF Define, Boots, Goes, CreateThen, GoTo, directory, Coherent, Placed
  <1>2. Len(Resources) \in Nat /\ All = 1 .. Len(Resources)
    BY ResourceFacts
  <1>3. At \in Machines /\ DiskOf[At] \in Volumes
    BY <1>1, ResourceFacts, DiskFacts DEF At
  <1>4. \/ /\ step = "define" /\ step' = "start" /\ memory' = memory /\ boots' = boots
           /\ domain' = [domain EXCEPT ![At] = "off"]
        \/ /\ step = "start" /\ step' = "keep" /\ boots < MaxBoots /\ boots' = boots + 1
           /\ volume[DiskOf[At]] # Nothing
           /\ domain' = [domain EXCEPT ![At] = "on"]
           /\ memory' = [memory EXCEPT ![At] = [disk |-> volume[DiskOf[At]], boot |-> boots + 1]]
    BY <1>1 DEF Define, Boots, Goes, CreateThen, NextStep, GoTo
  <1>5. [disk |-> volume[DiskOf[At]], boot |-> boots + 1] \in Memories \/ step = "define"
    BY <1>1, <1>3, <1>4, BoundsAssumption DEF TypeOK, Memories
  <1>6. /\ \A m \in Machines : m # At => domain'[m] = domain[m] /\ memory'[m] = memory[m]
        /\ domain'[At] = "on" => step' = "keep" /\ memory'[At].disk = volume[DiskOf[At]]
    BY <1>1, <1>3, <1>4 DEF TypeOK
  <1>7. \A i \in All : i # index =>
             /\ Exists(i)' <=> Exists(i)
             /\ ~IsVolume(i) =>
                  domain'[Resources[i]] = domain[Resources[i]] /\ memory'[Resources[i]] = memory[Resources[i]]
    BY <1>1, <1>6, OtherMachines DEF At
  <1>8. Coherent'
    <2>1. TypeOK'
      BY <1>1, <1>2, <1>3, <1>4, <1>5, BoundsAssumption DEF TypeOK, Steps
    <2>2. ASSUME NEW m \in Machines, domain'[m] = "on"
          PROVE  memory'[m].disk = volume'[DiskOf[m]]
      BY <2>2, <1>1, <1>6 DEF Coherent
    <2> QED BY <2>1, <2>2 DEF Coherent
  <1>9. Placed'
    BY <1>1, <1>4 DEF Placed, At, IsVolume
  <1>10. KeptIsThere'
    BY <1>1, <1>4 DEF KeptIsThere
  <1>11. OnlyKeptRun'
    <2> SUFFICES ASSUME NEW i \in All, ~IsVolume(i), domain'[Resources[i]] = "on", ~(i <= created')
                 PROVE  i = index' /\ step' = "keep"
      BY <1>1 DEF OnlyKeptRun
    <2>1. i = index
      BY <1>1, <1>7 DEF OnlyKeptRun
    <2> QED BY <2>1, <1>1, <1>6 DEF At
  <1>12. Saving' /\ SavedTogether'
    BY <1>1 DEF Saving, SavedTogether
  <1>13. Unmade'
    BY <1>1 DEF Unmade
  <1>14. Creating'
    <2>1. \A i \in All : i # index => (Started(i)' <=> Started(i))
      BY <1>1 DEF Started
    <2>2. \A i, j \in All : ~IsVolume(i) /\ Resources[j] = DiskOf[Resources[i]] => j # index
      BY <1>1, DiskFacts
    <2>3. ASSUME NEW i \in All, ~IsVolume(i), ~Started(i)',
                 NEW j \in All, Resources[j] = DiskOf[Resources[i]], Started(j)'
          PROVE  volume'[DiskOf[Resources[i]]] = images'[DiskOf[Resources[i]]]
      <3>1. ~Started(i)
        BY <2>1, <2>3, <1>1, <1>2, <1>4 DEF Started
      <3> QED BY <3>1, <2>1, <2>2, <2>3, <1>1 DEF Creating
    <2>4. ASSUME NEW i \in All, ~IsVolume(i), Started(i)', images'[Resources[i]] # Nothing
          PROVE  memory'[Resources[i]].boot = images'[Resources[i]].boot
      <3>1. i # index
        BY <2>4, <1>1 DEF At
      <3>2. memory[Resources[i]].boot = images[Resources[i]].boot
        BY <3>1, <2>1, <2>4, <1>1 DEF Creating
      <3> QED BY <3>1, <3>2, <2>4, <1>1, <1>7
    <2> QED BY <2>3, <2>4 DEF Creating
  <1>15. FewLeft'
    <2>1. Leftovers' \subseteq Leftovers
      BY <1>1, <1>4, <1>7 DEF Leftovers, InHand
    <2> QED BY <2>1, <1>1, FewerLeft
  <1> QED BY <1>8, <1>9, <1>10, <1>11, <1>12, <1>13, <1>14, <1>15

\* A volume that is created is no running machine's.
LEMMA VolumesKeepInCreate ==
    ASSUME IInv, Volume, call = "create"
    PROVE  IInv'
  <1> USE DEF IInv
  <1>1. /\ TypeOK /\ index \in All /\ step \in {"vol-create", "vol-upload"}
        /\ call' = "create" /\ index' = index /\ pickled /\ created = index - 1
        /\ IsVolume(index)
        /\ UNCHANGED <<created, live, domain, memory, images, pickled, made, boots, faults>>
    BY StepsOf DEF Volume, Goes, CreateThen, GoTo, directory, Coherent, Placed
  <1>2. Len(Resources) \in Nat /\ All = 1 .. Len(Resources)
    BY ResourceFacts
  <1>3. At \in Volumes
    BY <1>1, ResourceFacts DEF At
  <1>4. images[At] \in Contents /\ images[At] # Nothing /\ 0 \in Contents /\ 0 # Nothing
    BY <1>1, <1>3, BoundsAssumption, NothingAssumption DEF SavedTogether, TypeOK, Contents
  <1>5. \/ step = "vol-create" /\ step' = "vol-upload" /\ volume' = [volume EXCEPT ![At] = 0]
        \/ step = "vol-upload" /\ step' = "keep" /\ volume' = [volume EXCEPT ![At] = images[At]]
    BY <1>1 DEF Volume, Goes, CreateThen, NextStep, GoTo
  <1>6. /\ \A v \in Volumes : v # At => volume'[v] = volume[v]
        /\ volume'[At] # Nothing
        /\ step' = "keep" => volume'[At] = images[At]
    BY <1>1, <1>3, <1>4, <1>5 DEF TypeOK
  <1>7. \A i, j \in All : ~IsVolume(i) /\ domain[Resources[i]] = "on" /\ Resources[j] = DiskOf[Resources[i]] =>
             j # index
    <2> SUFFICES ASSUME NEW i \in All, ~IsVolume(i), domain[Resources[i]] = "on",
                        Resources[index] = DiskOf[Resources[i]]
                 PROVE  FALSE
      OBVIOUS
    <2>1. index < i
      BY <1>1, DiskFacts
    <2>2. i <= created
      BY <1>1 DEF OnlyKeptRun
    <2> QED BY <2>1, <2>2, <1>1, <1>2
  <1>8. Coherent'
    <2>1. TypeOK'
      BY <1>1, <1>2, <1>3, <1>4, <1>5 DEF TypeOK, Steps
    <2>2. ASSUME NEW m \in Machines, domain'[m] = "on"
          PROVE  memory'[m].disk = volume'[DiskOf[m]]
      <3>1. PICK i \in All : ~IsVolume(i) /\ Resources[i] = m
        BY ResourceFacts
      <3>2. DiskOf[m] # At
        BY <3>1, <2>2, <1>1, <1>7 DEF At
      <3> QED BY <3>2, <2>2, <1>1, <1>6, DiskFacts DEF Coherent
    <2> QED BY <2>1, <2>2 DEF Coherent
  <1>9. Placed'
    BY <1>1, <1>5 DEF Placed, IsVolume
  <1>10. KeptIsThere'
    <2> SUFFICES ASSUME NEW i \in All, IsVolume(i), i <= created \/ i = index
                 PROVE  volume'[Resources[i]] # Nothing
      BY <1>1 DEF KeptIsThere
    <2>1. CASE i = index
      BY <2>1, <1>6 DEF At
    <2>2. CASE i # index
      BY <2>2, <1>1, <1>6, ResourceFacts DEF KeptIsThere, At
    <2> QED BY <2>1, <2>2
  <1>11. OnlyKeptRun'
    BY <1>1 DEF OnlyKeptRun
  <1>12. Saving' /\ SavedTogether' /\ Unmade'
    BY <1>1 DEF Saving, SavedTogether, Unmade
  <1>13. Creating'
    <2>1. \A i \in All : i # index => (Started(i)' <=> Started(i))
      BY <1>1 DEF Started
    <2>2. ASSUME NEW i \in All, ~IsVolume(i), ~Started(i)',
                 NEW j \in All, Resources[j] = DiskOf[Resources[i]], Started(j)'
          PROVE  volume'[DiskOf[Resources[i]]] = images'[DiskOf[Resources[i]]]
      <3>1. i # index
        BY <2>2, <1>1
      <3>2. CASE j = index
        BY <3>2, <2>2, <1>1, <1>2, <1>6 DEF Started, At
      <3>3. CASE j # index
        <4>1. volume[DiskOf[Resources[i]]] = images[DiskOf[Resources[i]]]
          BY <3>1, <3>3, <2>1, <2>2, <1>1 DEF Creating
        <4>2. DiskOf[Resources[i]] \in Volumes /\ DiskOf[Resources[i]] # At
          BY <3>3, <2>2, <1>1, ResourceFacts, DiskFacts DEF At
        <4> QED BY <4>1, <4>2, <1>1, <1>6
      <3> QED BY <3>2, <3>3
    <2>3. ASSUME NEW i \in All, ~IsVolume(i), Started(i)', images'[Resources[i]] # Nothing
          PROVE  memory'[Resources[i]].boot = images'[Resources[i]].boot
      <3>1. i # index
        BY <2>3, <1>1
      <3> QED BY <3>1, <2>1, <2>3, <1>1 DEF Creating
    <2> QED BY <2>2, <2>3 DEF Creating
  <1>14. FewLeft'
    <2>1. \A i \in All : i # index => (Exists(i)' <=> Exists(i))
      BY <1>1, <1>6, ResourceFacts DEF Exists, At
    <2>2. Leftovers' \subseteq Leftovers
      BY <2>1, <1>1, <1>5 DEF Leftovers, InHand
    <2> QED BY <2>2, <1>1, FewerLeft
  <1> QED BY <1>8, <1>9, <1>10, <1>11, <1>12, <1>13, <1>14

LEMMA KeepsInCreate ==
    ASSUME IInv, Keep, call = "create"
    PROVE  IInv'
  <1> USE DEF IInv
  <1>1. /\ TypeOK /\ index \in All /\ step = "keep" /\ created' = index
        /\ pickled /\ created = index - 1
        /\ UNCHANGED <<live, volume, domain, memory, images, pickled, made, boots, faults>>
    BY StepsOf DEF Keep, host, directory, Coherent, Placed
  <1>2. Len(Resources) \in Nat /\ All = 1 .. Len(Resources)
    BY ResourceFacts
  <1>3. \/ /\ index + 1 \in All /\ call' = "create" /\ index' = index + 1 /\ step' = FirstStep(index + 1)
        \/ call' = "none" /\ step' = "idle" /\ index' = 0
    BY <1>1 DEF Keep, Goes, CreateThen, Creates, GoTo
  <1>4. /\ step' \in {"idle", "vol-create", "redefine", "define"}
        /\ call' = "create" =>
             /\ step' \in {"vol-create", "redefine", "define"}
             /\ step' = "vol-create" => IsVolume(index + 1)
             /\ step' = "redefine" => ~IsVolume(index + 1) /\ images[Resources[index + 1]] # Nothing
             /\ step' = "define" => ~IsVolume(index + 1) /\ images[Resources[index + 1]] = Nothing
    BY <1>3 DEF FirstStep
  <1>5. Coherent'
    BY <1>1, <1>2, <1>3, <1>4 DEF Coherent, TypeOK, Steps
  <1>6. Placed'
    BY <1>1, <1>2, <1>3, <1>4 DEF Placed, At, IsVolume
  <1>7. KeptIsThere' /\ OnlyKeptRun'
    <2>1. \A i \in All : i <= index => i <= created \/ i = index
      BY <1>1, <1>2
    <2>2. KeptIsThere'
      BY <2>1, <1>1, <1>3, <1>4 DEF KeptIsThere
    <2>3. OnlyKeptRun'
      BY <1>1, <1>2 DEF OnlyKeptRun
    <2> QED BY <2>2, <2>3
  <1>8. Saving' /\ Unmade' /\ SavedTogether'
    BY <1>1, <1>3 DEF Saving, Unmade, SavedTogether
  <1>9. Creating'
    <2>1. \A i \in All : call' = "create" => (Started(i)' <=> Started(i))
      BY <1>1, <1>2, <1>3, <1>4 DEF Started
    <2> QED BY <2>1, <1>1 DEF Creating
  <1>10. FewLeft'
    <2>1. Leftovers' \subseteq Leftovers
      BY <1>1, <1>2 DEF Leftovers, Exists, InHand
    <2> QED BY <2>1, <1>1, <1>3, FewerLeft
  <1> QED BY <1>5, <1>6, <1>7, <1>8, <1>9, <1>10

-----------------------------------------------------------------------------
\* destroy().

LEMMA PopKeeps ==
    ASSUME IInv, Keep, call # "create"
    PROVE  IInv'
  <1> USE DEF IInv
  <1>1. /\ TypeOK /\ index \in All /\ step = "pop" /\ call \in {"destroy", "undo"}
        /\ created = index /\ created' = index - 1
        /\ UNCHANGED <<live, volume, domain, memory, images, pickled, made, boots, faults>>
    BY StepsOf DEF Keep, host, directory, Coherent, Placed
  <1>2. Len(Resources) \in Nat /\ All = 1 .. Len(Resources)
    BY ResourceFacts
  <1>3. call' = call /\ index' = index /\ step' = IF IsVolume(index) THEN "vol-delete" ELSE "ask"
    BY <1>1 DEF Keep, Goes, DestroyThen, GoTo
  <1>4. Coherent'
    BY <1>1, <1>2, <1>3 DEF Coherent, TypeOK, Steps
  <1>5. Placed'
    BY <1>1, <1>3 DEF Placed, IsVolume
  <1>6. KeptIsThere' /\ OnlyKeptRun'
    <2>1. \A i \in All : i <= created => i <= index - 1 \/ i = index
      BY <1>1, <1>2
    <2>2. KeptIsThere'
      BY <1>1, <1>2, <1>3 DEF KeptIsThere
    <2>3. OnlyKeptRun'
      BY <2>1, <1>1, <1>3 DEF OnlyKeptRun, IsVolume
    <2> QED BY <2>2, <2>3
  <1>7. Saving' /\ Unmade' /\ SavedTogether' /\ Creating'
    BY <1>1, <1>3 DEF Saving, Unmade, SavedTogether, Creating
  <1>8. FewLeft'
    <2>1. Leftovers' \subseteq Leftovers
      BY <1>1, <1>2, <1>3 DEF Leftovers, Exists, InHand
    <2> QED BY <2>1, <1>1, <1>3, FewerLeft
  <1> QED BY <1>4, <1>5, <1>6, <1>7, <1>8

\* What follows a resource that is gone.
LEMMA UnwindsTo ==
    ASSUME NEW c \in {"destroy", "undo"}, Unwinds(c)
    PROVE  \/ created = 0 /\ call' \in {"none", "failed"} /\ step' = "idle" /\ index' = 0
           \/ created # 0 /\ call' = c /\ step' = "pop" /\ index' = created
  BY DEF Unwinds, GoTo

LEMMA VolumesKeepInDestroy ==
    ASSUME IInv, Volume, call # "create"
    PROVE  IInv'
  <1> USE DEF IInv
  <1>1. /\ TypeOK /\ index \in All /\ step = "vol-delete" /\ call \in {"destroy", "undo"}
        /\ created = index - 1 /\ IsVolume(index)
        /\ volume' = [volume EXCEPT ![At] = Nothing]
        /\ UNCHANGED <<created, live, domain, memory, images, pickled, made, boots, faults>>
    BY StepsOf DEF Volume, directory, Coherent, Placed
  <1>2. Len(Resources) \in Nat /\ All = 1 .. Len(Resources)
    BY ResourceFacts
  <1>3. \/ created = 0 /\ call' \in {"none", "failed"} /\ step' = "idle" /\ index' = 0
        \/ created # 0 /\ call' = call /\ step' = "pop" /\ index' = created
    <2>1. Unwinds(call)
      BY <1>1 DEF Volume, Goes, DestroyThen
    <2> QED BY <2>1, <1>1, UnwindsTo
  <1>4. At \in Volumes /\ \A v \in Volumes : volume'[v] = IF v = At THEN Nothing ELSE volume[v]
    BY <1>1, ResourceFacts DEF TypeOK, At
  <1>5. Coherent'
    <2>1. TypeOK'
      BY <1>1, <1>2, <1>3, <1>4 DEF TypeOK, Steps
    <2>2. ASSUME NEW m \in Machines, domain'[m] = "on"
          PROVE  memory'[m].disk = volume'[DiskOf[m]]
      <3>1. PICK i \in All : ~IsVolume(i) /\ Resources[i] = m
        BY ResourceFacts
      <3>2. i <= created
        BY <3>1, <2>2, <1>1 DEF OnlyKeptRun
      <3>3. DiskOf[m] # At
        BY <3>1, <3>2, <1>1, <1>2, DiskFacts DEF At
      <3> QED BY <3>3, <2>2, <1>1, <1>4, DiskFacts DEF Coherent
    <2> QED BY <2>1, <2>2 DEF Coherent
  <1>6. Placed'
    BY <1>1, <1>2, <1>3 DEF Placed
  <1>7. KeptIsThere'
    <2> SUFFICES ASSUME NEW i \in All, IsVolume(i), i <= created PROVE volume'[Resources[i]] # Nothing
      BY <1>1, <1>3 DEF KeptIsThere
    <2>1. Resources[i] \in Volumes /\ Resources[i] # At
      BY <1>1, <1>2, ResourceFacts DEF At
    <2> QED BY <2>1, <1>4 DEF KeptIsThere
  <1>8. OnlyKeptRun'
    BY <1>1 DEF OnlyKeptRun
  <1>9. Saving' /\ Unmade' /\ SavedTogether' /\ Creating'
    BY <1>1, <1>3 DEF Saving, Unmade, SavedTogether, Creating
  <1>10. FewLeft'
    <2>1. \A i \in All : i # index => (Exists(i)' <=> Exists(i))
      BY <1>1, <1>4, ResourceFacts DEF Exists, At
    <2>2. \A i \in All : i = index => ~Exists(i)'
      BY <1>1, <1>4 DEF Exists, At
    <2>3. Leftovers' \subseteq Leftovers
      BY <2>1, <2>2, <1>1, <1>3 DEF Leftovers, InHand
    <2> QED BY <2>3, <1>1, <1>3, FewerLeft
  <1> QED BY <1>5, <1>6, <1>7, <1>8, <1>9, <1>10

LEMMA UndefineKeeps ==
    ASSUME IInv, Undefine
    PROVE  IInv'
  <1> USE DEF IInv
  <1>1. /\ TypeOK /\ index \in All /\ step \in {"ask", "kill", "undefine"} /\ call \in {"destroy", "undo"}
        /\ created = index - 1 /\ ~IsVolume(index)
        /\ UNCHANGED <<created, live, volume, memory, images, pickled, made, boots, faults>>
    BY StepsOf DEF Undefine, directory, Coherent, Placed
  <1>2. Len(Resources) \in Nat /\ All = 1 .. Len(Resources)
    BY ResourceFacts
  <1>3. At \in Machines
    BY <1>1, ResourceFacts DEF At
  <1>4. \/ /\ step = "ask" /\ domain' = domain /\ call' = call /\ index' = index
           /\ step' = IF domain[At] = "on" THEN "kill" ELSE "undefine"
        \/ /\ step = "kill" /\ domain' = [domain EXCEPT ![At] = "off"]
           /\ call' = call /\ index' = index /\ step' = "undefine"
        \/ /\ step = "undefine" /\ domain' = [domain EXCEPT ![At] = "undefined"]
           /\ \/ created = 0 /\ call' \in {"none", "failed"} /\ step' = "idle" /\ index' = 0
              \/ created # 0 /\ call' = call /\ step' = "pop" /\ index' = created
    <2>1. CASE step # "undefine"
      BY <2>1, <1>1 DEF Undefine, Goes, DestroyThen, GoTo, At
    <2>2. CASE step = "undefine"
      <3>1. Unwinds(call)
        BY <2>2, <1>1 DEF Undefine, Goes, DestroyThen
      <3> QED BY <3>1, <2>2, <1>1, UnwindsTo DEF Undefine
    <2> QED BY <2>1, <2>2
  <1>5. /\ \A m \in Machines : m # At => domain'[m] = domain[m]
        /\ domain'[At] = "on" => step = "ask" /\ domain[At] = "on"
        /\ domain'[At] = "saved" => domain[At] = "saved"
        /\ step = "undefine" => domain'[At] = "undefined"
    BY <1>1, <1>3, <1>4 DEF TypeOK
  <1>6. \A i \in All : i # index =>
             /\ Exists(i)' <=> Exists(i)
             /\ ~IsVolume(i) => domain'[Resources[i]] = domain[Resources[i]]
    BY <1>1, <1>5, OtherMachines DEF At
  <1>7. Coherent'
    <2>1. TypeOK'
      BY <1>1, <1>2, <1>3, <1>4 DEF TypeOK, Steps
    <2>2. ASSUME NEW m \in Machines, domain'[m] = "on" PROVE domain[m] = "on"
      BY <2>2, <1>5
    <2> QED BY <2>1, <2>2, <1>1 DEF Coherent
  <1>8. Placed'
    <2>1. step' = "undefine" => index' = index /\ domain'[At] # "on"
      BY <1>1, <1>4, <1>5
    <2> QED BY <2>1, <1>1, <1>2, <1>4 DEF Placed, At, IsVolume
  <1>9. KeptIsThere'
    BY <1>1, <1>4 DEF KeptIsThere
  <1>10. OnlyKeptRun'
    <2> SUFFICES ASSUME NEW i \in All, ~IsVolume(i), domain'[Resources[i]] = "on", ~(i <= created)
                 PROVE  i = index' /\ call' \in {"destroy", "undo"} /\ step' \in {"ask", "kill"}
      BY <1>1 DEF OnlyKeptRun
    <2>1. i = index
      BY <1>1, <1>6 DEF OnlyKeptRun
    <2> QED BY <2>1, <1>1, <1>4, <1>5 DEF At
  <1>11. Saving' /\ SavedTogether' /\ Creating'
    BY <1>1, <1>4 DEF Saving, SavedTogether, Creating
  <1>12. Unmade'
    <2>1. ASSUME NEW m \in Machines, domain'[m] = "saved" PROVE domain[m] = "saved"
      BY <2>1, <1>5
    <2> QED BY <2>1, <1>1 DEF Unmade
  <1>13. FewLeft'
    <2>1. \A i \in All : i = index /\ step = "undefine" => ~Exists(i)'
      BY <1>1, <1>5 DEF Exists, At
    <2>2. Leftovers' \subseteq Leftovers
      BY <2>1, <1>1, <1>4, <1>6 DEF Leftovers, InHand
    <2> QED BY <2>2, <1>1, <1>4, FewerLeft
  <1> QED BY <1>7, <1>8, <1>9, <1>10, <1>11, <1>12, <1>13

-----------------------------------------------------------------------------
\* What fails.

LEMMA RaisesTo ==
    ASSUME Raises
    PROVE  \/ call' = "failed" /\ step' = "idle" /\ index' = 0
           \/ call = "create" /\ created # 0 /\ call' = "undo" /\ step' = "pop" /\ index' = created
  BY DEF Raises, Unwinds, GoTo

\* What raises, and leaves no machine on that isn't kept.
LEMMA RaisesKeep ==
    ASSUME IInv, Raises, faults' \in 0 .. MaxFaults,
           call \in {"save", "create"} \/ (step = "kill" /\ domain[At] # "on"), step # "keep",
           UNCHANGED <<created, live, volume, domain, memory, images, pickled, made, boots>>
    PROVE  Coherent' /\ Placed' /\ KeptIsThere' /\ OnlyKeptRun' /\ Saving' /\ Unmade' /\ SavedTogether'
           /\ Creating'
  <1> USE DEF IInv
  <1>1. /\ TypeOK /\ created \in 0 .. Len(Resources)
        /\ UNCHANGED <<created, live, volume, domain, memory, images, pickled, made, boots>>
    BY DEF Coherent, TypeOK
  <1>2. Len(Resources) \in Nat /\ All = 1 .. Len(Resources)
    BY ResourceFacts
  <1>3. \/ call' = "failed" /\ step' = "idle" /\ index' = 0
        \/ call = "create" /\ created # 0 /\ call' = "undo" /\ step' = "pop" /\ index' = created
    BY RaisesTo
  <1>4. Coherent'
    <2>1. TypeOK'
      BY <1>1, <1>2, <1>3 DEF TypeOK, Steps
    <2> QED BY <2>1, <1>1 DEF Coherent
  <1>5. Placed'
    BY <1>1, <1>2, <1>3 DEF Placed
  <1>6. KeptIsThere'
    BY <1>1, <1>3 DEF KeptIsThere
  <1>7. OnlyKeptRun'
    <2> SUFFICES ASSUME NEW i \in All, ~IsVolume(i), domain[Resources[i]] = "on" PROVE i <= created
      BY <1>1 DEF OnlyKeptRun
    <2>1. i = index => call \notin {"destroy", "undo"} \/ step \notin {"ask", "kill"}
      BY StepsOf, <1>1 DEF At
    <2> QED BY <2>1 DEF OnlyKeptRun
  <1>8. Saving' /\ Unmade' /\ SavedTogether' /\ Creating'
    BY <1>1, <1>3 DEF Saving, Unmade, SavedTogether, Creating
  <1> QED BY <1>4, <1>5, <1>6, <1>7, <1>8

\* What is refused for being there was left by a command that failed.
LEMMA RefusedKeeps ==
    ASSUME IInv, Refused
    PROVE  IInv'
  <1> USE DEF IInv
  <1>1. /\ TypeOK /\ Raises
        /\ UNCHANGED <<created, live, volume, domain, memory, images, pickled, made, boots, faults>>
        /\ \/ step = "memorize" /\ call = "save"
           \/ step = "vol-create" /\ call = "create" /\ volume[At] # Nothing
           \/ step = "define" /\ call = "create" /\ domain[At] # "undefined"
    BY StepsOf DEF Refused, host, directory, Coherent
  <1>2. /\ Coherent' /\ Placed' /\ KeptIsThere' /\ OnlyKeptRun' /\ Saving' /\ Unmade' /\ SavedTogether'
        /\ Creating'
    <2>1. faults' \in 0 .. MaxFaults
      BY <1>1 DEF TypeOK
    <2> QED BY <2>1, <1>1, RaisesKeep
  <1>3. FewLeft'
    <2>1. Leftovers' \subseteq Leftovers
      BY <1>1 DEF Leftovers, Exists, InHand
    <2>2. call = "create" => faults # 0
      <3> SUFFICES ASSUME call = "create" PROVE faults # 0
        OBVIOUS
      <3>1. index \in All /\ created = index - 1
        BY <1>1 DEF Placed
      <3>2. Exists(index) /\ ~InHand
        BY <1>1 DEF Placed, Exists, At, InHand
      <3>3. index \in Leftovers
        BY <3>1, <3>2, ResourceFacts DEF Leftovers
      <3> QED BY <3>3 DEF FewLeft
    <2>3. call' = "undo" => call = "create"
      BY <1>1, RaisesTo
    <2> QED BY <2>1, <2>2, <2>3, <1>1 DEF FewLeft
  <1> QED BY <1>2, <1>3

LEMMA FaultKeeps ==
    ASSUME IInv, Fault
    PROVE  IInv'
  <1> USE DEF IInv
  <1>1. /\ TypeOK /\ Raises /\ faults < MaxFaults /\ faults' = faults + 1
        /\ UNCHANGED <<created, live, volume, domain, memory, images, pickled, made, boots>>
        /\ call \in {"save", "create"} \/ (step = "kill" /\ domain[At] # "on")
        /\ faults \in Nat /\ MaxFaults \in Nat
    BY BoundsAssumption DEF Fault, host, directory, Coherent, TypeOK
  <1>2. step # "keep"
    BY DEF Fault
  <1>3. /\ Coherent' /\ Placed' /\ KeptIsThere' /\ OnlyKeptRun' /\ Saving' /\ Unmade' /\ SavedTogether'
        /\ Creating'
    <2>1. faults' \in 0 .. MaxFaults
      BY <1>1
    <2> QED BY <2>1, <1>1, <1>2, RaisesKeep
  <1>4. FewLeft'
    <2>1. \A i \in Leftovers' : i \in Leftovers \/ i = index
      BY <1>1 DEF Leftovers, Exists
    <2>2. faults' # 0 /\ (faults' <= 1 => faults = 0)
      BY <1>1
    <2>3. faults' <= 1 => \A i, j \in Leftovers' : i = j
      BY <2>1, <2>2 DEF FewLeft
    <2> QED BY <2>2, <2>3 DEF FewLeft
  <1> QED BY <1>3, <1>4

-----------------------------------------------------------------------------
\* The guests and the user.

LEMMA WritesKeep ==
    ASSUME IInv, NEW m \in Machines, Writes(m)
    PROVE  IInv'
  <1> USE DEF IInv
  <1> DEFINE v == DiskOf[m]
  <1>1. /\ TypeOK /\ domain[m] = "on" /\ v \in Volumes /\ volume[v] # Nothing /\ volume[v] < MaxWrites
        /\ volume' = [volume EXCEPT ![v] = @ + 1]
        /\ memory' = [memory EXCEPT ![m].disk = @ + 1]
        /\ UNCHANGED <<call, step, index, created, live, domain, images, pickled, made, boots, faults>>
    BY DiskAssumption DEF Writes, position, directory, Coherent
  <1>2. /\ volume[v] \in Contents /\ volume[v] + 1 \in Contents /\ volume[v] + 1 # Nothing
        /\ memory[m].disk = volume[v] /\ memory[m] \in Memories
    BY <1>1, NothingAssumption, BoundsAssumption DEF Coherent, TypeOK, Contents
  <1>3. /\ \A u \in Volumes : volume'[u] = IF u = v THEN volume[v] + 1 ELSE volume[u]
        /\ \A n \in Machines : n # m => memory'[n] = memory[n]
        /\ memory'[m] = [disk |-> volume[v] + 1, boot |-> memory[m].boot]
    BY <1>1, <1>2 DEF TypeOK, Memories
  <1>4. memory'[m] \in Memories /\ memory'[m].disk = volume'[v] /\ memory'[m].boot = memory[m].boot
    BY <1>1, <1>2, <1>3 DEF Memories
  <1>5. \A n \in Machines : n # m => DiskOf[n] # v /\ DiskOf[n] \in Volumes
    BY DiskFacts
  <1>6. Coherent'
    <2>1. TypeOK'
      BY <1>1, <1>2, <1>4 DEF TypeOK, Steps
    <2>2. ASSUME NEW n \in Machines, domain'[n] = "on"
          PROVE  memory'[n].disk = volume'[DiskOf[n]]
      BY <2>2, <1>1, <1>3, <1>4, <1>5 DEF Coherent
    <2> QED BY <2>1, <2>2 DEF Coherent
  <1>7. Placed' /\ OnlyKeptRun' /\ Unmade' /\ SavedTogether'
    <2>1. Placed'
      BY <1>1 DEF Placed, At
    <2> QED BY <2>1, <1>1 DEF OnlyKeptRun, Unmade, SavedTogether
  <1>8. KeptIsThere'
    <2>1. \A u \in Volumes : volume[u] # Nothing => volume'[u] # Nothing
      BY <1>2, <1>3
    <2> QED BY <2>1, <1>1, ResourceFacts DEF KeptIsThere
  <1>9. Saving'
    <2> SUFFICES ASSUME call = "save" PROVE Saving'
      BY <1>1 DEF Saving
    <2>1. \A i \in All : /\ Memorized(i)' <=> Memorized(i)
                         /\ Copied(i)' <=> Copied(i)
                         /\ Resumed(i)' <=> Resumed(i)
      BY <1>1 DEF Memorized, Copied, Resumed
    <2>2. ASSUME NEW i \in All, ~IsVolume(i), domain[Resources[i]] = "saved"
          PROVE  volume'[DiskOf[Resources[i]]] = volume[DiskOf[Resources[i]]]
      <3>1. Resources[i] \in Machines /\ Resources[i] # m
        BY <2>2, <1>1, ResourceFacts
      <3> QED BY <3>1, <1>3, <1>5
    <2> QED BY <2>1, <2>2, <1>1 DEF Saving
  <1>10. Creating'
    <2> SUFFICES ASSUME call = "create" PROVE Creating'
      BY <1>1 DEF Creating
    <2>1. \A i \in All : Started(i)' <=> Started(i)
      BY <1>1 DEF Started
    <2>2. ASSUME NEW i \in All, ~IsVolume(i), ~Started(i)
          PROVE  volume'[DiskOf[Resources[i]]] = volume[DiskOf[Resources[i]]]
      <3>1. Resources[i] \in Machines
        BY <2>2, ResourceFacts
      <3>2. domain[Resources[i]] # "on"
        BY <2>2 DEF OnlyKeptRun, Started
      <3>3. Resources[i] # m
        BY <3>2, <1>1
      <3> QED BY <3>1, <3>3, <1>3, <1>5
    <2>3. ASSUME NEW i \in All, ~IsVolume(i)
          PROVE  memory'[Resources[i]].boot = memory[Resources[i]].boot
      <3>1. Resources[i] \in Machines
        BY <2>3, ResourceFacts
      <3> QED BY <3>1, <1>3, <1>4
    <2> QED BY <2>1, <2>2, <2>3, <1>1 DEF Creating
  <1>11. FewLeft'
    <2>1. \A u \in Volumes : volume'[u] # Nothing => volume[u] # Nothing
      BY <1>1, <1>3
    <2>2. Leftovers' \subseteq Leftovers
      BY <2>1, <1>1, ResourceFacts DEF Leftovers, Exists, InHand
    <2> QED BY <2>2, <1>1, FewerLeft
  <1> QED BY <1>6, <1>7, <1>8, <1>9, <1>10, <1>11

\* What shuts down is not in a file, as it's running.
LEMMA ShutsDownKeeps ==
    ASSUME IInv, NEW m \in Machines, ShutsDown(m)
    PROVE  IInv'
  <1> USE DEF IInv
  <1>1. /\ TypeOK /\ domain[m] = "on" /\ domain' = [domain EXCEPT ![m] = "off"]
        /\ UNCHANGED <<call, step, index, created, live, volume, memory, images, pickled, made, boots, faults>>
    BY DEF ShutsDown, position, directory, Coherent
  <1>2. \A n \in Machines :
          /\ domain'[n] = "on" => domain[n] = "on"
          /\ domain'[n] = "saved" <=> domain[n] = "saved"
          /\ domain'[n] = "undefined" <=> domain[n] = "undefined"
    BY <1>1 DEF TypeOK
  <1>3. \A i \in All : ~IsVolume(i) => Resources[i] \in Machines
    BY ResourceFacts
  <1>4. Coherent'
    <2>1. TypeOK'
      BY <1>1 DEF TypeOK, Steps
    <2> QED BY <2>1, <1>1, <1>2 DEF Coherent
  <1>5. Placed'
    <2>1. ASSUME index \in All, ~IsVolume(index), domain[At] # "on" PROVE domain'[At] # "on"
      BY <2>1, <1>2, <1>3 DEF At
    <2>2. step = "undefine" => call \in {"destroy", "undo"}
      BY <1>1, StepsOf
    <2> QED BY <2>1, <2>2, <1>1 DEF Placed, At
  <1>6. KeptIsThere' /\ OnlyKeptRun' /\ SavedTogether' /\ Creating'
    <2>1. OnlyKeptRun'
      BY <1>1, <1>2, <1>3 DEF OnlyKeptRun
    <2> QED BY <2>1, <1>1 DEF KeptIsThere, SavedTogether, Creating, Started
  <1>7. Saving'
    <2>1. \A i \in All : /\ Memorized(i)' <=> Memorized(i)
                         /\ Copied(i)' <=> Copied(i)
                         /\ Resumed(i)' <=> Resumed(i)
      BY <1>1 DEF Memorized, Copied, Resumed
    <2> QED BY <2>1, <1>1, <1>2, <1>3 DEF Saving
  <1>8. Unmade'
    BY <1>1, <1>2 DEF Unmade
  <1>9. FewLeft'
    <2>1. Leftovers' \subseteq Leftovers
      BY <1>1, <1>2, <1>3 DEF Leftovers, Exists, InHand
    <2> QED BY <2>1, <1>1, FewerLeft
  <1> QED BY <1>4, <1>5, <1>6, <1>7, <1>8, <1>9

LEMMA PowerOnKeeps ==
    ASSUME IInv, NEW k \in 1 .. created, PowerOn(k)
    PROVE  IInv'
  <1> USE DEF IInv
  <1> DEFINE m == Resources[k]
  <1>1. /\ TypeOK /\ call \in {"none", "failed"} /\ ~IsVolume(k)
        /\ boots < MaxBoots /\ boots' = boots + 1
        /\ volume[DiskOf[m]] # Nothing
        /\ domain' = [domain EXCEPT ![m] = "on"]
        /\ memory' = [memory EXCEPT ![m] = [disk |-> volume[DiskOf[m]], boot |-> boots + 1]]
        /\ domain[m] \in {"off", "saved"}
        /\ UNCHANGED <<call, step, index, created, live, volume, images, pickled, made, faults>>
    BY DEF PowerOn, Boots, Idle, position, directory, Coherent
  <1>2. k \in All /\ k <= created /\ created \in Nat
    BY <1>1, ResourceFacts DEF TypeOK
  <1>3. m \in Machines /\ DiskOf[m] \in Volumes
    BY <1>1, <1>2, ResourceFacts, DiskFacts
  <1>4. [disk |-> volume[DiskOf[m]], boot |-> boots + 1] \in Memories
    BY <1>1, <1>3, BoundsAssumption DEF TypeOK, Memories
  <1>5. /\ \A n \in Machines : n # m => domain'[n] = domain[n] /\ memory'[n] = memory[n]
        /\ domain'[m] = "on" /\ memory'[m].disk = volume[DiskOf[m]]
    BY <1>1, <1>3 DEF TypeOK
  <1>6. \A i \in All : i # k =>
             /\ Exists(i)' <=> Exists(i)
             /\ ~IsVolume(i) =>
                  domain'[Resources[i]] = domain[Resources[i]] /\ memory'[Resources[i]] = memory[Resources[i]]
    BY <1>1, <1>2, <1>5, OtherMachines
  <1>7. Coherent'
    <2>1. TypeOK'
      BY <1>1, <1>3, <1>4, BoundsAssumption DEF TypeOK, Steps
    <2>2. ASSUME NEW n \in Machines, domain'[n] = "on"
          PROVE  memory'[n].disk = volume'[DiskOf[n]]
      BY <2>2, <1>1, <1>5 DEF Coherent
    <2> QED BY <2>1, <2>2 DEF Coherent
  <1>8. Placed' /\ KeptIsThere' /\ Saving' /\ Creating'
    BY <1>1 DEF Placed, KeptIsThere, Saving, Creating
  <1>9. OnlyKeptRun'
    BY <1>1, <1>2, <1>6 DEF OnlyKeptRun
  <1>10. Unmade' /\ SavedTogether'
    <2>1. \A n \in Machines : domain'[n] = "saved" => domain[n] = "saved"
      BY <1>5
    <2> QED BY <2>1, <1>1 DEF Unmade, SavedTogether
  <1>11. FewLeft'
    <2>1. \A i \in Leftovers' : i # k
      BY <1>1, <1>2 DEF Leftovers
    <2>2. Leftovers' \subseteq Leftovers
      BY <2>1, <1>1, <1>6 DEF Leftovers, InHand
    <2> QED BY <2>2, <1>1, FewerLeft
  <1> QED BY <1>7, <1>8, <1>9, <1>10, <1>11

-----------------------------------------------------------------------------
\* The inductive invariant.

LEMMA StutterKeeps ==
    ASSUME IInv, UNCHANGED vars
    PROVE  IInv'
  <1>1. UNCHANGED <<call, step, index, created, live, volume, domain, memory, images, pickled, made, boots, faults>>
    BY DEF vars, position, host, directory
  <1>2. Coherent'
    BY <1>1 DEF IInv, Coherent, TypeOK, Steps
  <1>3. Placed' /\ KeptIsThere' /\ OnlyKeptRun' /\ Unmade' /\ SavedTogether'
    BY <1>1 DEF IInv, Placed, At, KeptIsThere, OnlyKeptRun, Unmade, SavedTogether
  <1>4. Saving' /\ Creating' /\ FewLeft'
    BY <1>1 DEF IInv, Saving, Memorized, Copied, Resumed, Creating, Started, FewLeft, Leftovers, Exists, InHand
  <1> QED BY <1>2, <1>3, <1>4 DEF IInv

LEMMA InitIInv == Init => IInv
  <1> SUFFICES ASSUME Init PROVE IInv
    OBVIOUS
  <1>1. Len(Resources) \in Nat /\ All = 1 .. Len(Resources)
    BY ResourceFacts
  <1>2. 0 \in Contents /\ [disk |-> 0, boot |-> 1] \in Memories /\ 0 # Nothing
    BY BoundsAssumption, NothingAssumption DEF Contents, Memories
  <1>3. Coherent
    <2>1. /\ call \in DOMAIN Steps /\ step \in Steps[call] /\ live \in SUBSET Machines
          /\ {pickled, made} \subseteq BOOLEAN
      BY DEF Init, Steps
    <2>2. index \in 0 .. Len(Resources) + 1 /\ created \in 0 .. Len(Resources)
      BY <1>1 DEF Init
    <2>3. boots \in 1 .. MaxBoots /\ faults \in 0 .. MaxFaults
      BY BoundsAssumption DEF Init
    <2>4. /\ volume \in [Volumes -> {Nothing} \cup Contents]
          /\ domain \in [Machines -> {"undefined", "off", "on", "saved"}]
          /\ memory \in [Machines -> Memories]
      BY <1>2 DEF Init
    <2>5. /\ DOMAIN images = Volumes \cup Machines
          /\ \A v \in Volumes : images[v] \in {Nothing} \cup Contents
          /\ \A m \in Machines : images[m] \in {Nothing} \cup Memories
      BY DEF Init
    <2>6. TypeOK
      BY <2>1, <2>2, <2>3, <2>4, <2>5 DEF TypeOK
    <2> QED BY <2>6, DiskFacts DEF Init, Coherent
  <1>4. Placed /\ OnlyKeptRun /\ Saving /\ Unmade /\ SavedTogether /\ Creating
    BY <1>1 DEF Init, Placed, OnlyKeptRun, Saving, Unmade, SavedTogether, Creating
  <1>5. KeptIsThere
    BY <1>2, ResourceFacts DEF Init, KeptIsThere
  <1>6. FewLeft
    BY <1>1 DEF Init, FewLeft, Leftovers
  <1> QED BY <1>3, <1>4, <1>5, <1>6 DEF IInv

LEMMA StepIInv == IInv /\ [Next]_vars => IInv'
  <1> SUFFICES ASSUME IInv, [Next]_vars PROVE IInv'
    OBVIOUS
  <1>1. CASE CallSave \/ CallCreate \/ CallDestroy
    BY <1>1, CallsKeep
  <1>2. CASE Step
    <2>1. TypeOK
      BY DEF IInv, Coherent
    <2>2. CASE Mkdir
      BY <2>2, MkdirKeeps
    <2>3. CASE Look
      BY <2>3, LooksKeep
    <2>4. CASE Memorizes
      BY <2>4, MemorizesKeep
    <2>5. CASE Copies
      BY <2>5, CopiesKeep
    <2>6. CASE Passes
      <3>1. call = "save"
        BY <2>1, <2>6, StepsOf DEF Passes
      <3> QED BY <2>6, <3>1, LooksKeep
    <2>7. CASE Pickle
      BY <2>7, PickleKeeps
    <2>8. CASE Load
      BY <2>8, LoadKeeps
    <2>9. CASE Resumes
      <3>1. call \in {"save", "create"}
        BY <2>1, <2>9, StepsOf DEF Resumes
      <3> QED BY <2>9, <3>1, ResumesKeepInSave, ResumesKeepInCreate
    <2>10. CASE Define
      BY <2>10, DefineKeeps
    <2>11. CASE Volume
      BY <2>11, VolumesKeepInCreate, VolumesKeepInDestroy
    <2>12. CASE Keep
      BY <2>12, KeepsInCreate, PopKeeps
    <2>13. CASE Undefine
      BY <2>13, UndefineKeeps
    <2>14. CASE Refused
      BY <2>14, RefusedKeeps
    <2> QED
      BY <1>2, <2>2, <2>3, <2>4, <2>5, <2>6, <2>7, <2>8, <2>9, <2>10, <2>11, <2>12, <2>13, <2>14 DEF Step
  <1>3. CASE Fault
    BY <1>3, FaultKeeps
  <1>4. ASSUME NEW m \in Machines, Writes(m) \/ ShutsDown(m) PROVE IInv'
    BY <1>4, WritesKeep, ShutsDownKeeps
  <1>5. ASSUME NEW k \in 1 .. created, PowerOn(k) PROVE IInv'
    BY <1>5, PowerOnKeeps
  <1>6. CASE UNCHANGED vars
    BY <1>6, StutterKeeps
  <1> QED BY <1>1, <1>2, <1>3, <1>4, <1>5, <1>6 DEF Next

LEMMA Inductive == Spec => []IInv
  BY InitIInv, StepIInv, PTL DEF Spec

-----------------------------------------------------------------------------
\* A guest that runs knows what is in its volume: save() stops the guests before it
\* copies volumes and create() uploads them before their machines, so none goes on
\* from a memory its volume doesn't fit.
THEOREM RunsOnItsVolume == Spec => []Coherent
  <1>1. IInv => Coherent
    BY DEF IInv
  <1> QED BY <1>1, Inductive, PTL

\* A directory that save() finished has every volume, and each volume as its machine's
\* memory in the directory knows it.
THEOREM DirectoryIsWhole == Spec => []SavedTogether
  <1>1. IInv => SavedTogether
    BY DEF IInv
  <1> QED BY <1>1, Inductive, PTL

\* How a step of create(), or of its destroying what it created, ends it.
LEMMA Ends ==
    ASSUME IInv, Next, call \in {"create", "undo"}, call' \in {"none", "failed"}
    PROVE  \/ call' = "none" /\ call = "create" /\ (Load \/ Keep)
           \/ call' = "failed" /\ created' = 0 /\ faults' = faults
           \/ call' = "failed" /\ created' = 0 /\ Fault /\ call = "create"
           \/ call' = "failed" /\ call = "undo" /\ Fault
  <1>1. TypeOK
    BY DEF IInv, Coherent
  <1>2. CASE Step /\ Goes
    <2>1. CASE call = "create"
      <3>1. step \in {"load", "keep"} /\ call' = "none"
        BY <1>2, <2>1 DEF Goes, CreateThen, Creates, GoTo
      <3>2. Load \/ Keep
        BY <3>1, <1>1, <1>2, StepsOf
           DEF Step, Mkdir, Look, Memorizes, Copies, Passes, Pickle, Resumes, Define, Volume, Undefine, Refused
      <3> QED BY <3>1, <3>2, <2>1
    <2>2. CASE call = "undo"
      <3>1. step \in {"vol-delete", "undefine"} /\ created = 0 /\ call' = "failed"
        BY <1>1, <1>2, <2>2 DEF Goes, DestroyThen, Unwinds, GoTo, TypeOK, Steps
      <3>2. Volume \/ Undefine
        BY <3>1, <1>2
           DEF Step, Mkdir, Look, Memorizes, Copies, Passes, Pickle, Load, Resumes, Define, Keep, Refused
      <3>3. created' = created /\ faults' = faults
        BY <3>2 DEF Volume, Undefine
      <3> QED BY <3>1, <3>3
    <2> QED BY <2>1, <2>2
  <1>3. CASE Passes
    BY <1>1, <1>3, StepsOf DEF Passes
  <1>4. CASE Refused
    BY <1>1, <1>4, StepsOf DEF Refused, Raises, Unwinds, GoTo
  <1>5. CASE Fault
    BY <1>5 DEF Fault, Raises, Unwinds, GoTo
  <1>6. CASE \/ CallSave \/ CallCreate \/ CallDestroy
             \/ \E m \in Machines : Writes(m) \/ ShutsDown(m)
             \/ \E i \in 1 .. created : PowerOn(i)
    BY <1>6 DEF CallSave, CallCreate, CallDestroy, Calls, Idle, Writes, ShutsDown, PowerOn, position
  <1>7. Step => Goes \/ Passes \/ Refused
    BY DEF Step, Mkdir, Look, Memorizes, Copies, Pickle, Load, Resumes, Define, Volume, Keep, Undefine
  <1> QED BY <1>2, <1>3, <1>4, <1>5, <1>6, <1>7 DEF Next

\* A create() that succeeds has the machines that were saved with their memories go on
\* from them: each was restored from its file, and none was booted since.
THEOREM CreatedAsTheyWere == Spec => GoesOn
  <1>1. ASSUME IInv, [Next]_vars, call = "create", call' = "none", NEW m \in Machines, images[m] # Nothing
        PROVE  memory'[m].boot = images[m].boot
    <2>1. Next
      BY <1>1 DEF vars, position
    <2>2. Load \/ Keep
      BY <1>1, <2>1, Ends
    <2>3. /\ memory' = memory
          /\ \/ step = "load" /\ 1 \notin All
             \/ step = "keep" /\ created = index - 1 /\ index \in All /\ index + 1 \notin All
      <3>1. memory' = memory /\ step \in {"load", "keep"}
        BY <1>1, <2>2, StepsOf DEF Load, Keep, host, IInv, Coherent
      <3>2. Goes
        BY <2>2 DEF Load, Keep
      <3>3. IF step = "load" THEN 1 \notin All ELSE index + 1 \notin All
        BY <1>1, <3>1, <3>2 DEF Goes, CreateThen, Creates, GoTo
      <3> QED BY <1>1, <3>1, <3>3 DEF IInv, Placed
    <2>4. PICK i \in All : ~IsVolume(i) /\ Resources[i] = m
      BY ResourceFacts
    <2>5. Started(i)
      BY <2>3, ResourceFacts DEF Started
    <2> QED BY <1>1, <2>3, <2>4, <2>5 DEF IInv, Creating
  <1>2. IInv /\ [Next]_vars =>
          [call = "create" /\ call' = "none" =>
             \A m \in Machines : images[m] # Nothing => memory'[m].boot = images[m].boot]_vars
    BY <1>1
  <1> QED BY <1>2, Inductive, PTL DEF Spec, GoesOn

\* A save() that succeeds leaves no machine stopped with its memory in a file: each one
\* it stopped was restored before the directory was finished.
THEOREM SaveResumesAll == Spec => SaveGivesBack
  <1>1. ASSUME IInv, [Next]_vars, call = "save", call' = "none", NEW m \in Machines
        PROVE  domain'[m] # "saved"
    <2>1. TypeOK /\ (Next \/ UNCHANGED vars)
      BY <1>1 DEF IInv, Coherent
    <2>2. step = "pickle" /\ Pickle
      <3>1. CASE Step
        <4>1. step = "pickle"
          <5>1. CASE Goes
            BY <1>1, <2>1, <5>1 DEF Goes, SaveThen, GoTo, TypeOK, Steps
          <5>2. CASE Passes \/ Refused
            BY <1>1, <5>2 DEF Passes, Refused, Raises, GoTo
          <5>3. Goes \/ Passes \/ Refused
            BY <3>1
               DEF Step, Mkdir, Look, Memorizes, Copies, Pickle, Load, Resumes, Define, Volume, Keep, Undefine
          <5> QED BY <5>1, <5>2, <5>3
        <4> QED BY <4>1, <3>1
               DEF Step, Mkdir, Look, Memorizes, Copies, Passes, Load, Resumes, Define, Volume, Keep, Undefine,
                   Refused
      <3>2. CASE Fault
        BY <1>1, <3>2 DEF Fault, Raises, GoTo
      <3>3. CASE \/ CallSave \/ CallCreate \/ CallDestroy \/ UNCHANGED vars
                 \/ \E n \in Machines : Writes(n) \/ ShutsDown(n)
                 \/ \E i \in 1 .. created : PowerOn(i)
        BY <1>1, <3>3
           DEF CallSave, CallCreate, CallDestroy, Calls, Idle, Writes, ShutsDown, PowerOn, position, vars
      <3> QED BY <2>1, <3>1, <3>2, <3>3 DEF Next
    <2>3. domain' = domain
      BY <2>2 DEF Pickle, host
    <2>4. PICK i \in All : ~IsVolume(i) /\ Resources[i] = m
      BY ResourceFacts
    <2>5. Memorized(i) /\ Resumed(i)
      BY <2>2 DEF Memorized, Resumed
    <2> QED BY <1>1, <2>3, <2>4, <2>5 DEF IInv, Saving
  <1>2. IInv /\ [Next]_vars =>
          [call = "save" /\ call' = "none" => \A m \in Machines : domain'[m] # "saved"]_vars
    BY <1>1
  <1> QED BY <1>2, Inductive, PTL DEF Spec, SaveGivesBack

LEMMA AtMostOne ==
    ASSUME NEW S, \A x, y \in S : x = y
    PROVE  Cardinality(S) <= 1
  <1>1. CASE S = {}
    BY <1>1, FS_EmptySet
  <1>2. CASE S # {}
    <2>1. PICK x \in S : S = {x}
      BY <1>2
    <2> QED BY <2>1, FS_Singleton
  <1> QED BY <1>1, <1>2

\* A create() that fails has destroyed all it kept, whether a command failed or what it
\* was to create was there, so that after one failing command at most the resource that
\* command was for is left.
THEOREM FailsClean == Spec => OneLeftAtMost
  <1>1. ASSUME IInv, IInv', [Next]_vars, call \in {"create", "undo"}, call' = "failed", faults' <= 1
        PROVE  Cardinality(Existing') <= 1
    <2>1. Next
      BY <1>1 DEF vars, position
    <2>2. created' = 0
      <3>1. ~(call = "undo" /\ Fault)
        <4> SUFFICES ASSUME call = "undo", Fault PROVE FALSE
          OBVIOUS
        <4>1. faults # 0 /\ faults \in Nat
          BY <1>1, BoundsAssumption DEF IInv, FewLeft, Coherent, TypeOK
        <4> QED BY <1>1, <4>1 DEF Fault
      <3> QED BY <1>1, <2>1, <3>1, Ends
    <2>3. \A i \in All : Exists(i)' => i \in Leftovers'
      BY <1>1, <2>2, ResourceFacts DEF Leftovers, InHand
    <2>4. \A x \in Existing' : \E i \in All : Exists(i)' /\ Resources[i] = x
      BY ResourceFacts DEF Existing, Exists
    <2>5. \A i, j \in Leftovers' : i = j
      BY <1>1 DEF IInv, FewLeft
    <2> QED BY <2>3, <2>4, <2>5, AtMostOne
  <1>2. IInv /\ IInv' /\ [Next]_vars =>
          [(call = "create" \/ call = "undo") /\ call' = "failed" /\ faults' <= 1 =>
             Cardinality(Existing') <= 1]_vars
    BY <1>1
  <1> QED BY <1>2, Inductive, PTL DEF Spec, OneLeftAtMost
=============================================================================
