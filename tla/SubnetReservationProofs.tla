----------------------- MODULE SubnetReservationProofs -----------------------
(***************************************************************************)
(* What holds of SubnetReservation for every number of processes,          *)
(* reservations, files and subnets, as long as no process names one lock   *)
(* file in two ways (NoAliases).                                           *)
(***************************************************************************)
EXTENDS SubnetReservation, TLAPS

\* What each process knows of the call it is in.
CurOK ==
    \A p \in Proc :
        /\ pc[p] \in {"open", "scan", "unlocked"} => cur[p] \in Res /\ Owner[cur[p]] = p
        /\ pc[p] \in {"open", "scan"} => index[cur[p]] = None
        /\ pc[p] = "scan" => PathOf[cur[p]] \in files[p]
        /\ pc[p] = "unlocked" => index[cur[p]] # None /\ cur[p] \notin up

\* TAKEN does what the kernel won't: one process, one name, one /24.
OwnOnce ==
    \A r, s \in Res :
        /\ r # s
        /\ Owner[r] = Owner[s]
        /\ PathOf[r] = PathOf[s]
        /\ index[r] # None
        /\ index[s] # None
        => index[r] # index[s]

UpOK == \A r \in up : index[r] # None

IInv ==
    /\ TypeOK
    /\ CurOK
    /\ OwnOnce
    /\ UpOK
    /\ DestroyFindsItsEntries
    /\ Locked

\* Two reservations with one /24 would hold one lock, so be of one process, and
\* then TAKEN kept them apart.
LEMMA LockedIsExclusive ==
    ASSUME NoAliases, TypeOK, OwnOnce, Locked
    PROVE  Exclusive
  BY OwnerAssumption, NoneAssumption
  DEF NoAliases, TypeOK, OwnOnce, Locked, Exclusive, Reserved, LockFile

LEMMA InitIInv == Init => IInv
  BY DEF Init, IInv, TypeOK, CurOK, OwnOnce, UpOK, DestroyFindsItsEntries, Locked,
         Reserved

LEMMA ReadRoutesIInv ==
    ASSUME IInv, NEW p \in Proc, NEW r \in Res, ReadRoutes(p, r)
    PROVE  IInv'
  <1> USE DEF ReadRoutes, IInv
  <1>1. TypeOK'
    BY DEF TypeOK, Routes, UpOK
  <1>2. CurOK'
    BY DEF TypeOK, CurOK
  <1>3. OwnOnce' /\ UpOK' /\ DestroyFindsItsEntries'
    BY DEF OwnOnce, UpOK, DestroyFindsItsEntries
  <1>4. Locked'
    BY DEF TypeOK, Locked, Reserved, LockFile
  <1> QED BY <1>1, <1>2, <1>3, <1>4

LEMMA OpenLockFileIInv ==
    ASSUME IInv, NEW p \in Proc, OpenLockFile(p)
    PROVE  IInv'
  <1> USE DEF OpenLockFile, IInv
  <1>1. TypeOK'
    BY NameAssumption, RangeAssumption DEF TypeOK, CurOK, Subnet, Start
  <1>2. CurOK'
    BY DEF TypeOK, CurOK
  <1>3. OwnOnce' /\ UpOK' /\ DestroyFindsItsEntries'
    BY DEF OwnOnce, UpOK, DestroyFindsItsEntries
  <1>4. Locked'
    BY DEF TypeOK, Locked, Reserved, LockFile
  <1> QED BY <1>1, <1>2, <1>3, <1>4

LEMMA PassOverIInv ==
    ASSUME IInv, NEW p \in Proc, PassOver(p)
    PROVE  IInv'
  <1> USE DEF PassOver, IInv
  <1>1. TypeOK'
    BY DEF TypeOK
  <1>2. CurOK'
    BY DEF TypeOK, CurOK
  <1>3. OwnOnce' /\ UpOK' /\ DestroyFindsItsEntries'
    BY DEF OwnOnce, UpOK, DestroyFindsItsEntries
  <1>4. Locked'
    BY DEF TypeOK, Locked, Reserved, LockFile
  <1> QED BY <1>1, <1>2, <1>3, <1>4

LEMMA ReserveIInv ==
    ASSUME IInv, NEW p \in Proc, Reserve(p)
    PROVE  IInv'
  <1> DEFINE r == cur[p]
             i == cursor[p]
  <1> USE DEF IInv
  <1>1. r \in Res /\ Owner[r] = p /\ index[r] = None /\ PathOf[r] \in files[p]
    BY DEF Reserve, Scanning, CurOK
  <1>2. i \in Subnet
    <2>1. i \in Nat /\ i <= LastOf[r]
      BY DEF Reserve, Scanning, TypeOK
    <2>2. LastOf[r] \in 0 .. LastSubnet /\ LastSubnet \in Nat
      BY <1>1, RangeAssumption DEF Subnet
    <2> HIDE DEF i, r
    <2> QED BY <2>1, <2>2 DEF Subnet
  <1>3. <<PathOf[r], i>> \notin taken[p]
    BY DEF Reserve, Skips
  <1>4. /\ index' = [index EXCEPT ![r] = i]
        /\ taken' = [taken EXCEPT ![p] = @ \cup {<<PathOf[r], i>>}]
        /\ locks' = [locks EXCEPT ![LockFile(r)][i] = p]
        /\ pc' = [pc EXCEPT ![p] = "idle"]
        /\ UNCHANGED <<cur, used, cursor, files, up, foreign>>
    BY DEF Reserve, Lock
  <1>5. TypeOK'
    BY <1>1, <1>2, <1>4, NameAssumption DEF TypeOK, LockFile
  <1>6. CurOK' /\ UpOK'
    BY <1>1, <1>2, <1>4, NoneAssumption DEF TypeOK, CurOK, UpOK
  <1>7. OwnOnce'
    <2> SUFFICES ASSUME NEW x \in Res, NEW y \in Res, x # y, Owner[x] = Owner[y],
                        PathOf[x] = PathOf[y], index'[x] # None, index'[y] # None
                 PROVE  index'[x] # index'[y]
      BY DEF OwnOnce
    <2>1. CASE x # r /\ y # r
      BY <2>1, <1>4 DEF TypeOK, OwnOnce
    <2>2. CASE x = r
      BY <2>2, <1>1, <1>3, <1>4 DEF TypeOK, DestroyFindsItsEntries
    <2>3. CASE y = r
      BY <2>3, <1>1, <1>3, <1>4 DEF TypeOK, DestroyFindsItsEntries
    <2> QED BY <2>1, <2>2, <2>3
  <1>8. DestroyFindsItsEntries'
    BY <1>1, <1>4, OwnerAssumption DEF TypeOK, DestroyFindsItsEntries
  <1>9. Locked'
    <2> SUFFICES ASSUME NEW s \in Res, Reserved(s)'
                 PROVE  locks'[LockFile(s)][index'[s]] = Owner[s]
      BY DEF Locked, LockFile
    <2>1. LockFile(s) \in File /\ LockFile(r) \in File
      BY <1>1, NameAssumption DEF LockFile
    <2>2. CASE s = r
      BY <2>1, <2>2, <1>1, <1>2, <1>4 DEF TypeOK
    <2>3. CASE s # r
      <3>1. index'[s] = index[s] /\ index[s] \in Subnet
        BY <2>3, <1>1, <1>4 DEF TypeOK, Reserved
      <3>2. Reserved(s)
        BY <3>1, <2>3, <1>4, <1>1, OwnerAssumption DEF Reserved, TypeOK, Reserve, Scanning
      <3>3. locks[LockFile(s)][index[s]] = Owner[s]
        BY <3>2 DEF Locked
      <3>4. CASE LockFile(s) = LockFile(r) /\ index[s] = i
        <4>1. locks[LockFile(s)][index[s]] \in {None, p}
          BY <3>4 DEF Reserve, CanLock
        <4>2. Owner[s] = p
          BY <4>1, <3>3, OwnerAssumption, NoneAssumption
        <4> QED BY <4>2, <3>1, <3>4, <2>1, <1>4, <1>2 DEF TypeOK
      <3>5. CASE ~(LockFile(s) = LockFile(r) /\ index[s] = i)
        BY <3>5, <3>1, <3>3, <2>1, <1>2, <1>4 DEF TypeOK
      <3> QED BY <3>4, <3>5
    <2> QED BY <2>2, <2>3
  <1> QED BY <1>5, <1>6, <1>7, <1>8, <1>9

LEMMA GiveUpIInv ==
    ASSUME IInv, NEW p \in Proc, GiveUp(p)
    PROVE  IInv'
  <1> USE DEF GiveUp, IInv
  <1>1. TypeOK'
    BY DEF TypeOK
  <1>2. CurOK'
    BY DEF TypeOK, CurOK
  <1>3. OwnOnce' /\ UpOK' /\ DestroyFindsItsEntries'
    BY DEF OwnOnce, UpOK, DestroyFindsItsEntries
  <1>4. Locked'
    BY DEF TypeOK, Locked, Reserved, LockFile
  <1> QED BY <1>1, <1>2, <1>3, <1>4

\* Unlocking r's byte takes no other reservation's lock: theirs are of other bytes.
LEMMA UnlockByteIInv ==
    ASSUME NoAliases, IInv, NEW p \in Proc, NEW r \in Res, UnlockByte(p, r)
    PROVE  IInv'
  <1> USE DEF IInv
  <1>1. /\ pc[p] = "idle" /\ Owner[r] = p /\ index[r] \in Subnet /\ index[r] # None
        /\ LockFile(r) \in File
        /\ locks' = [locks EXCEPT ![LockFile(r)][index[r]] = None]
        /\ cur' = [cur EXCEPT ![p] = r]
        /\ pc' = [pc EXCEPT ![p] = "unlocked"]
        /\ UNCHANGED <<used, cursor, index, taken, files, up, foreign>>
    BY NameAssumption DEF UnlockByte, Unlock, TypeOK, LockFile
  <1>2. TypeOK'
    BY <1>1 DEF TypeOK
  <1>3. CurOK'
    BY <1>1 DEF UnlockByte, TypeOK, CurOK
  <1>4. OwnOnce' /\ UpOK' /\ DestroyFindsItsEntries'
    BY <1>1 DEF OwnOnce, UpOK, DestroyFindsItsEntries
  <1>5. Locked'
    <2> SUFFICES ASSUME NEW s \in Res, Reserved(s)'
                 PROVE  locks'[LockFile(s)][index'[s]] = Owner[s]
      BY DEF Locked, LockFile
    <2>1. s # r /\ Reserved(s) /\ index'[s] = index[s] /\ index[s] \in Subnet
      BY <1>1, OwnerAssumption DEF Reserved, TypeOK
    <2>2. Reserved(r)
      BY <1>1 DEF Reserved
    <2>3. ~(LockFile(s) = LockFile(r) /\ index[s] = index[r])
      BY <2>1, <2>2, LockedIsExclusive DEF Exclusive
    <2>4. LockFile(s) \in File
      BY NameAssumption DEF LockFile
    <2> QED BY <2>1, <2>3, <2>4, <1>1 DEF TypeOK, Locked
  <1> QED BY <1>2, <1>3, <1>4, <1>5

\* The file is closed only when no other reservation of the process is in it.
LEMMA ForgetIInv ==
    ASSUME NoAliases, IInv, NEW p \in Proc, Forget(p)
    PROVE  IInv'
  <1> DEFINE r == cur[p]
             left == taken[p] \ {<<PathOf[r], index[r]>>}
             closes == NoneLeft(left, PathOf[r])
  <1> USE DEF IInv
  <1>1. /\ r \in Res /\ Owner[r] = p /\ pc[p] = "unlocked" /\ index[r] # None
        /\ LockFile(r) \in File
    BY NameAssumption DEF Forget, CurOK, LockFile
  <1>2. /\ index' = [index EXCEPT ![r] = None]
        /\ taken' = [taken EXCEPT ![p] = left]
        /\ pc' = [pc EXCEPT ![p] = "idle"]
        /\ UNCHANGED <<cur, used, cursor, up, foreign>>
    BY DEF Forget
  <1>3. ~closes => UNCHANGED <<files, locks>>
    BY DEF Forget
  <1>4. closes => /\ files' = [files EXCEPT ![p] = @ \ {PathOf[r]}]
                  /\ locks' = [f \in File |-> [i \in Subnet |->
                        IF f \in {LockFile(r)} /\ locks[f][i] = p
                          THEN None ELSE locks[f][i]]]
    BY DEF Forget, DropAll
  <1>5. TypeOK'
    <2>1. locks' \in [File -> [Subnet -> Proc \cup {None}]]
      BY <1>3, <1>4 DEF TypeOK
    <2>2. files' \in [Proc -> SUBSET Path]
      BY <1>3, <1>4, SMTT(30) DEF TypeOK
    <2> QED BY <2>1, <2>2, <1>1, <1>2 DEF TypeOK
  <1>6. \A s \in Res : s # r /\ index[s] # None /\ Owner[s] = p /\ PathOf[s] = PathOf[r]
                        => <<PathOf[s], index[s]>> \in left
    BY <1>1 DEF OwnOnce, DestroyFindsItsEntries
  <1>7. CurOK'
    <2> SUFFICES ASSUME NEW q \in Proc
                 PROVE  /\ pc'[q] \in {"open", "scan", "unlocked"}
                             => cur'[q] \in Res /\ Owner[cur'[q]] = q
                        /\ pc'[q] \in {"open", "scan"} => index'[cur'[q]] = None
                        /\ pc'[q] = "scan" => PathOf[cur'[q]] \in files'[q]
                        /\ pc'[q] = "unlocked"
                             => index'[cur'[q]] # None /\ cur'[q] \notin up'
      BY DEF CurOK
    <2>1. CASE q = p
      BY <2>1, <1>2 DEF TypeOK
    <2>2. CASE q # p
      <3>1. pc'[q] = pc[q] /\ cur'[q] = cur[q]
        BY <2>2, <1>2 DEF TypeOK
      <3>2. files'[q] = files[q]
        BY <2>2, <1>3, <1>4 DEF TypeOK
      <3>3. pc[q] \in {"open", "scan", "unlocked"} => index'[cur[q]] = index[cur[q]]
        BY <2>2, <1>1, <1>2 DEF TypeOK, CurOK
      <3> QED BY <3>1, <3>2, <3>3, <1>2 DEF CurOK
    <2> QED BY <2>1, <2>2
  <1>8. OwnOnce'
    BY <1>1, <1>2 DEF TypeOK, OwnOnce
  <1>9. UpOK'
    BY <1>1, <1>2 DEF TypeOK, UpOK, Forget, CurOK
  <1>10. DestroyFindsItsEntries'
    <2> SUFFICES ASSUME NEW s \in Res, index'[s] # None
                 PROVE  /\ PathOf[s] \in files'[Owner[s]]
                        /\ <<PathOf[s], index'[s]>> \in taken'[Owner[s]]
      BY DEF DestroyFindsItsEntries
    <2>1. s # r /\ index'[s] = index[s] /\ index[s] # None
      BY <1>1, <1>2 DEF TypeOK
    <2>2. PathOf[s] \in files[Owner[s]] /\ <<PathOf[s], index[s]>> \in taken[Owner[s]]
      BY <2>1 DEF DestroyFindsItsEntries
    <2>3. CASE Owner[s] # p
      BY <2>1, <2>2, <2>3, <1>2, <1>3, <1>4, OwnerAssumption DEF TypeOK
    <2>4. CASE Owner[s] = p /\ PathOf[s] = PathOf[r]
      <3>1. <<PathOf[s], index[s]>> \in left
        BY <2>1, <2>4, <1>6
      <3>2. ~closes
        BY <3>1, <2>4 DEF NoneLeft
      <3> QED BY <3>1, <3>2, <2>1, <2>2, <2>4, <1>2, <1>3 DEF TypeOK
    <2>5. CASE Owner[s] = p /\ PathOf[s] # PathOf[r]
      <3>1. PathOf[s] \in files'[p]
        BY <2>2, <2>5, <1>3, <1>4 DEF TypeOK
      <3>2. <<PathOf[s], index[s]>> \in left
        BY <2>2, <2>5
      <3> QED BY <3>1, <3>2, <2>1, <2>5, <1>2 DEF TypeOK
    <2> QED BY <2>3, <2>4, <2>5
  <1>11. Locked'
    <2> SUFFICES ASSUME NEW s \in Res, Reserved(s)'
                 PROVE  locks'[LockFile(s)][index'[s]] = Owner[s]
      BY DEF Locked, LockFile
    <2>1. s # r /\ index'[s] = index[s] /\ index[s] \in Subnet
      BY <1>1, <1>2 DEF Reserved, TypeOK
    <2>2. Reserved(s)
      BY <2>1, <1>1, <1>2, OwnerAssumption DEF Reserved, TypeOK
    <2>3. locks[LockFile(s)][index[s]] = Owner[s] /\ LockFile(s) \in File
      BY <2>2, NameAssumption DEF Locked, LockFile
    <2>4. CASE ~closes
      BY <2>1, <2>3, <2>4, <1>3
    <2>5. CASE closes
      <3>1. ~(LockFile(s) = LockFile(r) /\ Owner[s] = p)
        <4> SUFFICES ASSUME LockFile(s) = LockFile(r), Owner[s] = p
                     PROVE  FALSE
          OBVIOUS
        <4>1. PathOf[s] = PathOf[r]
          BY <1>1 DEF NoAliases
        <4>2. <<PathOf[s], index[s]>> \in left
          BY <4>1, <2>1, <1>6, NoneAssumption
        <4> QED BY <4>1, <4>2, <2>5 DEF NoneLeft
      <3> QED BY <3>1, <2>1, <2>3, <2>5, <1>4
    <2> QED BY <2>4, <2>5
  <1> QED BY <1>5, <1>7, <1>8, <1>9, <1>10, <1>11

LEMMA NetworkIInv ==
    ASSUME IInv, NEW p \in Proc, NEW r \in Res, NetworkUp(p, r) \/ NetworkDown(p, r)
    PROVE  IInv'
  <1> USE DEF IInv
  <1>1. UNCHANGED <<pc, cur, used, cursor, index, taken, files, locks, foreign>>
    BY DEF NetworkUp, NetworkDown
  <1>2. up' \subseteq Res /\ UpOK' /\ CurOK'
    BY <1>1 DEF NetworkUp, NetworkDown, TypeOK, UpOK, CurOK
  <1>3. TypeOK' /\ OwnOnce' /\ DestroyFindsItsEntries' /\ Locked'
    BY <1>1, <1>2 DEF TypeOK, OwnOnce, DestroyFindsItsEntries, Locked, Reserved, LockFile
  <1> QED BY <1>2, <1>3

\* A death takes the locks of one process and the reservations of the same one.
LEMMA KillIInv ==
    ASSUME IInv, NEW p \in Proc, Kill(p)
    PROVE  IInv'
  <1> USE DEF IInv
  <1>1. \A r \in Res : index'[r] = IF Owner[r] = p THEN None ELSE index[r]
    BY DEF Kill
  <1>2. /\ pc' = [pc EXCEPT ![p] = "dead"]
        /\ cur' = [cur EXCEPT ![p] = None]
        /\ taken' = [taken EXCEPT ![p] = {}]
        /\ files' = [files EXCEPT ![p] = {}]
        /\ up' = {r \in up : Owner[r] # p}
        /\ locks' = [f \in File |-> [i \in Subnet |->
              IF f \in File /\ locks[f][i] = p THEN None ELSE locks[f][i]]]
    BY DEF Kill, DropAll
  <1>3. TypeOK'
    <2>1. locks' \in [File -> [Subnet -> Proc \cup {None}]]
      BY <1>2 DEF TypeOK
    <2>2. foreign' \subseteq Subnet
      BY DEF Kill, TypeOK, UpOK
    <2>3. index' \in [Res -> Subnet \cup {None}]
      BY DEF Kill, TypeOK
    <2> QED BY <2>1, <2>2, <2>3 DEF Kill, TypeOK
  <1>4. CurOK'
    BY <1>1, <1>2 DEF TypeOK, CurOK
  <1>5. OwnOnce' /\ UpOK'
    BY <1>1, <1>2 DEF TypeOK, OwnOnce, UpOK
  <1>6. DestroyFindsItsEntries'
    BY <1>1, <1>2, OwnerAssumption DEF TypeOK, DestroyFindsItsEntries
  <1>7. Locked'
    <2> SUFFICES ASSUME NEW s \in Res, Reserved(s)'
                 PROVE  locks'[LockFile(s)][index'[s]] = Owner[s]
      BY DEF Locked, LockFile
    <2>1. Owner[s] # p /\ index'[s] = index[s] /\ index[s] \in Subnet
      BY <1>1 DEF Reserved, TypeOK
    <2>2. Reserved(s)
      BY <2>1, <1>2, OwnerAssumption DEF Reserved, TypeOK
    <2>3. locks[LockFile(s)][index[s]] = Owner[s] /\ LockFile(s) \in File
      BY <2>2, NameAssumption DEF Locked, LockFile
    <2> QED BY <2>1, <2>3, <1>2
  <1> QED BY <1>3, <1>4, <1>5, <1>6, <1>7

LEMMA RestartIInv ==
    ASSUME IInv, NEW p \in Proc, Restart(p)
    PROVE  IInv'
  <1> USE DEF Restart, IInv
  <1>1. TypeOK'
    BY DEF TypeOK
  <1>2. CurOK'
    BY DEF TypeOK, CurOK
  <1>3. OwnOnce' /\ UpOK' /\ DestroyFindsItsEntries'
    BY DEF OwnOnce, UpOK, DestroyFindsItsEntries
  <1>4. Locked'
    BY DEF TypeOK, Locked, Reserved, LockFile
  <1> QED BY <1>1, <1>2, <1>3, <1>4

LEMMA NextIInv ==
    ASSUME NoAliases, IInv, [Next]_vars
    PROVE  IInv'
  <1>1. CASE UNCHANGED vars
    BY <1>1 DEF vars, IInv, TypeOK, CurOK, OwnOnce, UpOK, DestroyFindsItsEntries, Locked,
                Reserved, LockFile
  <1>2. CASE Next
    <2> PICK p \in Proc :
          \/ Step(p)
          \/ \E r \in Res : ReadRoutes(p, r)
          \/ \E r \in Res : UnlockByte(p, r)
          \/ \E r \in Res : NetworkUp(p, r)
          \/ \E r \in Res : NetworkDown(p, r)
          \/ Kill(p)
          \/ Restart(p)
      BY <1>2 DEF Next
    <2>1. CASE Step(p)
      BY <2>1, OpenLockFileIInv, PassOverIInv, ReserveIInv, GiveUpIInv, ForgetIInv DEF Step
    <2>2. CASE \E r \in Res : ReadRoutes(p, r)
      BY <2>2, ReadRoutesIInv
    <2>3. CASE \E r \in Res : UnlockByte(p, r)
      BY <2>3, UnlockByteIInv
    <2>4. CASE \E r \in Res : NetworkUp(p, r) \/ NetworkDown(p, r)
      BY <2>4, NetworkIInv
    <2>5. CASE Kill(p) \/ Restart(p)
      BY <2>5, KillIInv, RestartIInv
    <2> QED BY <2>1, <2>2, <2>3, <2>4, <2>5
  <1> QED BY <1>1, <1>2

LEMMA AlwaysIInv ==
    ASSUME NoAliases
    PROVE  Spec => []IInv
  <1>1. Init => IInv
    BY InitIInv
  <1>2. IInv /\ [Next]_vars => IInv'
    BY NextIInv
  <1> QED BY <1>1, <1>2, PTL DEF Spec

\* The variables keep to their types: no cursor leaves the /24s with a lock taken,
\* and no route is left behind by a reservation that had no subnet.
THEOREM TypeCorrect ==
    ASSUME NoAliases
    PROVE  Spec => []TypeOK
  <1>1. IInv => TypeOK
    BY DEF IInv
  <1> QED BY <1>1, AlwaysIInv, PTL

\* Two live reservations through one lock file never have the same /24, whoever
\* made them and whoever was killed.
THEOREM SubnetsExclusive ==
    ASSUME NoAliases
    PROVE  Spec => []Exclusive
  <1>1. IInv => Exclusive
    BY LockedIsExclusive DEF IInv
  <1> QED BY <1>1, AlwaysIInv, PTL

\* No close() releases the lock of a reservation that is still there.
THEOREM ReservationsStayLocked ==
    ASSUME NoAliases
    PROVE  Spec => []Locked
  <1>1. IInv => Locked
    BY DEF IInv
  <1> QED BY <1>1, AlwaysIInv, PTL

\* destroy() finds its descriptor and its TAKEN entry, in any order of destruction.
THEOREM DestroyNeverFails ==
    ASSUME NoAliases
    PROVE  Spec => []DestroyFindsItsEntries
  <1>1. IInv => DestroyFindsItsEntries
    BY DEF IInv
  <1> QED BY <1>1, AlwaysIInv, PTL

-----------------------------------------------------------------------------
\* The step that reserves: the /24 it takes is free in the table.
LEMMA ReserveAcquires ==
    ASSUME NoAliases, IInv, NEW p \in Proc, Reserve(p)
    PROVE  Table!Acquire(cur[p])
  <1> PICK r \in Res : r = cur[p]
    BY DEF Reserve, Scanning, IInv, CurOK
  <1> DEFINE i == cursor[p]
  <1>1. IInv' /\ Exclusive'
    <2>1. IInv'
      BY ReserveIInv
    <2>2. TypeOK' /\ OwnOnce' /\ Locked'
      BY <2>1 DEF IInv
    <2>3. Exclusive'
      BY <2>2, OwnerAssumption, NoneAssumption
      DEF NoAliases, TypeOK, OwnOnce, Locked, Exclusive, Reserved, LockFile
    <2> QED BY <2>1, <2>3
  <1>2. /\ r \in Res /\ Owner[r] = p /\ pc[p] = "scan" /\ index[r] = None
        /\ index' = [index EXCEPT ![r] = i] /\ pc' = [pc EXCEPT ![p] = "idle"]
        /\ cur' = cur
    BY DEF Reserve, Scanning, IInv, CurOK
  <1>3. index'[r] \in Subnet \cup {None} /\ index'[r] = i /\ i \in Nat
    BY <1>1, <1>2 DEF IInv, TypeOK
  <1>4. i \in Subnet /\ i # None
    <2>1. i <= LastOf[r] /\ LastOf[r] \in Subnet /\ LastSubnet \in Nat
      BY <1>2, RangeAssumption DEF Reserve, Scanning
    <2> HIDE DEF i
    <2>2. i \in Subnet
      BY <2>1, <1>3 DEF Subnet
    <2> QED BY <2>2, NoneAssumption
  <1>5. \A s \in Res : s # r => index'[s] = index[s] /\ (Reserved(s)' <=> Reserved(s))
    BY <1>2, OwnerAssumption DEF Reserved, IInv, TypeOK
  <1>6. ~Reserved(r) /\ Reserved(r)'
    BY <1>2, <1>3, <1>4 DEF Reserved, IInv, TypeOK
  <1>7. has[r] = None
    BY <1>2, <1>6 DEF has
  <1>8. has' = [has EXCEPT ![r] = i]
    <2>1. has' = [s \in Res |-> IF s = r THEN i ELSE has[s]]
      BY <1>3, <1>5, <1>6 DEF has
    <2>2. has = [s \in Res |-> has[s]]
      BY DEF has
    <2> HIDE DEF i
    <2> QED BY <2>1, <2>2
  <1>9. Table!Free(r, i)
    <2> SUFFICES ASSUME NEW s \in Res, LockFile(s) = LockFile(r), has[s] = i
                 PROVE  FALSE
      BY <1>2 DEF Table!Free, LockOf
    <2>1. s # r /\ Reserved(s) /\ index[s] = i
      BY <1>4, <1>7 DEF has
    <2>2. Reserved(s)' /\ index'[s] = index'[r] /\ LockFile(s)' = LockFile(r)'
      BY <2>1, <1>3, <1>5 DEF LockFile
    <2> QED BY <2>1, <2>2, <1>1, <1>2, <1>6 DEF Exclusive
  <1> QED BY <1>4, <1>7, <1>8, <1>9 DEF Table!Acquire

LEMMA UnlockByteReleases ==
    ASSUME IInv, NEW p \in Proc, NEW r \in Res, UnlockByte(p, r)
    PROVE  Table!Release({r})
  <1>1. /\ pc[p] = "idle" /\ Owner[r] = p /\ index[r] # None /\ index' = index
        /\ pc' = [pc EXCEPT ![p] = "unlocked"] /\ cur' = [cur EXCEPT ![p] = r]
    BY DEF UnlockByte
  <1>2. Reserved(r) /\ ~Reserved(r)'
    BY <1>1 DEF Reserved, IInv, TypeOK
  <1>3. \A s \in Res : s # r => (Reserved(s)' <=> Reserved(s))
    BY <1>1, OwnerAssumption DEF Reserved, IInv, TypeOK
  <1>4. has[r] # None
    BY <1>1, <1>2 DEF has
  <1>5. has' = [s \in Res |-> IF s \in {r} THEN None ELSE has[s]]
    BY <1>1, <1>2, <1>3 DEF has
  <1> QED BY <1>4, <1>5 DEF Table!Release

LEMMA KillReleases ==
    ASSUME IInv, NEW p \in Proc, Kill(p)
    PROVE  Table!TableNext \/ has' = has
  <1> DEFINE gone == {r \in Res : Owner[r] = p /\ Reserved(r)}
  <1>1. \A r \in Res : index'[r] = IF Owner[r] = p THEN None ELSE index[r]
    BY DEF Kill
  <1>2. pc' = [pc EXCEPT ![p] = "dead"] /\ cur' = [cur EXCEPT ![p] = None]
    BY DEF Kill
  <1>3. \A r \in Res : Owner[r] # p => (Reserved(r)' <=> Reserved(r))
    BY <1>1, <1>2, OwnerAssumption DEF Reserved, IInv, TypeOK
  <1>4. \A r \in Res : Owner[r] = p => ~Reserved(r)'
    BY <1>1 DEF Reserved
  <1>5. has' = [r \in Res |-> IF r \in gone THEN None ELSE has[r]]
    BY <1>1, <1>3, <1>4 DEF has
  <1>6. \A r \in gone : has[r] # None
    BY DEF has, Reserved
  <1>7. CASE gone = {}
    BY <1>5, <1>7 DEF has
  <1>8. CASE gone # {}
    <2>1. Table!Release(gone)
      BY <1>5, <1>6, <1>8 DEF Table!Release
    <2>2. gone \in SUBSET Res
      OBVIOUS
    <2> QED BY <2>1, <2>2 DEF Table!TableNext
  <1> QED BY <1>7, <1>8

\* Everything else leaves the table alone.
LEMMA OthersStutter ==
    ASSUME IInv, NEW p \in Proc,
           \/ OpenLockFile(p) \/ PassOver(p) \/ GiveUp(p) \/ Forget(p) \/ Restart(p)
           \/ \E r \in Res : ReadRoutes(p, r) \/ NetworkUp(p, r) \/ NetworkDown(p, r)
    PROVE  has' = has
  <1>1. CASE Forget(p)
    <2> PICK r \in Res : r = cur[p]
      BY <1>1 DEF Forget, IInv, CurOK
    <2>1. /\ Owner[r] = p /\ pc[p] = "unlocked"
          /\ index' = [index EXCEPT ![r] = None]
          /\ pc' = [pc EXCEPT ![p] = "idle"] /\ cur' = cur
      BY <1>1 DEF Forget, IInv, CurOK
    <2>2. \A s \in Res : s # r => index'[s] = index[s] /\ (Reserved(s)' <=> Reserved(s))
      BY <2>1, OwnerAssumption DEF Reserved, IInv, TypeOK
    <2>3. ~Reserved(r) /\ ~Reserved(r)'
      BY <2>1 DEF Reserved, IInv, TypeOK
    <2> QED BY <2>2, <2>3 DEF has
  <1>2. CASE \/ OpenLockFile(p) \/ PassOver(p) \/ GiveUp(p) \/ Restart(p)
             \/ \E r \in Res : ReadRoutes(p, r) \/ NetworkUp(p, r) \/ NetworkDown(p, r)
    <2>1. index' = index
      BY <1>2 DEF OpenLockFile, PassOver, GiveUp, Restart, ReadRoutes, NetworkUp, NetworkDown
    <2>2. /\ pc[p] # "unlocked" /\ pc'[p] # "unlocked"
          /\ \A q \in Proc : q # p => pc'[q] = pc[q] /\ cur'[q] = cur[q]
      BY <1>2
      DEF IInv, TypeOK, OpenLockFile, PassOver, Scanning, GiveUp, Restart, ReadRoutes,
          NetworkUp, NetworkDown
    <2>3. \A r \in Res : Reserved(r)' <=> Reserved(r)
      BY <2>1, <2>2, OwnerAssumption DEF Reserved
    <2> QED BY <2>1, <2>3 DEF has
  <1> QED BY <1>1, <1>2

\* The processes, their tables and the kernel's locks implement the table of
\* module SubnetTable: initial states and steps map to its own.
THEOREM TableImplemented ==
    ASSUME NoAliases
    PROVE  Spec => ImplementsTable
  <1>1. Init => Table!TableInit
    BY DEF Init, Table!TableInit, has, Reserved
  <1>2. IInv /\ [Next]_vars => [Table!TableNext]_has
    <2>1. CASE UNCHANGED vars
      BY <2>1 DEF vars, has, Reserved
    <2>2. ASSUME IInv, Next
          PROVE  [Table!TableNext]_has
      <3> PICK p \in Proc :
            \/ Step(p)
            \/ \E r \in Res : ReadRoutes(p, r)
            \/ \E r \in Res : UnlockByte(p, r)
            \/ \E r \in Res : NetworkUp(p, r)
            \/ \E r \in Res : NetworkDown(p, r)
            \/ Kill(p)
            \/ Restart(p)
        BY <2>2 DEF Next
      <3>1. CASE Reserve(p)
        <4>1. cur[p] \in Res
          BY <3>1, <2>2 DEF IInv, CurOK, Reserve, Scanning
        <4> QED BY <4>1, <3>1, <2>2, ReserveAcquires DEF Table!TableNext
      <3>2. CASE \E r \in Res : UnlockByte(p, r)
        <4> PICK r \in Res : UnlockByte(p, r)
          BY <3>2
        <4>1. Table!Release({r}) /\ {r} \in SUBSET Res
          BY <2>2, UnlockByteReleases
        <4> QED BY <4>1 DEF Table!TableNext
      <3>3. CASE Kill(p)
        BY <3>3, <2>2, KillReleases
      <3>4. CASE \/ OpenLockFile(p) \/ PassOver(p) \/ GiveUp(p) \/ Forget(p) \/ Restart(p)
                 \/ \E r \in Res : ReadRoutes(p, r) \/ NetworkUp(p, r) \/ NetworkDown(p, r)
        BY <3>4, <2>2, OthersStutter
      <3> QED BY <3>1, <3>2, <3>3, <3>4 DEF Step
    <2> QED BY <2>1, <2>2
  <1> QED BY <1>1, <1>2, AlwaysIInv, PTL DEF Spec, ImplementsTable, Table!TableSpec
=============================================================================
