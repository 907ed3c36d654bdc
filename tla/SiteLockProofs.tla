--------------------------- MODULE SiteLockProofs ---------------------------
(***************************************************************************)
(* The site lock's exclusion, for any number of processes and goroutines:  *)
(* inside a process always, between processes as long as the consistency   *)
(* check does not unlink the lock file; and that it then implements        *)
(* SectionLock, the contract SiteRepo builds on.                           *)
(***************************************************************************)
EXTENDS SiteLock, TLAPS

(* Abbreviations the proofs always read expanded. *)
USE DEF Goto, ReadersGone, FlockFree, DroppedFlock, Woken, ReadAdmitted

-----------------------------------------------------------------------------
(* An unused lock satisfies IndInv. *)
LEMMA InitInv == ASSUME Init PROVE IndInv
<1>1. TypeOK
    BY BoundAssumption DEF Init, TypeOK, PCs
<1>2. MutexOK
    BY ThreadAssumption DEF Init, MutexOK, HoldsMutex
<1>3. FileOK
    BY DEF Init, FileOK, Inside
<1> QED BY <1>1, <1>2, <1>3 DEF IndInv

(* One lemma per conjunct of the inductive invariant, each with one step per
   action. *)
LEMMA TypeStep == ASSUME IndInv, [Next]_vars PROVE TypeOK'
<1> USE ThreadAssumption, BoundAssumption DEF IndInv, TypeOK, PCs
<1>1. CASE UNCHANGED vars
    BY <1>1 DEF vars, mutexVars, fileVars
<1>2. ASSUME NEW t \in Threads, RequestWrite(t) PROVE TypeOK'
    BY <1>2 DEF RequestWrite, mutexVars, fileVars
<1>3. ASSUME NEW t \in Threads, Announce(t) PROVE TypeOK'
    BY <1>3 DEF Announce, mutexVars, fileVars
<1>4. ASSUME NEW t \in Threads, Drained(t) PROVE TypeOK'
    BY <1>4 DEF Drained, mutexVars, fileVars
<1>5. ASSUME NEW t \in Threads, OpenLockFile(t) PROVE TypeOK'
  <2>1. inodes' \in 0..MaxInodes /\ lockFile' \in 0..inodes' /\ inodes <= inodes'
    BY <1>5 DEF OpenLockFile
  <2>2. fd' \in [Threads -> 0..inodes']
    BY <1>5, <2>1 DEF OpenLockFile
  <2> QED BY <1>5, <2>1, <2>2 DEF OpenLockFile, mutexVars
<1>6. ASSUME NEW t \in Threads, Flock(t) PROVE TypeOK'
  <2>1. flock' \in [1..MaxInodes -> Threads \cup {None}]
    <3>1. flock' = [flock EXCEPT ![fd[t]] = t] /\ t \in Threads \cup {None}
        BY <1>6 DEF Flock
    <3>2. flock \in [1..MaxInodes -> Threads \cup {None}]
        OBVIOUS
    <3> QED BY <3>1, <3>2, Zenon
  <2>2. pc' \in [Threads -> PCs]
    BY <1>6 DEF Flock
  <2> QED BY <1>6, <2>1, <2>2 DEF Flock, mutexVars
<1>7. ASSUME NEW t \in Threads, Release(t) PROVE TypeOK'
  <2>1. flock' \in [1..MaxInodes -> Threads \cup {None}]
    <3>1. flock' = [flock EXCEPT ![fd[t]] = None] /\ None \in Threads \cup {None}
        BY <1>7 DEF Release
    <3>2. flock \in [1..MaxInodes -> Threads \cup {None}]
        OBVIOUS
    <3> QED BY <3>1, <3>2, Zenon
  <2>2. pc' \in [Threads -> PCs] /\ fd' \in [Threads -> 0..inodes]
    BY <1>7 DEF Release
  <2> QED BY <1>7, <2>1, <2>2 DEF Release, mutexVars
<1>8. ASSUME NEW t \in Threads, Unlock(t) PROVE TypeOK'
  <2>1. readers' \in [Procs -> SUBSET Threads]
    BY <1>8 DEF Unlock
  <2>2. pc' \in [Threads -> PCs]
    <3>1. \A r \in Threads : pc[r] \in PCs
        OBVIOUS
    <3> HIDE DEF Woken
    <3>2. pc' = [r \in Threads |-> IF r = t THEN "idle"
                                 ELSE IF r \in Woken(t) THEN "reading" ELSE pc[r]]
        BY <1>8 DEF Unlock
    <3> QED BY <3>1, <3>2
  <2>3. wmutex' \in [Procs -> Threads \cup {None}]
    BY <1>8 DEF Unlock
  <2> QED BY <1>8, <2>1, <2>2, <2>3 DEF Unlock, fileVars
<1>9. ASSUME NEW t \in Threads, RLock(t) PROVE TypeOK'
  <2>1. pc' \in [Threads -> PCs]
    BY <1>9 DEF RLock
  <2>2. readers' \in [Procs -> SUBSET Threads]
    BY <1>9 DEF RLock
  <2> QED BY <1>9, <2>1, <2>2 DEF RLock, fileVars
<1>10. ASSUME NEW t \in Threads, RUnlock(t) PROVE TypeOK'
    BY <1>10 DEF RUnlock, fileVars
<1>11. ASSUME NEW p \in Procs, Crash(p) PROVE TypeOK'
    BY <1>11 DEF Crash
<1>12. CASE Consistency
    BY <1>12 DEF Consistency, mutexVars
<1>13. ASSUME NEW t \in Threads, LockFails(t) PROVE TypeOK'
    BY <1>13 DEF LockFails, mutexVars
<1> QED
    BY <1>1, <1>2, <1>3, <1>4, <1>5, <1>6, <1>7, <1>8, <1>9, <1>10, <1>11, <1>12,
       <1>13
    DEF Next, LockNext, Step

(* Every step keeps what is said of the mutex. *)
LEMMA MutexStep == ASSUME IndInv, [Next]_vars PROVE MutexOK'
<1> USE ThreadAssumption DEF IndInv, TypeOK, MutexOK, HoldsMutex
<1>1. CASE UNCHANGED vars
    BY <1>1 DEF vars, mutexVars
<1>2. ASSUME NEW t \in Threads, RequestWrite(t) PROVE MutexOK'
    BY <1>2 DEF RequestWrite, mutexVars
<1>3. ASSUME NEW t \in Threads, Announce(t) PROVE MutexOK'
    BY <1>3 DEF Announce
<1>4. ASSUME NEW t \in Threads, Drained(t) PROVE MutexOK'
    BY <1>4 DEF Drained, mutexVars
<1>5. ASSUME NEW t \in Threads, OpenLockFile(t) PROVE MutexOK'
    BY <1>5 DEF OpenLockFile, mutexVars
<1>6. ASSUME NEW t \in Threads, Flock(t) PROVE MutexOK'
    BY <1>6 DEF Flock, mutexVars
<1>7. ASSUME NEW t \in Threads, Release(t) PROVE MutexOK'
    BY <1>7 DEF Release, mutexVars
<1>8. ASSUME NEW t \in Threads, Unlock(t) PROVE MutexOK'
  <2> DEFINE p == ProcOf[t]
  <2>1. /\ wmutex' = [wmutex EXCEPT ![p] = None]
        /\ readers' = [readers EXCEPT ![p] = readers[p] \cup Woken(t)]
        /\ \A r \in Threads : pc'[r] = IF r = t THEN "idle"
                                      ELSE IF r \in Woken(t) THEN "reading" ELSE pc[r]
        /\ pc[t] = "released" /\ p \in Procs /\ readers[p] = {} /\ wmutex[p] = t
    BY <1>8 DEF Unlock
  <2>2. \A r \in Threads : pc[r] \in HoldsMutex /\ ProcOf[r] = p => r = t
    BY <2>1
  <2>3. \A r \in Threads : pc'[r] \in HoldsMutex => ProcOf[r] # p /\ pc'[r] = pc[r]
    BY <2>1, <2>2
  <2>4. \A r \in Threads : ProcOf[r] # p =>
           wmutex'[ProcOf[r]] = wmutex[ProcOf[r]] /\ readers'[ProcOf[r]] = readers[ProcOf[r]]
           /\ pc'[r] = pc[r]
    BY <2>1
  <2>5. \A r \in Threads : ProcOf[r] = p => (pc'[r] = "reading" <=> r \in readers'[p])
    BY <2>1
  <2>6. \A q \in Procs : \A r \in readers'[q] : ProcOf[r] = q
    BY <2>1
  <2> QED BY <2>3, <2>4, <2>5, <2>6
<1>9. ASSUME NEW t \in Threads, RLock(t) PROVE MutexOK'
  <2>1. CASE ReadAdmitted(t)
    <3>1. /\ wmutex' = wmutex /\ pc' = [pc EXCEPT ![t] = "reading"]
          /\ readers' = [readers EXCEPT ![ProcOf[t]] = readers[ProcOf[t]] \cup {t}]
          /\ wmutex[ProcOf[t]] = None
        BY <1>9, <2>1 DEF RLock
    <3>2. \A r \in Threads : ProcOf[r] = ProcOf[t] => pc[r] \notin HoldsMutex
        BY <3>1
    <3> QED BY <3>1, <3>2
  <2>2. CASE ~ReadAdmitted(t)
    BY <1>9, <2>2 DEF RLock
  <2> QED BY <2>1, <2>2
<1>10. ASSUME NEW t \in Threads, RUnlock(t) PROVE MutexOK'
    BY <1>10 DEF RUnlock
<1>11. ASSUME NEW p \in Procs, Crash(p) PROVE MutexOK'
    BY <1>11 DEF Crash
<1>12. CASE Consistency
    BY <1>12 DEF Consistency, mutexVars
<1>13. ASSUME NEW t \in Threads, LockFails(t) PROVE MutexOK'
    BY <1>13 DEF LockFails, mutexVars
<1> QED
    BY <1>1, <1>2, <1>3, <1>4, <1>5, <1>6, <1>7, <1>8, <1>9, <1>10, <1>11, <1>12,
       <1>13
    DEF Next, LockNext, Step

(* Every step keeps what is said of the lock file. *)
LEMMA FileStep == ASSUME IndInv, [Next]_vars PROVE FileOK'
<1> USE ThreadAssumption, BoundAssumption DEF IndInv, TypeOK, FileOK, Inside
<1>1. CASE UNCHANGED vars
    BY <1>1 DEF vars, fileVars
<1>2. ASSUME NEW t \in Threads, RequestWrite(t) PROVE FileOK'
    BY <1>2 DEF RequestWrite, fileVars
<1>3. ASSUME NEW t \in Threads, Announce(t) PROVE FileOK'
    BY <1>3 DEF Announce, fileVars
<1>4. ASSUME NEW t \in Threads, Drained(t) PROVE FileOK'
    BY <1>4 DEF Drained, fileVars
<1>5. ASSUME NEW t \in Threads, OpenLockFile(t) PROVE FileOK'
    BY <1>5 DEF OpenLockFile
<1>6. ASSUME NEW t \in Threads, Flock(t) PROVE FileOK'
    BY <1>6 DEF Flock
<1>7. ASSUME NEW t \in Threads, Release(t) PROVE FileOK'
    BY <1>7 DEF Release
<1>8. ASSUME NEW t \in Threads, Unlock(t) PROVE FileOK'
    BY <1>8 DEF Unlock, fileVars
<1>9. ASSUME NEW t \in Threads, RLock(t) PROVE FileOK'
    BY <1>9 DEF RLock, fileVars
<1>10. ASSUME NEW t \in Threads, RUnlock(t) PROVE FileOK'
    BY <1>10 DEF RUnlock, fileVars
<1>11. ASSUME NEW p \in Procs, Crash(p) PROVE FileOK'
    BY <1>11 DEF Crash
<1>12. CASE Consistency
    BY <1>12 DEF Consistency
<1>13. ASSUME NEW t \in Threads, LockFails(t) PROVE FileOK'
    BY <1>13 DEF LockFails
<1> QED
    BY <1>1, <1>2, <1>3, <1>4, <1>5, <1>6, <1>7, <1>8, <1>9, <1>10, <1>11, <1>12,
       <1>13
    DEF Next, LockNext, Step

(* The inductive invariant: the mutex's holder and readers are who they say they
   are, and a goroutine in the section holds the flock of the inode it opened. *)
THEOREM LockInvariant == Spec => []IndInv
<1>1. IndInv /\ [Next]_vars => IndInv'
    BY TypeStep, MutexStep, FileStep DEF IndInv
<1> QED BY <1>1, InitInv, PTL DEF Spec

(* In-process exclusion holds whatever happens to the lock file: two writers of
   a process, or a writer and a reader, would share one RWMutex. *)
THEOREM InProcess == Spec => []InProcessExclusion
<1>1. IndInv => InProcessExclusion
    BY ThreadAssumption DEF IndInv, MutexOK, InProcessExclusion, Inside, HoldsMutex
<1> QED BY <1>1, LockInvariant, PTL

-----------------------------------------------------------------------------
(* While the file is never unlinked there is one inode. *)
LEMMA OneInodeStep ==
    ASSUME IndInv, OneInode, [LockNext]_vars
    PROVE  OneInode'
<1>1. CASE \E t \in Threads : OpenLockFile(t)
    BY <1>1 DEF OpenLockFile, OneInode
<1>2. CASE UNCHANGED <<inodes, lockFile>>
    BY <1>2 DEF OneInode
<1> QED BY <1>1, <1>2 DEF LockNext, Step, vars, fileVars, RequestWrite, Announce, Drained,
       Flock, LockFails, Release, Unlock, RLock, RUnlock, Crash

(* Two goroutines in the section would hold the flock of the same inode. *)
LEMMA Exclusive ==
    ASSUME IndInv, OneInode
    PROVE  CrossProcessExclusion
<1> SUFFICES ASSUME NEW t \in Inside, NEW u \in Inside PROVE t = u
    BY DEF CrossProcessExclusion
<1>1. fd[t] # 0 /\ fd[u] # 0 /\ fd[t] \in 0..inodes /\ fd[u] \in 0..inodes
    BY DEF IndInv, FileOK, TypeOK, Inside
<1>2. fd[t] = fd[u]
    BY <1>1 DEF OneInode
<1> QED BY <1>2 DEF IndInv, FileOK

(* If nothing unlinks the lock file, there is one inode for ever. *)
LEMMA OneInodeHolds == UncheckedSpec => [](IndInv /\ OneInode)
<1>1. Init => OneInode
    BY DEF Init, OneInode
<1>2. IndInv /\ OneInode /\ [LockNext]_vars => OneInode'
    BY OneInodeStep
<1>3. [LockNext]_vars => [Next]_vars
    BY DEF Next
<1> QED BY <1>1, <1>2, <1>3, LockInvariant, PTL DEF Spec, UncheckedSpec

(* Between processes the flock excludes, provided that the consistency check
   never runs beside a writer. *)
THEOREM CrossProcess == UncheckedSpec => []CrossProcessExclusion
<1>1. IndInv /\ OneInode => CrossProcessExclusion
    BY Exclusive
<1> QED BY <1>1, OneInodeHolds, PTL

-----------------------------------------------------------------------------
Reading == {t \in Threads : pc[t] = "reading"}

(* Nobody is in a section, and no read of the process is running, when the flock
   of the one inode is free for a writer that holds the mutex. *)
LEMMA FlockAlone ==
    ASSUME IndInv, OneInode, NEW t \in Threads, Flock(t)
    PROVE  /\ Inside = {} /\ \A r \in Reading : ProcOf[r] # ProcOf[t]
           /\ Inside' = {t} /\ Reading' = Reading
<1>1. pc[t] = "opened" /\ flock[fd[t]] = None /\ pc' = [pc EXCEPT ![t] = "in"]
      /\ pc \in [Threads -> PCs]
    BY DEF Flock, IndInv, TypeOK
<1>2. Inside = {}
  <2> SUFFICES ASSUME NEW u \in Inside PROVE FALSE
    OBVIOUS
  <2>1. fd[t] # 0 /\ fd[u] # 0 /\ fd[t] \in 0..inodes /\ fd[u] \in 0..inodes
    BY <1>1 DEF IndInv, FileOK, TypeOK, Inside
  <2>2. fd[t] = fd[u]
    BY <2>1 DEF OneInode
  <2> QED BY <1>1, <2>2, ThreadAssumption DEF IndInv, FileOK, Inside
<1>3. \A r \in Reading : ProcOf[r] # ProcOf[t]
    BY <1>1 DEF IndInv, MutexOK, Reading
<1> QED BY <1>1, <1>2, <1>3 DEF Inside, Reading

(* Nobody of a process is in a section when a read is let in. *)
LEMMA ReadAlone ==
    ASSUME IndInv, NEW t \in Threads, Unlock(t) \/ (RLock(t) /\ ReadAdmitted(t))
    PROVE  \A u \in Inside : ProcOf[u] # ProcOf[t]
<1>1. CASE Unlock(t)
  <2>1. pc[t] = "released" /\ wmutex[ProcOf[t]] = t
    BY <1>1 DEF Unlock, IndInv, MutexOK, HoldsMutex
  <2> QED BY <2>1 DEF IndInv, MutexOK, HoldsMutex, Inside
<1>2. CASE RLock(t) /\ ReadAdmitted(t)
    BY <1>2, ThreadAssumption DEF IndInv, MutexOK, HoldsMutex, Inside
<1> QED BY <1>1, <1>2

(* Every step of the lock is a step of SectionLock or leaves its state alone. *)
LEMMA RefinesStep ==
    ASSUME IndInv, OneInode, [LockNext]_vars
    PROVE  [Abstract!Next]_(Abstract!vars)
<1>0. pc \in [Threads -> PCs] /\ \A t \in Threads : ProcOf[t] \in Procs
    BY ThreadAssumption DEF IndInv, TypeOK
<1> DEFINE R == {t \in Threads : pc[t] = "reading"}
<1>1. ASSUME Inside' = Inside, R' = R PROVE [Abstract!Next]_(Abstract!vars)
    BY <1>1 DEF Abstract!vars
<1>2. ASSUME NEW t \in Threads,
             RequestWrite(t) \/ Announce(t) \/ Drained(t) \/ OpenLockFile(t)
             \/ LockFails(t) \/ (RLock(t) /\ ~ReadAdmitted(t))
      PROVE  Inside' = Inside /\ R' = R
    BY <1>0, <1>2 DEF RequestWrite, Announce, Drained, OpenLockFile, LockFails, RLock, Inside
<1>3. ASSUME NEW t \in Threads, Flock(t) PROVE Abstract!EnterWrite(t)
  <2>1. /\ Inside = {} /\ \A r \in R : ProcOf[r] # ProcOf[t]
        /\ Inside' = {t} /\ R' = R
    BY <1>3, FlockAlone DEF Reading
  <2> QED BY <2>1 DEF Abstract!EnterWrite, Abstract!Of
<1>4. ASSUME NEW t \in Threads, Release(t) PROVE Abstract!ExitWrite(t)
  <2>1. t \in Inside /\ Inside' = Inside \ {t} /\ R' = R
    BY <1>0, <1>4 DEF Release, Inside
  <2> QED BY <2>1 DEF Abstract!ExitWrite
<1>5. ASSUME NEW t \in Threads, Unlock(t) PROVE Abstract!EnterRead(ProcOf[t])
  <2>1. Inside' = Inside /\ R' = R \cup Woken(t) /\ \A u \in Inside : ProcOf[u] # ProcOf[t]
    BY <1>0, <1>5, ReadAlone DEF Unlock, Inside
  <2> QED BY <2>1 DEF Abstract!EnterRead, Abstract!Of
<1>6. ASSUME NEW t \in Threads, RLock(t), ReadAdmitted(t)
      PROVE  Abstract!EnterRead(ProcOf[t])
  <2>1. Inside' = Inside /\ R' = R \cup {t}
    BY <1>0, <1>6 DEF RLock, Inside
  <2>2. \A u \in Inside : ProcOf[u] # ProcOf[t]
    BY <1>6, ReadAlone
  <2> QED BY <2>1, <2>2 DEF Abstract!EnterRead, Abstract!Of
<1>7. ASSUME NEW t \in Threads, RUnlock(t) PROVE Abstract!ExitRead(t)
  <2>1. t \in R /\ R' = R \ {t} /\ Inside' = Inside
    BY <1>0, <1>7 DEF RUnlock, Inside
  <2> QED BY <2>1 DEF Abstract!ExitRead
<1>8. ASSUME NEW p \in Procs, Crash(p) PROVE Abstract!Crash(p)
    BY <1>0, <1>8 DEF Crash, Abstract!Crash, Inside
<1>9. ASSUME UNCHANGED pc PROVE Inside' = Inside /\ R' = R
    BY <1>9 DEF Inside
<1>10. CASE UNCHANGED vars
    BY <1>1, <1>9, <1>10 DEF vars
<1>11. ASSUME NEW t \in Threads,
              RequestWrite(t) \/ Announce(t) \/ Flock(t) \/ RLock(t)
              \/ LockFails(t) \/ Step(t)
       PROVE  [Abstract!Next]_(Abstract!vars)
  <2>1. CASE \/ RequestWrite(t) \/ Announce(t) \/ Drained(t) \/ OpenLockFile(t)
             \/ LockFails(t) \/ (RLock(t) /\ ~ReadAdmitted(t))
    BY <1>1, <1>2, <2>1
  <2>2. CASE Flock(t) \/ Release(t) \/ RUnlock(t)
    BY <1>3, <1>4, <1>7, <2>2 DEF Abstract!Next
  <2>3. CASE Unlock(t)
    BY <1>0, <1>5, <2>3 DEF Abstract!Next
  <2>4. CASE RLock(t) /\ ReadAdmitted(t)
    BY <1>0, <1>6, <2>4 DEF Abstract!Next
  <2> QED BY <1>11, <2>1, <2>2, <2>3, <2>4 DEF Step
<1>12. ASSUME NEW p \in Procs, Crash(p) PROVE [Abstract!Next]_(Abstract!vars)
    BY <1>8, <1>12 DEF Abstract!Next
<1> QED BY <1>10, <1>11, <1>12 DEF LockNext

(* As long as the lock file is not unlinked, withWriteLock and withReadLock give
   every process the critical sections SectionLock describes. *)
THEOREM Implements == UncheckedSpec => ImplementsSectionLock
<1>1. Init => Abstract!Init
    BY DEF Init, Abstract!Init, Inside
<1>2. IndInv /\ OneInode /\ [LockNext]_vars => [Abstract!Next]_(Abstract!vars)
    BY RefinesStep
<1> QED BY <1>1, <1>2, OneInodeHolds, PTL DEF UncheckedSpec, ImplementsSectionLock, Abstract!Spec
=============================================================================
