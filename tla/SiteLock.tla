------------------------------ MODULE SiteLock ------------------------------
(***************************************************************************)
(* withWriteLock / withReadLock for one site: Go's RWMutex inside each     *)
(* process, the flock on .git/kotoji.lock between processes that share the *)
(* data volume, process crashes, and the consistency check of package ops, *)
(* which unlinks the lock file (at every start of the scheduler, and when  *)
(* an operator runs kotoji-ops).                                           *)
(***************************************************************************)
EXTENDS Naturals, FiniteSets

CONSTANTS
    Procs,       \* processes sharing /data
    Threads,     \* goroutines serving requests for the site
    ProcOf,      \* the process a goroutine runs in
    Writers,     \* the goroutines that call withWriteLock; the others read
    None,
    MaxInodes,   \* bound on lock files ever created
    MaxCrashes

ASSUME ThreadAssumption ==
    /\ ProcOf \in [Threads -> Procs]
    /\ Writers \subseteq Threads
    /\ None \notin Threads
ASSUME BoundAssumption ==
    MaxInodes \in Nat \ {0} /\ MaxCrashes \in Nat

VARIABLES
    pc,        \* where each goroutine is in withWriteLock or withReadLock
    wmutex,    \* wmutex[p]: writer that holds or awaits p's RWMutex
    readers,   \* readers[p]: goroutines holding p's read lock
    lockFile,  \* inode .git/kotoji.lock names; 0: no such file
    inodes,    \* inodes 1..inodes were created
    fd,        \* fd[t]: the inode t opened
    flock,     \* flock[i]: goroutine holding the advisory lock of inode i
    crashes

mutexVars == <<wmutex, readers>>
fileVars  == <<lockFile, inodes, fd, flock>>
vars == <<pc, mutexVars, fileVars, crashes>>

PCs == {"idle", "wantWrite", "draining", "locked", "opened", "in", "released",
        "wantRead", "reading"}

Init ==
    /\ pc = [t \in Threads |-> "idle"]
    /\ wmutex = [p \in Procs |-> None]
    /\ readers = [p \in Procs |-> {}]
    /\ lockFile = 0 /\ inodes = 0
    /\ fd = [t \in Threads |-> 0]
    /\ flock = [i \in 1..MaxInodes |-> None]
    /\ crashes = 0

Goto(t, l) == pc' = [pc EXCEPT ![t] = l]

-----------------------------------------------------------------------------
(* withWriteLock *)

RequestWrite(t) ==
    /\ pc[t] = "idle" /\ t \in Writers
    /\ Goto(t, "wantWrite")
    /\ UNCHANGED <<mutexVars, fileVars, crashes>>

(* m.Lock(): one writer at a time announces itself, which stops new readers,
   and then waits for the readers it found. *)
Announce(t) ==
    /\ pc[t] = "wantWrite" /\ wmutex[ProcOf[t]] = None
    /\ wmutex' = [wmutex EXCEPT ![ProcOf[t]] = t]
    /\ Goto(t, "draining")
    /\ UNCHANGED <<readers, fileVars, crashes>>

ReadersGone(t) == readers[ProcOf[t]] = {}

Drained(t) ==
    /\ pc[t] = "draining" /\ ReadersGone(t)
    /\ Goto(t, "locked")
    /\ UNCHANGED <<mutexVars, fileVars, crashes>>

(* acquireFileLock: open, creating the file when there is none. *)
OpenLockFile(t) ==
    /\ pc[t] = "locked"
    /\ \/ /\ lockFile = 0 /\ inodes < MaxInodes
          /\ inodes' = inodes + 1 /\ lockFile' = inodes + 1
       \/ /\ lockFile # 0
          /\ UNCHANGED <<inodes, lockFile>>
    /\ fd' = [fd EXCEPT ![t] = lockFile']
    /\ Goto(t, "opened")
    /\ UNCHANGED <<mutexVars, flock, crashes>>

(* flock(LOCK_EX) blocks until the inode's lock is free. *)
SharedFlock(i) == TRUE                     \* mutant: LOCK_SH
FlockFree(i) == flock[i] = None

Flock(t) ==
    /\ pc[t] = "opened" /\ FlockFree(fd[t])
    /\ flock' = [flock EXCEPT ![fd[t]] = t]
    /\ Goto(t, "in")
    /\ UNCHANGED <<mutexVars, lockFile, inodes, fd, crashes>>

(* The open or the flock fails (no descriptors, disk full, a signal): the call
   returns an error, and only the mutex is left to release. *)
LockFails(t) ==
    /\ pc[t] \in {"locked", "opened"}
    /\ fd' = [fd EXCEPT ![t] = 0]
    /\ Goto(t, "released")
    /\ UNCHANGED <<mutexVars, lockFile, inodes, flock, crashes>>

(* The section ends and release() drops the flock: deferred last, run first. *)
KeptFlock(t) == flock                      \* mutant: release forgotten
DroppedFlock(t) == [flock EXCEPT ![fd[t]] = None]

Release(t) ==
    /\ pc[t] = "in"
    /\ flock' = DroppedFlock(t)
    /\ fd' = [fd EXCEPT ![t] = 0]
    /\ Goto(t, "released")
    /\ UNCHANGED <<mutexVars, lockFile, inodes, crashes>>

(* m.Unlock() lets in every reader that queued up behind the writer. *)
Woken(t) == {r \in Threads : ProcOf[r] = ProcOf[t] /\ pc[r] = "wantRead"}

Unlock(t) ==
    /\ pc[t] = "released"
    /\ wmutex' = [wmutex EXCEPT ![ProcOf[t]] = None]
    /\ readers' = [readers EXCEPT ![ProcOf[t]] = readers[ProcOf[t]] \cup Woken(t)]
    /\ pc' = [r \in Threads |-> IF r = t THEN "idle"
                               ELSE IF r \in Woken(t) THEN "reading" ELSE pc[r]]
    /\ UNCHANGED <<fileVars, crashes>>

-----------------------------------------------------------------------------
(* withReadLock: no flock, "readers in the same process are already gated". *)

ReadsUnlocked(t) == TRUE                    \* mutant: reads take no lock
ReadAdmitted(t) == wmutex[ProcOf[t]] = None

RLock(t) ==
    /\ pc[t] = "idle" /\ t \notin Writers
    /\ \/ /\ ReadAdmitted(t)
          /\ readers' = [readers EXCEPT ![ProcOf[t]] = readers[ProcOf[t]] \cup {t}]
          /\ Goto(t, "reading")
       \/ /\ ~ReadAdmitted(t)
          /\ Goto(t, "wantRead")
          /\ UNCHANGED readers
    /\ UNCHANGED <<wmutex, fileVars, crashes>>

RUnlock(t) ==
    /\ pc[t] = "reading"
    /\ readers' = [readers EXCEPT ![ProcOf[t]] = readers[ProcOf[t]] \ {t}]
    /\ Goto(t, "idle")
    /\ UNCHANGED <<wmutex, fileVars, crashes>>

-----------------------------------------------------------------------------
(* A process dies (and is started again): its memory is gone and the kernel
   closes its descriptors, which drops its flocks; the lock file stays. *)
Crash(p) ==
    /\ crashes < MaxCrashes
    /\ crashes' = crashes + 1
    /\ pc' = [t \in Threads |-> IF ProcOf[t] = p THEN "idle" ELSE pc[t]]
    /\ fd' = [t \in Threads |-> IF ProcOf[t] = p THEN 0 ELSE fd[t]]
    /\ flock' = [i \in 1..MaxInodes |->
                   IF flock[i] # None /\ ProcOf[flock[i]] = p THEN None ELSE flock[i]]
    /\ wmutex' = [wmutex EXCEPT ![p] = None]
    /\ readers' = [readers EXCEPT ![p] = {}]
    /\ UNCHANGED <<lockFile, inodes>>

(* Ops.Consistency: "Clear a leftover kotoji.lock", without taking it. *)
Consistency ==
    /\ lockFile # 0
    /\ lockFile' = 0
    /\ UNCHANGED <<pc, mutexVars, inodes, fd, flock, crashes>>

-----------------------------------------------------------------------------
Step(t) == Drained(t) \/ OpenLockFile(t) \/ Release(t) \/ Unlock(t) \/ RUnlock(t)

LockNext ==
    \/ \E t \in Threads :
          \/ RequestWrite(t) \/ Announce(t) \/ Flock(t) \/ RLock(t)
          \/ LockFails(t) \/ Step(t)
    \/ \E p \in Procs : Crash(p)

Next == LockNext \/ Consistency

Spec == Init /\ [][Next]_vars

(* Nobody runs the consistency check beside the writers. *)
UncheckedSpec == Init /\ [][LockNext]_vars

(* A goroutine runs on once it can, and a section ends (every git command has a
   deadline).  Go's mutex hands over to a waiter that starves, and the kernel
   queues flock waiters, so neither is passed over for ever. *)
FairSpec ==
    /\ UncheckedSpec
    /\ \A t \in Threads : WF_vars(Step(t)) /\ SF_vars(Announce(t)) /\ SF_vars(Flock(t))

-----------------------------------------------------------------------------
(* Every variable keeps its shape (the RWMutex, the lock file and the place of
   each goroutine in withWriteLock or withReadLock). *)
TypeOK ==
    /\ pc \in [Threads -> PCs]
    /\ wmutex \in [Procs -> Threads \cup {None}]
    /\ readers \in [Procs -> SUBSET Threads]
    /\ inodes \in 0..MaxInodes /\ lockFile \in 0..inodes
    /\ fd \in [Threads -> 0..inodes]
    /\ flock \in [1..MaxInodes -> Threads \cup {None}]
    /\ crashes \in Nat

Inside == {t \in Threads : pc[t] = "in"}

(* Within a process no two sections overlap and no read overlaps a section,
   whatever other processes, crashes and the consistency check do to the lock
   file: "mutations take the full Lock, held across the whole sequence". *)
InProcessExclusion ==
    \A t \in Inside :
        /\ \A u \in Inside : ProcOf[u] = ProcOf[t] => u = t
        /\ readers[ProcOf[t]] = {}

(* "The flock makes a second process / a stray CLI safe too": of all writers in
   all processes at most one is in the section. *)
CrossProcessExclusion == \A t, u \in Inside : t = u

(* A writer that asks for the site gets it, unless its process dies or the lock
   file cannot be locked. *)
WriterGetsIn ==
    \A t \in Writers : pc[t] = "wantWrite" ~> pc[t] \in {"in", "idle"}

(* A reader that queues behind a writer is let in, unless its process dies. *)
ReaderGetsIn ==
    \A t \in Threads \ Writers : pc[t] = "wantRead" ~> pc[t] \in {"reading", "idle"}

(* Mutex, announced writers and flock together shut nobody out: whoever asks for the
   site gets in, over all processes, although holders and waiters may die. *)
NobodyStarves == WriterGetsIn /\ ReaderGetsIn

(* The lock implements SectionLock as long as nobody unlinks the lock file. *)
Abstract == INSTANCE SectionLock WITH
    writing <- Inside, reading <- {t \in Threads : pc[t] = "reading"}
ImplementsSectionLock == Abstract!Spec

(***************************************************************************)
(* The inductive strengthening: who holds the mutex, who is counted as a   *)
(* reader, and, while the file is never unlinked, that every descriptor is *)
(* the one inode the name stands for.                                      *)
(***************************************************************************)
HoldsMutex == {"draining", "locked", "opened", "in", "released"}

MutexOK ==
    /\ \A t \in Threads : pc[t] \in HoldsMutex => wmutex[ProcOf[t]] = t
    /\ \A t \in Threads : pc[t] \in {"locked", "opened", "in", "released"}
                             => readers[ProcOf[t]] = {}
    /\ \A t \in Threads : pc[t] = "reading" <=> t \in readers[ProcOf[t]]
    /\ \A p \in Procs : \A t \in readers[p] : ProcOf[t] = p

FileOK ==
    /\ \A t \in Threads : pc[t] \in {"opened", "in"} => fd[t] # 0
    /\ \A t \in Inside : flock[fd[t]] = t

OneInode ==
    /\ inodes \in {0, 1} /\ lockFile = inodes

IndInv == TypeOK /\ MutexOK /\ FileOK
=============================================================================
