---------------------------- MODULE SectionLock ----------------------------
(***************************************************************************)
(* What the site lock promises the rest of the service: critical sections  *)
(* on one site never overlap, in whatever process they run, and reads of a *)
(* process never overlap a section of the same process.  SiteRepo takes    *)
(* this for granted (`cur' holds one section); SiteLock implements it.     *)
(***************************************************************************)
CONSTANTS Threads, Procs, ProcOf

VARIABLES writing,  \* threads inside a withWriteLock section
          reading   \* threads inside a withReadLock section

vars == <<writing, reading>>

Of(S, p) == {t \in S : ProcOf[t] = p}

Init == writing = {} /\ reading = {}

EnterWrite(t) ==
    /\ writing = {} /\ Of(reading, ProcOf[t]) = {}
    /\ writing' = {t} /\ UNCHANGED reading

ExitWrite(t) ==
    /\ t \in writing
    /\ writing' = writing \ {t} /\ UNCHANGED reading

(* Reads are let in one by one, or together when a writer of the process leaves. *)
EnterRead(p) ==
    /\ Of(writing, p) = {}
    /\ reading \subseteq reading' /\ reading' \subseteq Threads
    /\ \A t \in reading' \ reading : ProcOf[t] = p
    /\ UNCHANGED writing

ExitRead(t) ==
    /\ t \in reading
    /\ reading' = reading \ {t} /\ UNCHANGED writing

(* A dead process is in no section. *)
Crash(p) ==
    /\ writing' = {t \in writing : ProcOf[t] # p}
    /\ reading' = {t \in reading : ProcOf[t] # p}

Next ==
    \/ \E t \in Threads : EnterWrite(t) \/ ExitWrite(t) \/ ExitRead(t)
    \/ \E p \in Procs : EnterRead(p) \/ Crash(p)

Spec == Init /\ [][Next]_vars
=============================================================================
