---------------------------- MODULE LoginLockout ----------------------------
(***************************************************************************)
(* Password sign-in behind the brute-force lockout: LoginPassword asks     *)
(* loginLockout.locked, spends a bcrypt comparison and then records its    *)
(* outcome.  The clock is read before the tracker's mutex is taken, so a   *)
(* call may work with a time that is already past.                         *)
(***************************************************************************)
EXTENDS Integers, FiniteSets

CONSTANTS
    Attempts,      \* login requests in flight
    Sources,       \* client addresses (lockoutKey)
    Threshold,     \* failures before the first lock
    Base, MaxDelay,\* first and longest lock
    IdleTTL,       \* an entry idle that long may be swept
    MaxTime,       \* bound on the clock
    MaxFailures    \* bound on failures counted for one source

ASSUME LockoutAssumption ==
    /\ Threshold \in Nat \ {0} /\ Base \in Nat \ {0} /\ IdleTTL \in Nat \ {0}
    /\ MaxDelay \in Nat /\ Base <= MaxDelay
    /\ MaxTime \in Nat /\ MaxFailures \in Nat
    /\ IsFiniteSet(Attempts) /\ Attempts # {}

VARIABLES
    clock,
    entries,    \* entries[k]: the lockoutEntry of source k, or Forgotten
    lastSweep,
    step,       \* where each attempt is
    source,     \* the address an attempt comes from
    seen,       \* the time an attempt read before asking for the mutex
    overrun     \* wrong guesses recorded during a lock, since the gate last opened

lockoutVars == <<clock, entries, lastSweep, step, source, seen, overrun>>

Forgotten == [failures |-> 0, lockedUntil |-> 0, lastSeen |-> 0]

LockoutInit ==
    /\ clock = 0 /\ lastSweep = 0
    /\ entries = [k \in Sources |-> Forgotten]
    /\ step = [a \in Attempts |-> "idle"]
    /\ source \in [Attempts -> Sources]
    /\ seen = [a \in Attempts |-> 0]
    /\ overrun = [k \in Sources |-> 0]

-----------------------------------------------------------------------------
LockoutTick ==
    /\ clock < MaxTime
    /\ clock' = clock + 1
    /\ UNCHANGED <<entries, lastSweep, step, source, seen, overrun>>

(* maybeSweepLocked with the caller's time: idle entries whose lock is over go. *)
Swept(now) ==
    IF now - lastSweep < IdleTTL THEN entries
    ELSE [k \in Sources |->
             IF now - entries[k].lastSeen >= IdleTTL /\ now >= entries[k].lockedUntil
             THEN Forgotten ELSE entries[k]]

SweptAt(now) == IF now - lastSweep < IdleTTL THEN lastSweep ELSE now

(* A request arrives and locked() reads the clock. *)
LoginPassword(a) ==
    /\ step[a] = "idle"
    /\ step' = [step EXCEPT ![a] = "gate"]
    /\ seen' = [seen EXCEPT ![a] = clock]
    /\ UNCHANGED <<clock, entries, lastSweep, source, overrun>>

GateOpen(a, e) == TRUE                       \* mutant: the lock is not consulted
GatePasses(a, e) == seen[a] >= e.lockedUntil

(* locked() under the mutex: a locked source is answered 429 before any
   comparison; an entry that exists is marked as seen. *)
Gate(a) ==
    LET swept == Swept(seen[a]) IN
    LET e == swept[source[a]] IN
    /\ step[a] = "gate"
    /\ lastSweep' = SweptAt(seen[a])
    /\ entries' = IF e = Forgotten THEN swept
                  ELSE [swept EXCEPT ![source[a]].lastSeen = seen[a]]
    /\ \/ /\ GatePasses(a, e)
          /\ step' = [step EXCEPT ![a] = "comparing"]
          /\ overrun' = [overrun EXCEPT ![source[a]] = 0]
       \/ /\ ~GatePasses(a, e)
          /\ step' = [step EXCEPT ![a] = "idle"]
          /\ UNCHANGED overrun
    /\ UNCHANGED <<clock, source, seen>>

(* The bcrypt comparison; a failure then reads the clock for recordFailure. *)
Compare(a) ==
    /\ step[a] = "comparing"
    /\ \E outcome \in {"wrong", "right"} : step' = [step EXCEPT ![a] = outcome]
    /\ seen' = [seen EXCEPT ![a] = clock]
    /\ UNCHANGED <<clock, entries, lastSweep, source, overrun>>

(* The delay doubles with every failure past the threshold, up to MaxDelay. *)
Doubled[n \in Nat] ==
    IF n = 0 THEN Base ELSE IF Doubled[n - 1] < MaxDelay THEN 2 * Doubled[n - 1] ELSE Doubled[n - 1]

WrappedDelay(failures) == (Base * 2 ^ (failures - Threshold)) % (MaxDelay + 1) \* mutant: shift overflows
Delay(failures) ==
    IF Doubled[failures - Threshold] > MaxDelay THEN MaxDelay ELSE Doubled[failures - Threshold]

RecordFailure(a) ==
    LET k == source[a]
        swept == Swept(seen[a])
        n == swept[k].failures + 1
    IN
    /\ step[a] = "wrong" /\ entries[k].failures < MaxFailures
    /\ lastSweep' = SweptAt(seen[a])
    /\ entries' = [swept EXCEPT ![k] =
          [failures |-> n, lastSeen |-> seen[a],
           lockedUntil |-> IF n < Threshold THEN @.lockedUntil ELSE seen[a] + Delay(n)]]
    /\ overrun' = [overrun EXCEPT ![k] = IF clock < entries[k].lockedUntil THEN @ + 1 ELSE @]
    /\ step' = [step EXCEPT ![a] = "idle"]
    /\ UNCHANGED <<clock, source, seen>>

RecordSuccess(a) ==
    /\ step[a] = "right"
    /\ entries' = [entries EXCEPT ![source[a]] = Forgotten]
    /\ step' = [step EXCEPT ![a] = "idle"]
    /\ UNCHANGED <<clock, lastSweep, source, seen, overrun>>

LockoutNext ==
    \/ LockoutTick
    \/ \E a \in Attempts :
          \/ LoginPassword(a) \/ Gate(a) \/ Compare(a)
          \/ RecordFailure(a) \/ RecordSuccess(a)

LockoutSpec == LockoutInit /\ [][LockoutNext]_lockoutVars

-----------------------------------------------------------------------------
(* The check and the recording are two critical sections with a slow comparison
   between them, so guesses under way when a lock starts are still made.  From one
   opening of the gate to the next they are fewer than the requests in flight: a
   lock lets through no guess that was not already past the gate. *)
OverrunBounded == \A k \in Sources : overrun[k] < Cardinality(Attempts)

(* recordFailure re-arms the lock from a time read before the mutex.  It may pull
   the end of a running lock forward, but by no more than the time it waited:
   backoff only ever grows. *)
LockShortenedOnlyByWait ==
    [][\A a \in Attempts : RecordFailure(a) =>
          \/ clock >= entries[source[a]].lockedUntil
          \/ entries'[source[a]].lockedUntil + (clock - seen[a]) >= entries[source[a]].lockedUntil
       ]_lockoutVars

(* A source's failures are forgotten only after a right password from it or when
   it was idle for the TTL with no lock running, whichever call does the sweep. *)
ForgottenOnlyWhenIdle ==
    [][\A k \in Sources :
          entries[k] # Forgotten /\ entries'[k].failures < entries[k].failures =>
             \/ \E a \in Attempts : source[a] = k /\ step[a] = "right"
             \/ /\ clock - entries[k].lastSeen >= IdleTTL
                /\ clock >= entries[k].lockedUntil
       ]_lockoutVars

(* What the lockout holds against a source stands: failures that overlap, and sweeps of
   other sources' calls, neither wipe its history nor shorten a lock by more than
   the time a call waited. *)
LockoutStands == LockShortenedOnlyByWait /\ ForgottenOnlyWhenIdle
=============================================================================
