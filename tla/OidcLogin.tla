----------------------------- MODULE OidcLogin ------------------------------
(***************************************************************************)
(* The redirect login: LoginStart signs a login-state cookie and sends the *)
(* browser to the identity provider; Callback checks the cookie, consumes  *)
(* the state in the in-memory single-use store and exchanges the code.     *)
(* Anybody holding the cookie may replay the callback.  Time is counted in *)
(* ticks, TicksPerSecond to a second: the cookie's expiry is compared in   *)
(* whole seconds, the store's to the tick.                                 *)
(***************************************************************************)
EXTENDS Integers, FiniteSets

CONSTANTS
    Callbacks,      \* callback requests, replays among them
    States,         \* login states (256-bit random, never repeated)
    StateTTL,       \* loginStateTTL in ticks, a whole number of seconds
    TicksPerSecond,
    MaxEntries,     \* singleUseMaxEntries
    SweepInterval,
    MaxTicks, MaxRestarts

ASSUME OidcAssumption ==
    /\ TicksPerSecond \in Nat \ {0} /\ MaxEntries \in Nat \ {0} /\ States # {}
    /\ StateTTL \in Nat /\ StateTTL % TicksPerSecond = 0
    /\ SweepInterval \in Nat /\ MaxTicks \in Nat /\ MaxRestarts \in Nat

VARIABLES
    ticks,
    expires,   \* expires[s]: second after which the cookie of s is refused, or -1
    used,      \* the single-use store: used[s] the tick its entry dies, DOMAIN the map
    usedSweep, \* lastSweep of the store
    cb,        \* cb[c]: [at, state, now], where a callback is and the time it read
    honoured,  \* callbacks let through by Consume since the process started: [state, at, nth]
    restarts

oidcVars == <<ticks, expires, used, usedSweep, cb, honoured, restarts>>

Seconds(t) == t \div TicksPerSecond
NoCallback == [at |-> "idle", state |-> CHOOSE s \in States : TRUE, now |-> 0]
Without(f, S) == [s \in DOMAIN f \ S |-> f[s]]

OidcInit ==
    /\ ticks = 0 /\ usedSweep = 0 /\ restarts = 0
    /\ expires = [s \in States |-> -1]
    /\ used = [s \in {} |-> 0]
    /\ cb = [c \in Callbacks |-> NoCallback]
    /\ honoured = {}

-----------------------------------------------------------------------------
OidcTick ==
    /\ ticks < MaxTicks
    /\ ticks' = ticks + 1
    /\ UNCHANGED <<expires, used, usedSweep, cb, honoured, restarts>>

LoginStart(s) ==
    /\ expires[s] = -1
    /\ expires' = [expires EXCEPT ![s] = Seconds(ticks + StateTTL)]
    /\ UNCHANGED <<ticks, used, usedSweep, cb, honoured, restarts>>

(* readLoginState, then the clock read at the head of Consume. *)
CookieValid(s) == expires[s] # -1 /\ Seconds(ticks) <= expires[s]

Callback(c, s) ==
    /\ cb[c].at = "idle" /\ CookieValid(s)
    /\ cb' = [cb EXCEPT ![c] = [at |-> "consume", state |-> s, now |-> ticks]]
    /\ UNCHANGED <<ticks, expires, used, usedSweep, honoured, restarts>>

-----------------------------------------------------------------------------
(* memSingleUseStore.Consume under its mutex, with the time the caller read. *)
Expired(f, now) == {s \in DOMAIN f : now >= f[s]}

SweptUsed(now) ==
    IF now - usedSweep < SweepInterval THEN used
    ELSE Without(used, Expired(used, now))

Full(f) == Cardinality(DOMAIN f) >= MaxEntries

EvictOldest(f, now) ==                  \* mutant: at the limit a live entry makes room
    IF Cardinality(DOMAIN f) < MaxEntries \/ DOMAIN f = {} THEN f
    ELSE Without(f, {CHOOSE s \in DOMAIN f : \A t \in DOMAIN f : f[s] <= f[t]})
MakeRoom(f, now) ==
    IF Full(f) THEN Without(f, Expired(f, now)) ELSE f

(* Live entry: a replay, refused.  Map still full after eviction: refused too. *)
Consume(c) ==
    LET s == cb[c].state
        now == cb[c].now
        f == SweptUsed(now)
        g == MakeRoom(f, now)
        replay == s \in DOMAIN f /\ now < f[s]
    IN
    /\ cb[c].at = "consume"
    /\ usedSweep' = IF now - usedSweep < SweepInterval THEN usedSweep ELSE now
    /\ \/ /\ replay \/ Full(g)
          /\ used' = IF replay THEN f ELSE g
          /\ cb' = [cb EXCEPT ![c] = NoCallback]
          /\ UNCHANGED honoured
       \/ /\ ~replay /\ ~Full(g)
          /\ used' = [t \in DOMAIN g \cup {s} |-> IF t = s THEN now + StateTTL ELSE g[t]]
          /\ cb' = [cb EXCEPT ![c].at = "exchange"]
          /\ honoured' = honoured \cup {[state |-> s, at |-> ticks, nth |-> Cardinality(honoured)]}
    /\ UNCHANGED <<ticks, expires, restarts>>

(* The code is exchanged and the login completed or rejected (module Accounts). *)
Exchange(c) ==
    /\ cb[c].at = "exchange"
    /\ cb' = [cb EXCEPT ![c] = NoCallback]
    /\ UNCHANGED <<ticks, expires, used, usedSweep, honoured, restarts>>

(* The process restarts: the store is empty, cookies stay valid (deriveSignKey
   derives the same key). *)
OidcRestart ==
    /\ restarts < MaxRestarts
    /\ restarts' = restarts + 1
    /\ used' = [s \in {} |-> 0]
    /\ usedSweep' = ticks
    /\ cb' = [c \in Callbacks |-> NoCallback]
    /\ honoured' = {}
    /\ UNCHANGED <<ticks, expires>>

OidcNext ==
    \/ OidcTick \/ OidcRestart
    \/ \E s \in States : LoginStart(s)
    \/ \E c \in Callbacks :
          \/ \E s \in States : Callback(c, s)
          \/ Consume(c) \/ Exchange(c)

OidcSpec == OidcInit /\ [][OidcNext]_oidcVars

-----------------------------------------------------------------------------
(* Within one process a login state is let through once; the one exception is the
   cookie's last second, which the whole-second comparison still accepts although
   the store's entry of an immediate callback has already died. *)
HonouredOnce ==
    \A g, h \in honoured : g.state = h.state /\ g # h =>
        \E last \in {g, h} : Seconds(last.at) >= expires[last.state]

(* The store never exceeds its limit, also when every entry is live. *)
WithinLimit == Cardinality(DOMAIN used) <= MaxEntries

(* The single-use store keeps its promise at its limit too: full of live entries it
   turns first uses away, and neither grows nor drops one to make room. *)
SingleUseHolds == HonouredOnce /\ WithinLimit
=============================================================================
