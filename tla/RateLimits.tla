----------------------------- MODULE RateLimits -----------------------------
(***************************************************************************)
(* The token-bucket limiters.  ratelimit.Limiter, in front of the API and  *)
(* of the served sites, keys a bucket by client address, for the API by    *)
(* the session cookie if there is one, and evicts idle buckets; it reads   *)
(* the clock before its mutex, so requests may be counted out of time      *)
(* order.  memoryLimiter (MCP) reserves a token and cancels the            *)
(* reservation when it would have to wait.  One token is worth Period      *)
(* units and a bucket gains one unit per tick.  The buckets are            *)
(* golang.org/x/time/rate.                                                 *)
(***************************************************************************)
EXTENDS Integers, Sequences, FiniteSetsExt

CONSTANTS
    Clients,      \* addresses
    Cookies,      \* values of a session cookie; nobody looks whether there is such a session
    Named,        \* addresses a client may write into a header
    MaxKeys,      \* most keys in use
    Hits,         \* HTTP requests
    ToolCalls,    \* MCP calls of one token and class
    Period, Burst, ToolBurst,
    BucketTTL,    \* Config.TTL
    MaxStall,     \* longest time from reading the clock to using what it said
    MaxHops,      \* most proxies in front
    MaxRateTime, MaxDebt  \* bounds on the clock and on the MCP bucket's debt

Proxy == "proxy"
Absent == "absent"

ASSUME RateAssumption ==
    /\ Absent \notin Clients \cup Cookies
    /\ Period \in Nat \ {0} /\ Burst \in Nat \ {0} /\ ToolBurst \in Nat \ {0}
    /\ IsFiniteSet(ToolCalls) /\ Named \subseteq Clients
    /\ MaxStall \in Nat /\ MaxHops \in Nat /\ MaxRateTime \in Nat /\ MaxDebt \in Nat /\ BucketTTL \in Nat
    /\ BucketTTL >= Burst * Period + MaxStall  \* ten minutes and a bucket of one second's rate

VARIABLES
    rtime,
    buckets,    \* buckets[k] = [tokens, last, lastSeen], DOMAIN the map
    lastSweep, lastNow,   \* the last sweep, the latest time Allow was given
    hit,        \* hit[r]: [at, key, due, now], due the keys it may be counted under
    admitted,   \* admitted[k]: requests let through
    overtaken,  \* overtaken[k]: total time by which requests let through came out of order
    tool,       \* the MCP bucket: [tokens, last, lastEvent]
    call,       \* call[c]: [at, now, act], act the reservation's timeToAct
    toolAdmitted, toolOvertaken  \* the same for the MCP bucket

httpVars == <<buckets, lastSweep, lastNow, hit, admitted, overtaken>>
toolVars == <<tool, call, toolAdmitted, toolOvertaken>>
rateVars == <<rtime, httpVars, toolVars>>

Ip(a) == <<"ip", a>>
Sess(c) == <<"sess", c>>
Keys == {Ip(a) : a \in Clients \cup {Proxy}} \cup {Sess(c) : c \in Cookies}

NoHit == [at |-> "idle", key |-> Ip(Proxy), due |-> Keys, now |-> 0]
NoCall == [at |-> "idle", now |-> 0, act |-> 0]

RateInit ==
    /\ rtime = 0 /\ lastSweep = 0 /\ lastNow = 0
    /\ buckets = [k \in {} |-> 0]
    /\ hit = [r \in Hits |-> NoHit]
    /\ admitted = [k \in Keys |-> 0] /\ overtaken = [k \in Keys |-> 0]
    /\ tool = [tokens |-> ToolBurst * Period, last |-> 0, lastEvent |-> 0]
    /\ call = [c \in ToolCalls |-> NoCall]
    /\ toolAdmitted = 0 /\ toolOvertaken = 0

Pending == {hit[r].now : r \in {q \in Hits : hit[q].at # "idle"}}
             \cup {call[c].now : c \in {d \in ToolCalls : call[d].at # "idle"}}

RateTick ==
    /\ rtime < MaxRateTime
    /\ \A t \in Pending : rtime - t < MaxStall
    /\ rtime' = rtime + 1
    /\ UNCHANGED <<httpVars, toolVars>>

-----------------------------------------------------------------------------
(* x/time/rate: a time before `last' counts as no time having passed. *)
Refill(b, depth, now) == Min({depth, b.tokens + Max({0, now - b.last})})

(* The address a request is counted under: with trusted headers the last entry of
   X-Forwarded-For, or X-Real-IP where there is none. *)
NthFromRight(xff, n) == xff[Len(xff) + 1 - n]
TrustedProxyHops == 1

ClientIP(xff, real, remote, trust) ==
    CASE trust /\ Len(xff) >= TrustedProxyHops -> NthFromRight(xff, TrustedProxyHops)
      [] trust /\ xff = << >> /\ real # Absent -> real
      [] OTHER -> remote

(* The API's key is the session cookie, whatever its value. *)
KeyOf(cookie, ip) == IF cookie # Absent THEN Sess(cookie) ELSE Ip(ip)

(* The topology the code is written for: a server that trusts no header and is reached
   directly, or one that trusts them behind one proxy, which appends to
   X-Forwarded-For or, where the client sent none, sets X-Real-IP. *)
Deployments == [trust : BOOLEAN, proxies : 0..MaxHops, sets : {"xff", "real"}]

Documented(d, sent) ==
    \/ ~d.trust /\ d.proxies = 0
    \/ d.trust /\ d.proxies = 1 /\ (d.sets = "xff" \/ sent = << >>)

(* A client sends any X-Forwarded-For, X-Real-IP and cookie; every proxy appends the
   address it was contacted from, or the first sets X-Real-IP. *)
Forwarded(client, sent, d) ==
    IF d.proxies = 0 \/ d.sets = "real" THEN sent
    ELSE sent \o <<client>> \o [i \in 1..(d.proxies - 1) |-> Proxy]

(* The key of a request and the keys it may be counted under. *)
KeyOfRequest(q) ==
    LET d == q.via
        xrip == IF d.proxies > 0 /\ d.sets = "real" THEN q.client ELSE q.real
        remote == IF d.proxies = 0 THEN q.client ELSE Proxy
    IN  [key |-> KeyOf(q.cookie, ClientIP(Forwarded(q.client, q.sent, d), xrip, remote, d.trust)),
         due |-> IF q.cookie = Absent /\ Documented(d, q.sent) THEN {Ip(q.client)} ELSE Keys]

HttpRequests == [client : Clients, sent : {<< >>} \cup {<<j>> : j \in Named}, real : {Absent} \cup Named,
                 cookie : {Absent} \cup Cookies, via : Deployments]

Arrivals == {KeyOfRequest(q) : q \in HttpRequests}

InUse == {k \in Keys : admitted[k] > 0} \cup {hit[q].key : q \in {q \in Hits : hit[q].at = "allow"}}

Arrive(r, a) ==
    /\ hit[r].at = "idle" /\ Cardinality(InUse \cup {a.key}) <= MaxKeys
    /\ hit' = [hit EXCEPT ![r] = [at |-> "allow", key |-> a.key, due |-> a.due, now |-> rtime]]
    /\ UNCHANGED <<rtime, buckets, lastSweep, lastNow, admitted, overtaken, toolVars>>

SweepDue(now) == now - lastSweep >= BucketTTL
SweepAll(now)  == {}                                  \* mutant: busy buckets go too
Lasting(now)   == {k \in DOMAIN buckets : now - buckets[k].lastSeen < BucketTTL}

Allow(r) ==
    LET k == hit[r].key
        now == hit[r].now
        kept == IF SweepDue(now) THEN Lasting(now) ELSE DOMAIN buckets
        b == IF k \in kept THEN buckets[k] ELSE [tokens |-> Burst * Period, last |-> now, lastSeen |-> now]
        level == Refill(b, Burst * Period, now)
        ok == level >= Period
        entry == IF ok THEN [tokens |-> level - Period, last |-> now, lastSeen |-> now]
                       ELSE [b EXCEPT !.lastSeen = now]
    IN
    /\ hit[r].at = "allow"
    /\ buckets' = [j \in kept \cup {k} |-> IF j = k THEN entry ELSE buckets[j]]
    /\ lastSweep' = IF SweepDue(now) THEN now ELSE lastSweep
    /\ lastNow' = Max({lastNow, now})
    /\ admitted' = IF ok THEN [admitted EXCEPT ![k] = @ + 1] ELSE admitted
    /\ overtaken' = IF ok THEN [overtaken EXCEPT ![k] = @ + Max({0, lastNow - now})] ELSE overtaken
    /\ hit' = [hit EXCEPT ![r] = NoHit]
    /\ UNCHANGED <<rtime, toolVars>>

-----------------------------------------------------------------------------
(* memoryLimiter.Allow: bucket looked up, clock read, then ReserveN. *)
ReadClock(c) ==
    /\ call[c].at = "idle" /\ tool.tokens >= -MaxDebt
    /\ call' = [call EXCEPT ![c] = [at |-> "reserve", now |-> rtime, act |-> 0]]
    /\ UNCHANGED <<rtime, httpVars, tool, toolAdmitted, toolOvertaken>>

Reserve(c) ==
    LET now == call[c].now
        left == Refill(tool, ToolBurst * Period, now) - Period
        act == now + Max({0, -left})
        ok == left >= 0
    IN
    /\ call[c].at = "reserve"
    /\ tool' = [tokens |-> left, last |-> now, lastEvent |-> act]
    /\ toolOvertaken' = toolOvertaken + Max({0, tool.last - now})
    /\ IF ok
       THEN /\ call' = [call EXCEPT ![c] = NoCall]
            /\ toolAdmitted' = toolAdmitted + 1
       ELSE /\ call' = [call EXCEPT ![c] = [at |-> "cancel", now |-> now, act |-> act]]
            /\ UNCHANGED toolAdmitted
    /\ UNCHANGED <<rtime, httpVars>>

(* What later reservations took is not given back. *)
Restored(c) == Period - (tool.lastEvent - call[c].act)

Cancel(c) ==
    LET t == rtime
        back == Restored(c)
        level == Min({ToolBurst * Period, Refill(tool, ToolBurst * Period, t) + back})
        prev == call[c].act - Period
        event == IF call[c].act = tool.lastEvent /\ prev >= t THEN prev ELSE tool.lastEvent
    IN
    /\ call[c].at = "cancel"
    /\ tool' = IF call[c].act < t \/ back <= 0 THEN tool
               ELSE [tokens |-> level, last |-> t, lastEvent |-> event]
    /\ call' = [call EXCEPT ![c] = NoCall]
    /\ toolOvertaken' = toolOvertaken + Max({0, call[c].act - tool.lastEvent})
    /\ UNCHANGED <<rtime, httpVars, toolAdmitted>>

HttpNext ==
    \/ RateTick
    \/ \E r \in Hits :
          \/ \E a \in Arrivals : Arrive(r, a)
          \/ Allow(r)

ToolNext ==
    \/ RateTick
    \/ \E c \in ToolCalls : ReadClock(c) \/ Reserve(c) \/ Cancel(c)

RateNext == HttpNext \/ ToolNext

RateSpec == RateInit /\ [][RateNext]_rateVars

-----------------------------------------------------------------------------
(* However requests overlap and buckets come and go, one key lets through no more
   than a full bucket, the rate, and the time by which its requests were overtaken. *)
RateBounded ==
    \A k \in Keys : admitted[k] * Period <= Burst * Period + rtime + overtaken[k]

(* In the documented topology a request without a session cookie is counted against
   the address it came from, whatever headers it sent. *)
KeyIsClient == \A r \in Hits : hit[r].at = "allow" => hit[r].key \in hit[r].due

(* Reservations made and cancelled by overlapping calls never let a token's calls
   exceed the class's burst and rate. *)
ToolCallsBounded == toolAdmitted * Period <= ToolBurst * Period + rtime + toolOvertaken

(* No limiter lets a key exceed burst and rate by overlapping requests, idle spells or
   cancelled reservations; and a key is the client's address in the documented
   topology, unless he names a session. *)
AdmissionsBounded == RateBounded /\ KeyIsClient /\ ToolCallsBounded
=============================================================================
