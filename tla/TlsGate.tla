------------------------------ MODULE TlsGate ------------------------------
(***************************************************************************)
(* The on-demand TLS decision (tlsedge.Decider): a certificate is obtained *)
(* for a host only when the host is the control host or names an existing  *)
(* site.  Existence is answered from a cache whose positive and negative   *)
(* entries live for different times and are stamped with the clock read    *)
(* before the lookup, which handshakes run outside the cache's mutex and   *)
(* which asks for a live site first and for a redirect afterwards.         *)
(***************************************************************************)
EXTENDS Integers

CONSTANTS
    Handshakes,     \* TLS handshakes for hosts without a certificate
    TlsHandles,     \* handles a project host may name
    PosTTL, NegTTL, \* existsCacheTTL, existsNegCacheTTL
    MaxTlsTime      \* bound on the clock

ASSUME TlsGateAssumption ==
    /\ PosTTL \in Nat \ {0} /\ NegTTL \in Nat \ {0} /\ NegTTL <= PosTTL
    /\ MaxTlsTime \in Nat /\ "none" \notin TlsHandles

VARIABLES
    tlsClock,
    name,       \* name[h]: "live" a site's handle, "former" a live site's redirect, "free"
    lastYes,    \* when h last belonged to a site (-1: never)
    lastNo,     \* when h was last free or taken back from a redirect (-1: never)
    known,      \* known[h]: the cache entry [exists, expires]; expires = 0: none
    shake       \* shake[c]: [at, handle, now, found]

tlsVars == <<tlsClock, name, lastYes, lastNo, known, shake>>

NoShake == [at |-> "idle"]

TlsInit ==
    /\ tlsClock = 0
    /\ name \in [TlsHandles -> {"live", "former", "free"}]
    /\ lastYes = [h \in TlsHandles |-> IF name[h] = "free" THEN -1 ELSE 0]
    /\ lastNo = [h \in TlsHandles |-> IF name[h] = "free" THEN 0 ELSE -1]
    /\ known = [h \in TlsHandles |-> [exists |-> FALSE, expires |-> 0]]
    /\ shake = [c \in Handshakes |-> NoShake]

TlsTick ==
    /\ tlsClock < MaxTlsTime
    /\ tlsClock' = tlsClock + 1
    /\ lastYes' = [h \in TlsHandles |-> IF name[h] = "free" THEN lastYes[h] ELSE tlsClock']
    /\ lastNo' = [h \in TlsHandles |-> IF name[h] = "free" THEN tlsClock' ELSE lastNo[h]]
    /\ UNCHANGED <<name, known, shake>>

(* A site is created, renamed away and, by one transaction that drops the redirect,
   back, and deleted, its redirects with it. *)
Moves == {<<"free", "live">>, <<"live", "former">>, <<"former", "live">>, <<"live", "free">>, <<"former", "free">>}

SiteChanges(h, to) ==
    /\ <<name[h], to>> \in Moves
    /\ name' = [name EXCEPT ![h] = to]
    /\ lastYes' = [lastYes EXCEPT ![h] = IF to = "free" THEN @ ELSE tlsClock]
    /\ lastNo' = [lastNo EXCEPT ![h] = IF to = "free" \/ name[h] = "former" THEN tlsClock ELSE @]
    /\ UNCHANGED <<tlsClock, known, shake>>

-----------------------------------------------------------------------------
(* Allow for a host that is not a project's: the control host is ours, any other is
   refused without a lookup. *)
Decided(h, t, yes) == [at |-> IF yes THEN "allowed" ELSE "refused", handle |-> h, now |-> t]

AllowOther(c) ==
    /\ shake[c] = NoShake
    /\ \E control \in BOOLEAN : shake' = [shake EXCEPT ![c] = Decided("none", tlsClock, control)]
    /\ UNCHANGED <<tlsClock, name, lastYes, lastNo, known>>

(* existsCached: the clock is read, then a fresh entry answers. *)
Fresh(h) == tlsClock < known[h].expires

AllowFromCache(c, h) ==
    /\ shake[c] = NoShake /\ Fresh(h)
    /\ shake' = [shake EXCEPT ![c] = Decided(h, tlsClock, known[h].exists)]
    /\ UNCHANGED <<tlsClock, name, lastYes, lastNo, known>>

StartLookup(c, h) ==
    /\ shake[c] = NoShake /\ ~Fresh(h)
    /\ shake' = [shake EXCEPT ![c] = [at |-> "lookup", handle |-> h, now |-> tlsClock, found |-> FALSE]]
    /\ UNCHANGED <<tlsClock, name, lastYes, lastNo, known>>

(* siteExists: GetSiteByHandle, then GetSiteByRedirect. *)
LookupLive(c) ==
    LET live == name[shake[c].handle] = "live"
    IN
    /\ shake[c].at = "lookup"
    /\ shake' = [shake EXCEPT ![c].at = IF live THEN "found" ELSE "redirect", ![c].found = live]
    /\ UNCHANGED <<tlsClock, name, lastYes, lastNo, known>>

LookupRedirect(c) ==
    /\ shake[c].at = "redirect"
    /\ shake' = [shake EXCEPT ![c].at = "found", ![c].found = (name[shake[c].handle] = "former")]
    /\ UNCHANGED <<tlsClock, name, lastYes, lastNo, known>>

(* A cancelled handshake, a store error or the lookup's timeout: refused, not cached. *)
LookupFails(c) ==
    /\ shake[c].at \in {"lookup", "redirect"}
    /\ shake' = [shake EXCEPT ![c] = Decided("none", tlsClock, FALSE)]
    /\ UNCHANGED <<tlsClock, name, lastYes, lastNo, known>>

LateStamp(c) == IF shake[c].found THEN tlsClock + PosTTL ELSE shake[c].now + NegTTL \* mutant: clock read late
Expires(c) == shake[c].now + (IF shake[c].found THEN PosTTL ELSE NegTTL)

Remember(c) ==
    LET s == shake[c]
    IN
    /\ s.at = "found"
    /\ known' = [known EXCEPT ![s.handle] = [exists |-> s.found, expires |-> Expires(c)]]
    /\ shake' = [shake EXCEPT ![c] = Decided(s.handle, s.now, s.found)]
    /\ UNCHANGED <<tlsClock, name, lastYes, lastNo>>

HandshakeDone(c) ==
    /\ shake[c].at \in {"allowed", "refused"}
    /\ shake' = [shake EXCEPT ![c] = NoShake]
    /\ UNCHANGED <<tlsClock, name, lastYes, lastNo, known>>

TlsNext ==
    \/ TlsTick
    \/ \E h \in TlsHandles, to \in {"live", "former", "free"} : SiteChanges(h, to)
    \/ \E c \in Handshakes :
          \/ AllowOther(c) \/ LookupLive(c) \/ LookupRedirect(c) \/ LookupFails(c) \/ Remember(c) \/ HandshakeDone(c)
          \/ \E h \in TlsHandles : AllowFromCache(c, h) \/ StartLookup(c, h)

TlsSpec == TlsInit /\ [][TlsNext]_tlsVars

-----------------------------------------------------------------------------
(* A certificate is obtained for a project host only if its site existed less than
   PosTTL before the handshake began, however long lookups take and in whatever order
   concurrent handshakes store what they found (existsCached). *)
IssuedOnlyIfExisted ==
    \A c \in Handshakes : shake[c].at = "allowed" /\ shake[c].handle \in TlsHandles =>
        shake[c].now - lastYes[shake[c].handle] < PosTTL

(* A host whose site exists is refused as unknown only if, less than NegTTL before the
   handshake began or since, its handle was free, or was taken back by a site it had
   been a redirect of, which both queries may miss: "must expire fast enough that a
   newly created site becomes issuable promptly" (existsCached). *)
NewSiteIssuable ==
    \A c \in Handshakes : shake[c].at = "refused" /\ shake[c].handle \in TlsHandles =>
        shake[c].now - lastNo[shake[c].handle] < NegTTL

(* The decision follows the sites that exist, in both directions, as closely as the
   lifetimes of its cache allow. *)
DecisionFollowsSites == IssuedOnlyIfExisted /\ NewSiteIssuable
=============================================================================
