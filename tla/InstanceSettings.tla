-------------------------- MODULE InstanceSettings --------------------------
(***************************************************************************)
(* Settings an administrator changes at run time: the base domain and the  *)
(* OIDC configuration.  Each is kept in the database, read through a cache *)
(* that is filled once and dropped after a save (domaincfg, oidccfg), and  *)
(* overridden field by field by the environment; the OIDC client built     *)
(* from it is cached too, keyed by issuer and credentials.  The access     *)
(* lists are part of the client and not of its key.  Filling a cache reads *)
(* the database key by key under the cache's write lock while a save       *)
(* commits in one transaction.                                             *)
(***************************************************************************)
EXTENDS Naturals

CONSTANTS
    Saves,        \* admin PUT requests
    Uses,         \* requests that use the effective settings
    Issuers, DefaultIssuer,
    MaxSettingsFaults, \* bound on failed database reads and failed discoveries
    MaxSaves      \* bound on committed saves

Settings == {"domain", "oidc"}

ASSUME SettingsAssumption ==
    /\ DefaultIssuer \in Issuers
    /\ MaxSettingsFaults \in Nat /\ MaxSaves \in Nat

(* The OIDC keys as far as anything depends on them (creds: client id and secret; allow:
   either allow list); for the domain only the save that wrote it matters.  ver counts
   saves; 0: nothing stored. *)
Unset == [enabled |-> FALSE, creds |-> FALSE, allow |-> FALSE,
          issuer |-> DefaultIssuer, ver |-> 0]

VARIABLES
    pinned,   \* the fields the environment sets (fixed for the process)
    setting,  \* which of the two this instance of the module is
    stored,   \* what instance_settings holds
    cache,    \* [once, value]
    filling,  \* [by, first]: the request holding the cache's write lock, or Nobody
    built,    \* the cached OIDC client: [ok, client, err]
    save,     \* save[p]: [at, in, cur, ver] (cur: the settings it is checked against)
    use,      \* use[u]: [at, value, since, client]
    returned, \* the last save that was answered
    staleSave,\* a save was written over settings other than the ones it was checked against
    blips, discoveryFaults  \* failed reads, failed discoveries

settingsVars == <<pinned, setting, stored, cache, filling, built, save, use, returned, staleSave, blips, discoveryFaults>>

Nobody == [by |-> "nobody"]
NoSave == [at |-> "idle", in |-> << >>, cur |-> Unset, ver |-> 0]

(* An OIDC client: the issuer it talks to (its key), the save whose access lists it
   enforces, and the last save that had been answered when it was built. *)
NoClient == [issuer |-> DefaultIssuer, lists |-> 0, since |-> 0]
BuiltLate(c) == c.lists < c.since

NoUse == [at |-> "idle", value |-> Unset, since |-> 0, client |-> NoClient]
NotBuilt == [ok |-> FALSE, client |-> NoClient, err |-> FALSE]

SettingsInit ==
    /\ pinned \in {{}, {"allow"}}
    /\ setting \in Settings /\ (setting = "domain" => pinned = {})
    /\ stored = Unset
    /\ cache = [once |-> FALSE, value |-> Unset]
    /\ filling = Nobody
    /\ built = NotBuilt
    /\ save = [p \in Saves |-> NoSave] /\ use = [u \in Uses |-> NoUse]
    /\ returned = 0
    /\ staleSave = FALSE
    /\ blips = 0 /\ discoveryFaults = 0

(* A partial update: a function on the supplied fields.  All that enabling OIDC takes,
   the switch or the issuer alone, or the credentials or the allow list cleared. *)
OneField == {[f \in {"enabled"} |-> v] : v \in BOOLEAN} \cup {[f \in {"issuer"} |-> i] : i \in Issuers}
              \cup {[f \in {x} |-> FALSE] : x \in {"creds", "allow"}}
Updates == IF setting = "oidc" THEN OneField \cup {[f \in {"enabled", "creds", "allow"} \ pinned |-> TRUE]}
           ELSE {<< >>}
Apply(s, in, v) == [f \in DOMAIN s |-> IF f \in DOMAIN in THEN in[f] ELSE IF f = "ver" THEN v ELSE s[f]]

-----------------------------------------------------------------------------
(* Resolve: the environment before the database, field by field. *)
Effective(s) == [f \in DOMAIN s |-> IF f \in pinned THEN TRUE ELSE s[f]]

Got(x, value) ==
    IF x \in Saves
    THEN save' = [save EXCEPT ![x].at = "check", ![x].cur = Effective(value)] /\ UNCHANGED use
    ELSE /\ use' = [use EXCEPT ![x].at = "got", ![x].value = Effective(value)]
         /\ UNCHANGED save

(* cachedDomainConfig, cachedDBConfig. *)
WantsRead(x) == IF x \in Saves THEN save[x].at = "read" ELSE use[x].at = "read"

CacheHit(x) ==
    /\ WantsRead(x) /\ filling = Nobody /\ cache.once
    /\ Got(x, cache.value)
    /\ UNCHANGED <<pinned, setting, stored, cache, filling, built, returned, staleSave, blips, discoveryFaults>>

(* GetOIDCConfig, GetDomainConfig: the first keys ... *)
StartFill(x) ==
    /\ WantsRead(x) /\ filling = Nobody /\ ~cache.once
    /\ filling' = [by |-> x, first |-> stored]
    /\ UNCHANGED <<pinned, setting, stored, cache, built, save, use, returned, staleSave, blips, discoveryFaults>>

(* ... and the others, which a save may have changed in between. *)
EndFill(x) ==
    LET first == filling.first
        value == [stored EXCEPT !.enabled = first.enabled, !.issuer = first.issuer, !.creds = first.creds,
                                   !.ver = first.ver]
    IN
    /\ filling # Nobody /\ filling.by = x
    /\ cache' = [once |-> TRUE, value |-> value]
    /\ filling' = Nobody
    /\ Got(x, value)
    /\ UNCHANGED <<pinned, setting, stored, built, returned, staleSave, blips, discoveryFaults>>

(* A read that fails - the database, or the request's own context - is cached as
   "nothing stored". *)
FillFails(x) ==
    /\ filling # Nobody /\ filling.by = x /\ blips + discoveryFaults < MaxSettingsFaults
    /\ blips' = blips + 1
    /\ cache' = [once |-> TRUE, value |-> Unset]
    /\ filling' = Nobody
    /\ Got(x, Unset)
    /\ UNCHANGED <<pinned, setting, stored, built, returned, staleSave, discoveryFaults>>

-----------------------------------------------------------------------------
Writable(p, in) == save[p].at = "idle" /\ DOMAIN in \cap pinned = {}    \* else 409

(* adminPutDomain checks only the new value itself. *)
AdminPutDomain(p, in) ==
    /\ setting = "domain" /\ Writable(p, in)
    /\ save' = [save EXCEPT ![p] = [NoSave EXCEPT !.at = "save", !.in = in]]
    /\ UNCHANGED <<pinned, setting, stored, cache, filling, built, use, returned, staleSave, blips, discoveryFaults>>

(* adminPutOIDC: read the current settings, check, save, invalidate both caches. *)
AdminPutOIDC(p, in) ==
    /\ setting = "oidc" /\ Writable(p, in)
    /\ save' = [save EXCEPT ![p] = [NoSave EXCEPT !.at = "read", !.in = in]]
    /\ UNCHANGED <<pinned, setting, stored, cache, filling, built, use, returned, staleSave, blips, discoveryFaults>>

SecretOnly(s) == ~s.enabled \/ s.creds                             \* mutant: the gate is not checked
SafeToEnable(s) == ~s.enabled \/ (s.creds /\ s.allow)

Check(p) ==
    /\ save[p].at = "check"
    /\ save' = IF SafeToEnable(Apply(save[p].cur, save[p].in, 0))
               THEN [save EXCEPT ![p].at = "save"] ELSE [save EXCEPT ![p] = NoSave]
    /\ UNCHANGED <<pinned, setting, stored, cache, filling, built, use, returned, staleSave, blips, discoveryFaults>>

(* SetOIDCConfig, SetDomainConfig: one transaction. *)
Gates(s) == <<s.enabled, s.creds, s.allow>>

SaveSettings(p) ==
    LET v == stored.ver + 1
    IN
    /\ save[p].at = "save" /\ v <= MaxSaves
    /\ stored' = Apply(stored, save[p].in, v)
    /\ staleSave' = (staleSave \/ (setting = "oidc" /\ Gates(save[p].cur) # Gates(Effective(stored))))
    /\ save' = [save EXCEPT ![p] = [NoSave EXCEPT !.at = "invalidate", !.ver = v]]
    /\ UNCHANGED <<pinned, setting, cache, filling, built, use, returned, blips, discoveryFaults>>

SaveFails(p) ==
    /\ save[p].at = "save"
    /\ save' = [save EXCEPT ![p] = NoSave]
    /\ UNCHANGED <<pinned, setting, stored, cache, filling, built, use, returned, staleSave, blips, discoveryFaults>>

KeepsCache == cache                                                \* mutant: no invalidation
Dropped == [cache EXCEPT !.once = FALSE]

InvalidateCache(p) ==
    /\ save[p].at = "invalidate" /\ filling = Nobody
    /\ cache' = Dropped
    /\ save' = [save EXCEPT ![p].at = "rebuild"]
    /\ UNCHANGED <<pinned, setting, stored, filling, built, use, returned, staleSave, blips, discoveryFaults>>

InvalidateProvider(p) ==
    /\ save[p].at = "rebuild"
    /\ built' = IF setting = "oidc" THEN NotBuilt ELSE built
    /\ returned' = IF save[p].ver > returned THEN save[p].ver ELSE returned
    /\ save' = [save EXCEPT ![p] = NoSave]
    /\ UNCHANGED <<pinned, setting, stored, cache, filling, use, staleSave, blips, discoveryFaults>>

-----------------------------------------------------------------------------
(* A request resolves a setting; a sign-in then asks for the OIDC client. *)
StartUse(u) ==
    /\ use[u].at = "idle"
    /\ use' = [use EXCEPT ![u] = [NoUse EXCEPT !.at = "read", !.since = returned]]
    /\ UNCHANGED <<pinned, setting, stored, cache, filling, built, save, returned, staleSave, blips, discoveryFaults>>

Usable(s) == s.enabled /\ s.creds

BuiltFor(i) == built.ok /\ built.client.issuer = i

(* newOIDCProvider: endpoint and verifier of the issuer, and an access policy with the
   lists of the settings it is given. *)
NewClient(s) == [issuer |-> s.issuer, lists |-> s.ver, since |-> returned]

(* ProviderFor under its mutex; the client it hands out, if any. *)
ProviderFor(u) ==
    LET s == use[u].value
    IN
    /\ use[u].at = "got" /\ setting = "oidc" /\ Usable(s)
    /\ \/ BuiltFor(s.issuer) /\ UNCHANGED <<built, discoveryFaults>>
       \/ /\ ~BuiltFor(s.issuer)
          /\ built' = [ok |-> TRUE, client |-> NewClient(s), err |-> FALSE]
          /\ UNCHANGED discoveryFaults
       \/ /\ ~BuiltFor(s.issuer) /\ blips + discoveryFaults < MaxSettingsFaults
          /\ discoveryFaults' = discoveryFaults + 1
          /\ built' = [ok |-> TRUE, client |-> NewClient(s), err |-> TRUE]
    /\ use' = [use EXCEPT ![u] = IF built'.err THEN NoUse
                                 ELSE [@ EXCEPT !.at = "client", !.client = built'.client]]
    /\ UNCHANGED <<pinned, setting, stored, cache, filling, save, returned, staleSave, blips>>

EndUse(u) ==
    /\ use[u].at \in {"got", "client"}
    /\ use' = [use EXCEPT ![u] = NoUse]
    /\ UNCHANGED <<pinned, setting, stored, cache, filling, built, save, returned, staleSave, blips, discoveryFaults>>

SettingsNext ==
    \/ \E x \in Saves \cup Uses : CacheHit(x) \/ StartFill(x) \/ EndFill(x) \/ FillFails(x)
    \/ \E p \in Saves :
          \/ \E in \in Updates : AdminPutDomain(p, in) \/ AdminPutOIDC(p, in)
          \/ Check(p) \/ SaveSettings(p) \/ SaveFails(p) \/ InvalidateCache(p) \/ InvalidateProvider(p)
    \/ \E u \in Uses :
          StartUse(u) \/ ProviderFor(u) \/ EndUse(u)

SettingsSpec == SettingsInit /\ [][SettingsNext]_settingsVars

-----------------------------------------------------------------------------
(* A request that begins after a save was answered works with that save or a later
   one ("the caches are invalidated ... so the change applies without a restart",
   adminPutOIDC), whatever fill of the cache was under way when it was saved; the
   exception is a cached failed read. *)
SavedSettingsApply ==
    \A u \in Uses : use[u].at = "got" =>
        \/ use[u].value.ver >= use[u].since
        \/ use[u].value.ver = 0 /\ blips > 0

(* OIDC is enabled without credentials or without an allow list only when some save was
   checked against settings other than those it was written over: by two administrators
   at once, or from a cached failed read. *)
GateLostOnlyOnStaleView ==
    LET s == Effective(stored)
    IN  s.enabled /\ ~(s.creds /\ s.allow) => staleSave

(* The client a sign-in gets is for the issuer it resolved and enforces the access lists
   of the last save answered before the sign-in began, or of a later one.  The exception
   is a client another sign-in built late: it had resolved the settings before a save,
   built the client after that save had dropped the old one, and so left a client with
   the former lists in the cache, whose key does not tell the lists apart. *)
ClientIsCurrent ==
    \A u \in Uses : use[u].at = "client" =>
        /\ use[u].client.issuer = use[u].value.issuer
        /\ use[u].client.lists >= use[u].since \/ BuiltLate(use[u].client)

(* What requests work with are the settings in force, and the identity provider's
   client is the one that belongs to them, through both caches. *)
SettingsInForce == SavedSettingsApply /\ ClientIsCurrent
=============================================================================
