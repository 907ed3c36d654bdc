---------------------------- MODULE SiteRegistry ----------------------------
(***************************************************************************)
(* The name space of an instance: live handles, the redirects a rename     *)
(* leaves behind and reserved words.  CreateSite and RenameHandle ask      *)
(* HandleIsTaken first and write in a transaction of their own afterwards; *)
(* concurrent requests interleave between the two.                         *)
(***************************************************************************)
EXTENDS Integers, FiniteSets

CONSTANTS
    Handles, Reserved,   \* names, and the ones on the blocklist
    Sites,               \* identities CreateSite may hand out
    RegistryRequests,    \* create and rename requests in flight
    MaxInitFailures      \* failed git initialisations

NoSite == "no site"
NoHandle == "no handle"

ASSUME RegistryAssumption ==
    /\ Reserved \subseteq Handles /\ NoHandle \notin Handles /\ NoSite \notin Sites
    /\ MaxInitFailures \in Nat

VARIABLES
    rows,       \* rows[s]: [state, handle] of table sites
    redirects,  \* handle_redirects: old handle -> site
    rq,         \* rq[r]: where a request is and what it has read
    bore,       \* bore[s]: every handle site s was acknowledged under
    staleWrite, \* some request wrote after another had changed what it checked
    initFailures

registryVars == <<rows, redirects, rq, bore, staleWrite, initFailures>>

IdleRq == [at |-> "idle", site |-> NoSite, old |-> NoHandle, new |-> NoHandle, stale |-> FALSE]

RegistryInit ==
    /\ rows = [s \in Sites |-> [state |-> "none", handle |-> NoHandle]]
    /\ redirects = [h \in {} |-> NoSite]
    /\ rq = [r \in RegistryRequests |-> IdleRq]
    /\ bore = [s \in Sites |-> {}]
    /\ staleWrite = FALSE /\ initFailures = 0

-----------------------------------------------------------------------------
(* Queries *)
Live == {s \in Sites : rows[s].state = "live"}
InTable == {s \in Sites : rows[s].state \in {"live", "deleted"}}

GetSiteByHandle(h) ==
    IF \E s \in Live : rows[s].handle = h THEN CHOOSE s \in Live : rows[s].handle = h ELSE NoSite

GetSiteByRedirect(h) ==
    IF h \in DOMAIN redirects /\ redirects[h] \in Live THEN redirects[h] ELSE NoSite

(* Where a visitor asking for h ends up. *)
Lookup(h) == IF GetSiteByHandle(h) # NoSite THEN GetSiteByHandle(h) ELSE GetSiteByRedirect(h)

LiveHandleIsTaken(h) == h \in Reserved \/ \E s \in Live : rows[s].handle = h  \* mutant: redirects forgotten
HandleIsTaken(h) ==
    \/ \E s \in Live : rows[s].handle = h
    \/ h \in DOMAIN redirects
    \/ h \in Reserved

(* The UNIQUE constraint also covers soft-deleted rows. *)
UniqueViolation(s, h) == \E t \in InTable \ {s} : rows[t].handle = h

-----------------------------------------------------------------------------
(* Requests that read the registry before this write now hold a stale check. *)
Finish(r) ==
    rq' = [q \in RegistryRequests |->
              IF q = r THEN IdleRq ELSE [rq[q] EXCEPT !.stale = rq[q].at # "idle"]]

ValidHandle(h) == h \notin Reserved

CreateSite(r, h) ==
    /\ rq[r].at = "idle" /\ ValidHandle(h) /\ ~HandleIsTaken(h)
    /\ rq' = [rq EXCEPT ![r] = [IdleRq EXCEPT !.at = "insert", !.new = h]]
    /\ UNCHANGED <<rows, redirects, bore, staleWrite, initFailures>>

(* CreateSiteWithOwner; then initRepo, whose failure soft-deletes the new row.  A
   request that lost its handle meanwhile is answered ErrHandleTaken. *)
CreateSiteWithOwner(r, s) ==
    LET h == rq[r].new IN
    /\ rq[r].at = "insert" /\ rows[s].state = "none"
    /\ \/ /\ UniqueViolation(s, h)
          /\ rq' = [rq EXCEPT ![r] = IdleRq]
          /\ UNCHANGED <<rows, bore, staleWrite, initFailures>>
       \/ /\ ~UniqueViolation(s, h)
          /\ rows' = [rows EXCEPT ![s] = [state |-> "live", handle |-> h]]
          /\ bore' = [bore EXCEPT ![s] = {h}]
          /\ staleWrite' = (staleWrite \/ rq[r].stale)
          /\ Finish(r)
          /\ UNCHANGED initFailures
       \/ /\ ~UniqueViolation(s, h) /\ initFailures < MaxInitFailures
          /\ rows' = [rows EXCEPT ![s] = [state |-> "deleted", handle |-> h]]
          /\ initFailures' = initFailures + 1
          /\ Finish(r)
          /\ UNCHANGED <<bore, staleWrite>>
    /\ UNCHANGED redirects

(* RenameHandle: the current handle is read, then the new one is checked. *)
RenameHandle(r, s, new) ==
    /\ rq[r].at = "idle" /\ ValidHandle(new)
    /\ s \in Live /\ rows[s].handle # new
    /\ rq' = [rq EXCEPT ![r] = [IdleRq EXCEPT !.at = "check", !.site = s,
                                              !.old = rows[s].handle, !.new = new]]
    /\ UNCHANGED <<rows, redirects, bore, staleWrite, initFailures>>

(* A redirect of the same site is no obstacle: the site is renamed back. *)
OwnRedirect(r) == GetSiteByRedirect(rq[r].new) = rq[r].site

CheckNewHandle(r) ==
    LET free == ~HandleIsTaken(rq[r].new) \/ OwnRedirect(r) IN
    /\ rq[r].at = "check"
    /\ rq' = IF free THEN [rq EXCEPT ![r].at = "rename"] ELSE [rq EXCEPT ![r] = IdleRq]
    /\ UNCHANGED <<rows, redirects, bore, staleWrite, initFailures>>

(* RenameHandleWithRedirect, one transaction: a unique violation or a site purged
   meanwhile rolls it back; a site deleted meanwhile is renamed all the same. *)
RedirectsAfter(r) ==
    LET gone == {h \in DOMAIN redirects : h = rq[r].new /\ redirects[h] = rq[r].site}
    IN [h \in (DOMAIN redirects \ gone) \cup {rq[r].old} |->
           IF h = rq[r].old THEN rq[r].site ELSE redirects[h]]

RenameHandleWithRedirect(r) ==
    LET s == rq[r].site IN
    /\ rq[r].at = "rename"
    /\ IF UniqueViolation(s, rq[r].new) \/ s \notin InTable
       THEN /\ rq' = [rq EXCEPT ![r] = IdleRq]
            /\ UNCHANGED <<rows, redirects, bore, staleWrite>>
       ELSE /\ redirects' = RedirectsAfter(r)
            /\ rows' = [rows EXCEPT ![s].handle = rq[r].new]
            /\ bore' = [bore EXCEPT ![s] = @ \cup {rq[r].new}]
            /\ staleWrite' = (staleWrite \/ rq[r].stale)
            /\ Finish(r)
    /\ UNCHANGED initFailures

(* SoftDeleteSite keeps the row and its redirects; the reaper's HardDeleteSite
   removes both (ON DELETE CASCADE). *)
SoftDeleteSite(s) ==
    /\ s \in Live
    /\ rows' = [rows EXCEPT ![s].state = "deleted"]
    /\ rq' = [q \in RegistryRequests |-> [rq[q] EXCEPT !.stale = rq[q].at # "idle"]]
    /\ UNCHANGED <<redirects, bore, staleWrite, initFailures>>

HardDeleteSite(s) ==
    /\ rows[s].state = "deleted"
    /\ rows' = [rows EXCEPT ![s].state = "purged"]
    /\ redirects' = [h \in {g \in DOMAIN redirects : redirects[g] # s} |-> redirects[h]]
    /\ rq' = [q \in RegistryRequests |-> [rq[q] EXCEPT !.stale = rq[q].at # "idle"]]
    /\ UNCHANGED <<bore, staleWrite, initFailures>>

RegistryNext ==
    \/ \E r \in RegistryRequests :
          \/ \E h \in Handles : CreateSite(r, h)
          \/ \E s \in Sites : CreateSiteWithOwner(r, s)
          \/ \E s \in Sites, h \in Handles : RenameHandle(r, s, h)
          \/ CheckNewHandle(r)
          \/ RenameHandleWithRedirect(r)
    \/ \E s \in Sites : SoftDeleteSite(s) \/ HardDeleteSite(s)

RegistrySpec == RegistryInit /\ [][RegistryNext]_registryVars

-----------------------------------------------------------------------------
(* Links to a site keep working: every handle a live site was ever acknowledged
   under leads to it, through any chain of renames, renames back, deletions and
   failed creations, as long as no request wrote on a check that another request
   had overtaken. *)
FormerHandlesLead ==
    ~staleWrite => \A s \in Live : \A h \in bore[s] : Lookup(h) = s
=============================================================================
