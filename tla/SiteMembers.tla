---------------------------- MODULE SiteMembers -----------------------------
(***************************************************************************)
(* An owner's changes to one site: members (add, change role, remove) and  *)
(* settings.  Every handler authorizes with one query, may ask whether its *)
(* target is the sole owner with another, and writes with a third;         *)
(* concurrent requests interleave between them.                            *)
(***************************************************************************)
EXTENDS Integers, FiniteSets

CONSTANTS
    Members,         \* users with an account
    Edits,           \* requests in flight
    MaxStoreFaults   \* failing queries of the sole-owner check

ASSUME MembersAssumption == MaxStoreFaults \in Nat

VARIABLES
    memberRole,  \* site_members
    settings,    \* [mode, visibility] of the site's row
    edit,        \* edit[e]: where a request is and what it carries
    unguarded,   \* an owner was removed or demoted on no check or an overtaken one
    storeFaults

membersVars == <<memberRole, settings, edit, unguarded, storeFaults>>

MemberRoles == {"viewer", "editor", "owner"}
NoEdit == [at |-> "idle", target |-> "nobody", newRole |-> "none", checked |-> FALSE,
           field |-> "mode", value |-> "direct", read |-> [mode |-> "direct", visibility |-> "private"]]


Owners == {u \in Members : memberRole[u] = "owner"}

MembersInit ==
    /\ \E owner \in Members : memberRole = [u \in Members |-> IF u = owner THEN "owner" ELSE "none"]
    /\ settings = [mode |-> "direct", visibility |-> "private"]
    /\ edit = [e \in Edits |-> NoEdit]
    /\ unguarded = FALSE /\ storeFaults = 0

-----------------------------------------------------------------------------
(* resolveAccess with capOwner: an owner acts, or an instance administrator who is
   no member, so that also an ownerless site can be repaired. *)
OwnerActs(e) == edit[e].at = "idle"

Start(e, l, u, r) ==
    /\ OwnerActs(e)
    /\ edit' = [edit EXCEPT ![e] = [NoEdit EXCEPT !.at = l, !.target = u, !.newRole = r]]
    /\ UNCHANGED <<memberRole, settings, unguarded, storeFaults>>

(* addMember looks the user up and goes straight to the upsert. *)
AddMember(e, u, r) == r \in MemberRoles /\ Start(e, "upsert", u, r)

(* updateMemberRole checks for the sole owner only when it takes ownership away. *)
UpdateMemberRole(e, u, r) ==
    r \in MemberRoles /\ Start(e, IF r = "owner" THEN "getmember" ELSE "sole", u, r)

RemoveMember(e, u) == Start(e, "sole", u, "none")

-----------------------------------------------------------------------------
OnlyMember(u) == memberRole[u] = "owner" /\ \A v \in Members \ {u} : memberRole[v] = "none"  \* mutant
IsSoleOwner(u) == Owners = {u}

(* A query that fails counts as "not the sole owner". *)
SoleOwnerCheck(e) ==
    LET pass == IF edit[e].newRole = "none" THEN "delete" ELSE "getmember" IN
    /\ edit[e].at = "sole"
    /\ \/ /\ IsSoleOwner(edit[e].target)
          /\ edit' = [edit EXCEPT ![e] = NoEdit]
          /\ UNCHANGED storeFaults
       \/ /\ ~IsSoleOwner(edit[e].target)
          /\ edit' = [edit EXCEPT ![e].at = pass, ![e].checked = TRUE]
          /\ UNCHANGED storeFaults
       \/ /\ storeFaults < MaxStoreFaults
          /\ storeFaults' = storeFaults + 1
          /\ edit' = [edit EXCEPT ![e].at = pass]
    /\ UNCHANGED <<memberRole, settings, unguarded>>

GetMember(e) ==
    /\ edit[e].at = "getmember"
    /\ edit' = IF memberRole[edit[e].target] = "none" THEN [edit EXCEPT ![e] = NoEdit]
               ELSE [edit EXCEPT ![e].at = "update"]
    /\ UNCHANGED <<memberRole, settings, unguarded, storeFaults>>

(* The write: every check another request has made is now out of date. *)
Write(e, new) ==
    LET u == edit[e].target IN
    /\ memberRole' = [memberRole EXCEPT ![u] = new]
    /\ unguarded' = (unguarded \/ (memberRole[u] = "owner" /\ new # "owner" /\ ~edit[e].checked))
    /\ edit' = [f \in Edits |-> IF f = e THEN NoEdit ELSE [edit[f] EXCEPT !.checked = FALSE]]
    /\ UNCHANGED <<settings, storeFaults>>

UpsertMember(e) == edit[e].at = "upsert" /\ Write(e, edit[e].newRole)

(* An UPDATE: a member removed meanwhile stays removed. *)
UpdateRow(e) ==
    /\ edit[e].at = "update"
    /\ Write(e, IF memberRole[edit[e].target] = "none" THEN "none" ELSE edit[e].newRole)

DeleteRow(e) == edit[e].at = "delete" /\ Write(e, "none")

-----------------------------------------------------------------------------
(* updateSite: the row as resolveAccess read it, the supplied field replaced, all
   of it written back. *)
UpdateSite(e, f, v) ==
    /\ OwnerActs(e)
    /\ edit' = [edit EXCEPT ![e] = [NoEdit EXCEPT !.at = "settings", !.field = f, !.value = v,
                                                  !.read = settings]]
    /\ UNCHANGED <<memberRole, settings, unguarded, storeFaults>>

Merged(e) == [edit[e].read EXCEPT ![edit[e].field] = edit[e].value]

UpdateSiteSettings(e) ==
    /\ edit[e].at = "settings"
    /\ settings' = Merged(e)
    /\ edit' = [edit EXCEPT ![e] = NoEdit]
    /\ UNCHANGED <<memberRole, unguarded, storeFaults>>

MembersNext ==
    \E e \in Edits :
       \/ \E u \in Members :
             \/ \E r \in MemberRoles : AddMember(e, u, r) \/ UpdateMemberRole(e, u, r)
             \/ RemoveMember(e, u)
       \/ SoleOwnerCheck(e) \/ GetMember(e)
       \/ UpsertMember(e) \/ UpdateRow(e) \/ DeleteRow(e)
       \/ \E v \in {"direct", "request"} : UpdateSite(e, "mode", v)
       \/ \E v \in {"public", "private"} : UpdateSite(e, "visibility", v)
       \/ UpdateSiteSettings(e)

MembersSpec == MembersInit /\ [][MembersNext]_membersVars

-----------------------------------------------------------------------------
(* The sole-owner rule of updateMemberRole and removeMember holds the last owner
   unless its check failed, was overtaken by another change, or was not made at all
   (addMember). *)
OwnerlessOnlyByRace == Owners = {} => unguarded
=============================================================================
