----------------------------- MODULE SiteAccess -----------------------------
(***************************************************************************)
(* Who may do what to one site.  Requests come over REST with a session    *)
(* and over MCP with a token of a user; each reads the user, the site and  *)
(* the membership in separate queries and then calls the service.  Roles,  *)
(* settings, account flags and tokens change between any two of them.      *)
(***************************************************************************)
EXTENDS Integers, FiniteSets

CONSTANTS
    People,          \* users
    Calls,           \* requests in flight
    Tokens,          \* token identities
    TokenScopes      \* scope sets a token may be issued with

Scopes == {"read", "write", "publish"}

ASSUME AccessAssumption == TokenScopes \subseteq SUBSET Scopes \ {{}}

VARIABLES
    role,        \* role[u]: site_members
    flags,       \* flags[u]: subset of {"create", "admin"}, table users
    mode,        \* publish_mode: "direct" or "request"
    live,        \* the site is not deleted
    token,       \* token[t]: [state, user, scopes, create]
    call         \* call[c]: where a request is and what it has read

accessVars == <<role, flags, mode, live, token, call>>

Roles == {"none", "viewer", "editor", "owner"}
Flags == SUBSET {"create", "admin"}
Nobody == "nobody"
NoToken == [state |-> "unused", user |-> Nobody, scopes |-> {}, create |-> FALSE]
NoCall == [at |-> "idle", via |-> "rest", needs |-> "read", strict |-> FALSE,
           user |-> Nobody, scopes |-> {}, create |-> FALSE, admin |-> FALSE, mode |-> "direct",
           owner |-> FALSE, unread |-> FALSE, wasAdmin |-> FALSE, entitled |-> FALSE, direct |-> FALSE]

-----------------------------------------------------------------------------
(* The operations: what each needs, and which input it refuses before it calls the
   service or the store. *)
Reads(n, d) == [name |-> n, needs |-> "read", refuses |-> d]
Writes(n, d) == [name |-> n, needs |-> "write", refuses |-> d]
Owns(n, d) == [name |-> n, needs |-> "own", refuses |-> d]
ListsOwn(n) == [name |-> n, needs |-> "list", refuses |-> {}]

Siteless == {"create", "list"}       \* name no site, so no role is asked for

ToolListSites == ListsOwn("list_sites")       \* the scope it declares is dropped
ToolListFiles == Reads("list_files", {"path"})
ToolReadFile == Reads("read_file", {"path"})
ToolWriteFile == Writes("write_file", {"path", "base", "published", "content", "size"})
ToolSave == Writes("save", {"base", "published"})
ToolPublish == [name |-> "publish", needs |-> "publish", refuses |-> {"base"}]
ToolGetDiff == Reads("get_diff", {"from"})
ToolGetLog == Reads("get_log", {"limit"})
ToolRollback == Writes("rollback", {"to", "base", "published"})
ToolCreateBranch == Writes("create_branch", {"name"})
ToolCreateSite == [name |-> "create_site", needs |-> "create", refuses |-> {}]

AllTools ==
    {ToolListSites, ToolListFiles, ToolReadFile, ToolWriteFile, ToolSave, ToolPublish, ToolGetDiff,
     ToolGetLog, ToolRollback, ToolCreateBranch, ToolCreateSite}

ApiListSites == ListsOwn("listSites")
ApiCreateSite == [name |-> "createSite", needs |-> "create", refuses |-> {"body"}]
ApiGetSite == Reads("getSite", {})
ApiUpdateSite == Owns("updateSite", {"body"})
ApiDeleteSite == Owns("deleteSite", {})
ApiRenameSite == Owns("renameSite", {"body"})
ApiMirrorSite == Owns("mirrorSite", {"unlinked"})
ApiListMembers == Reads("listMembers", {})
ApiAddMember == Owns("addMember", {"body", "role", "user"})
ApiUpdateMember == Owns("updateMemberRole", {"body", "role", "user"})
ApiRemoveMember == Owns("removeMember", {"user"})
ApiListBranches == Reads("listBranches", {})
ApiCreateBranch == Writes("createBranch", {"body"})
ApiDeleteBranch == Writes("deleteBranch", {})
ApiPreviewGrant == Reads("previewGrant", {"published", "name", "branch"})
ApiListFiles == Reads("listFiles", {})
ApiReadFile == Reads("readFile", {"path"})
ApiWriteFile == Writes("writeFile", {"body", "content"})
ApiDeleteFile == Writes("deleteFile", {"path", "base"})
ApiImportZip == Writes("importZip", {"size", "body", "file"})
ApiCommit == Writes("commit", {"body"})
ApiGetLog == Reads("getLog", {})
ApiGetDiff == Reads("getDiff", {"from"})
ApiRollback == Writes("rollback", {"body"})
ApiPublish == [name |-> "publish", needs |-> "publish", refuses |-> {"body"}]
ApiPurgeCache == [name |-> "purgeSiteCache", needs |-> "purge", refuses |-> {}]

ApiHandlers ==
    {ApiListSites, ApiCreateSite, ApiGetSite, ApiUpdateSite, ApiDeleteSite, ApiRenameSite,
     ApiMirrorSite, ApiListMembers, ApiAddMember, ApiUpdateMember, ApiRemoveMember, ApiListBranches,
     ApiCreateBranch, ApiDeleteBranch, ApiPreviewGrant, ApiListFiles, ApiReadFile,
     ApiWriteFile, ApiDeleteFile, ApiImportZip, ApiCommit, ApiGetLog, ApiGetDiff,
     ApiRollback, ApiPublish, ApiPurgeCache}

-----------------------------------------------------------------------------
(* Rights *)

(* MCP: roleScopes, intersected with the token's scopes. *)
ViewersWrite(r) == IF r = "none" THEN {} ELSE Scopes         \* mutant
RoleScopes(r) ==
    CASE r \in {"owner", "editor"} -> Scopes
      [] r = "viewer" -> {"read"}
      [] OTHER -> {}

IntersectScopes(scopes, r) == scopes \cap RoleScopes(r)

(* REST: ranks. *)
RoleRank(r) == CASE r = "owner" -> 3 [] r = "editor" -> 2 [] r = "viewer" -> 1 [] OTHER -> 0
MinRankFor(needs) == CASE needs = "read" -> 1 [] needs \in {"write", "publish", "purge"} -> 2 [] OTHER -> 3
RoleAllows(r, needs) == RoleRank(r) >= MinRankFor(needs)

(* A membership row wins; an administrator without one acts as an owner. *)
EffectiveRole(r, admin) == IF r = "none" /\ admin THEN "owner" ELSE r

(* What a user may do through the dashboard with role r, flags f and, as far as a
   missing membership needs it, administrator's rights. *)
Entitled(needs, r, f, admin) ==
    CASE needs = "create" -> f # {}
      [] needs = "list" -> TRUE                 \* of the sites one is a member of
      [] OTHER -> RoleAllows(EffectiveRole(r, admin), needs)

MayPublishDirectly(r, md, admin) == md = "direct" \/ EffectiveRole(r, admin) = "owner"

(* Every request in flight notes what its user has been entitled to meanwhile. *)
Noted(cl, rl, fl, md) ==
    [c \in Calls |->
        IF cl[c].at = "idle" THEN NoCall
        ELSE LET u == cl[c].user
                 wasAdmin == cl[c].wasAdmin \/ "admin" \in fl[u]
             IN [cl[c] EXCEPT
                    !.wasAdmin = wasAdmin,
                    !.entitled = @ \/ Entitled(cl[c].needs, rl[u], fl[u], wasAdmin),
                    !.direct = @ \/ MayPublishDirectly(rl[u], md, wasAdmin)]]

Ends(c) == call' = [call EXCEPT ![c] = NoCall]

AccessInit ==
    /\ role \in [People -> Roles] /\ \E u \in People : role[u] = "owner"
    /\ flags \in [People -> Flags]
    /\ mode \in {"direct", "request"} /\ live = TRUE
    /\ token = [t \in Tokens |-> NoToken]
    /\ call = [c \in Calls |-> NoCall]

-----------------------------------------------------------------------------
(* What other requests change meanwhile *)

(* A member is added, removed or given another role (module SiteMembers). *)
SetRole(u, r) ==
    /\ r # role[u]
    /\ role' = [role EXCEPT ![u] = r]
    /\ call' = Noted(call, role', flags, mode)
    /\ UNCHANGED <<flags, mode, live, token>>

(* Account flags, changed by an administrator or a login (module Accounts). *)
SetFlags(u, f) ==
    /\ f # flags[u]
    /\ flags' = [flags EXCEPT ![u] = f]
    /\ call' = Noted(call, role, flags', mode)
    /\ UNCHANGED <<role, mode, live, token>>

(* updateSite writes a mode: the one supplied, or the one it had read before. *)
SetMode ==
    /\ live /\ mode' \in {"direct", "request"} \ {mode}
    /\ call' = Noted(call, role, flags, mode')
    /\ UNCHANGED <<role, flags, live, token>>

SiteDeleted ==
    /\ live /\ live' = FALSE
    /\ UNCHANGED <<role, flags, mode, token, call>>

(* The creation flag is asked for and capped by the account's. *)
CappedCreate(u) == flags[u] # {}

CreateToken(u, t, scopes) ==
    /\ token[t].state = "unused"
    /\ token' = [token EXCEPT ![t] = [state |-> "active", user |-> u, scopes |-> scopes,
                                      create |-> CappedCreate(u)]]
    /\ UNCHANGED <<role, flags, mode, live, call>>

(* Revoked by its user, or expired. *)
RevokeToken(t) ==
    /\ token[t].state = "active"
    /\ token' = [token EXCEPT ![t].state = "revoked"]
    /\ UNCHANGED <<role, flags, mode, live, call>>

-----------------------------------------------------------------------------
(* A request arrives *)

Arrives(c, op, cl) ==
    /\ call[c].at = "idle"
    /\ call' = Noted([call EXCEPT ![c] =
          [cl EXCEPT !.at = IF op.needs \in Siteless THEN "handler" ELSE "site",
                     !.needs = op.needs, !.strict = op.refuses # {}]],
          role, flags, mode)
    /\ UNCHANGED <<role, flags, mode, live, token>>

Accepted(t) == token[t].state = "active"

(* Verifier.Verify: the creation claim is the token's AND its user's. *)
Verify(c, t, op) ==
    /\ Accepted(t)
    /\ Arrives(c, op,
          [NoCall EXCEPT !.via = "mcp", !.user = token[t].user, !.scopes = token[t].scopes,
                         !.create = token[t].create /\ "create" \in flags[token[t].user]])

(* SessionAuth: the session's user, whose flags are read here, once. *)
SessionAuth(c, u, op) ==
    Arrives(c, op,
       [NoCall EXCEPT !.user = u, !.create = "create" \in flags[u], !.admin = "admin" \in flags[u]])

-----------------------------------------------------------------------------
(* Authorization *)

(* GetSiteByHandle; the mode a later gate looks at is read here. *)
LoadSite(c) ==
    /\ call[c].at = "site"
    /\ IF live THEN call' = [call EXCEPT ![c].at = "role", ![c].mode = mode] ELSE Ends(c)
    /\ UNCHANGED <<role, flags, mode, live, token>>

Admitted(c, r) == call' = [call EXCEPT ![c].at = "handler", ![c].owner = r = "owner"]

(* authorizeSite: no administrator's override over MCP; a failed query ends the call. *)
AuthorizeSite(c) ==
    LET r == role[call[c].user] IN
    /\ call[c].at = "role" /\ call[c].via = "mcp"
    /\ \/ /\ call[c].needs \in IntersectScopes(call[c].scopes, r)
          /\ Admitted(c, r)
       \/ Ends(c)
    /\ UNCHANGED <<role, flags, mode, live, token>>

(* resolveAccess, when effectiveRole reads the membership ... *)
ResolveAccess(c) ==
    LET r == EffectiveRole(role[call[c].user], call[c].admin) IN
    /\ call[c].at = "role" /\ call[c].via = "rest"
    /\ IF RoleAllows(r, call[c].needs) THEN Admitted(c, r) ELSE Ends(c)
    /\ UNCHANGED <<role, flags, mode, live, token>>

(* ... and when its query fails: an administrator is an owner then, whatever his row
   says, and anybody else has no access. *)
RoleUnread(c) ==
    /\ call[c].at = "role" /\ call[c].via = "rest"
    /\ IF call[c].admin
       THEN call' = [call EXCEPT ![c].at = "handler", ![c].owner = TRUE, ![c].unread = TRUE]
       ELSE Ends(c)
    /\ UNCHANGED <<role, flags, mode, live, token>>

(* The handler: the publish_mode gate, the creation gate (which over MCP reads the
   user again) and the input; then it acts. *)
ModeGate(c) == call[c].needs = "publish" => call[c].owner \/ call[c].mode = "direct"

CreateGate(c) ==
    call[c].needs = "create" =>
        IF call[c].via = "mcp" THEN call[c].create /\ flags[call[c].user] # {}
        ELSE call[c].create \/ call[c].admin

Handler(c) ==
    /\ call[c].at = "handler"
    /\ \/ /\ call[c].strict \/ ~ModeGate(c) \/ ~CreateGate(c)
          /\ Ends(c)
       \/ /\ ModeGate(c) /\ CreateGate(c)
          /\ call' = [call EXCEPT ![c].at = "acts"]
    /\ UNCHANGED <<role, flags, mode, live, token>>

(* The call of the site service or the store (modules SiteRepo, SiteRegistry,
   SiteMembers). *)
Act(c) ==
    /\ call[c].at = "acts"
    /\ Ends(c)
    /\ UNCHANGED <<role, flags, mode, live, token>>

AccessNext ==
    \/ SetMode \/ SiteDeleted
    \/ \E u \in People :
          \/ \E t \in Tokens, scopes \in TokenScopes : CreateToken(u, t, scopes)
          \/ \E r \in Roles : SetRole(u, r)
          \/ \E f \in Flags : SetFlags(u, f)
    \/ \E t \in Tokens : RevokeToken(t)
    \/ \E c \in Calls :
          \/ \E t \in Tokens, op \in AllTools : Verify(c, t, op)
          \/ \E u \in People, op \in ApiHandlers : SessionAuth(c, u, op)
          \/ LoadSite(c) \/ AuthorizeSite(c) \/ ResolveAccess(c) \/ RoleUnread(c)
          \/ Handler(c) \/ Act(c)

AccessSpec == AccessInit /\ [][AccessNext]_accessVars

-----------------------------------------------------------------------------
(* A request to the sites' handlers or the MCP tools that is about to act does what
   its user was entitled to do through the dashboard at some moment since it was
   authenticated (an administrator's right to sites he is no member of may have been
   withdrawn meanwhile): roles, account flags and the publish mode may change between
   any two of its reads, and a token exceeds neither its user nor, on a site, its
   scopes.  When the membership could not be read, it acts for one who was an
   administrator: that his row may say less is not asked. *)
ActsWithinRights ==
    \A c \in Calls : call[c].at = "acts" =>
        /\ call[c].unread => call[c].via = "rest" /\ call[c].wasAdmin
        /\ ~call[c].unread => call[c].entitled
        /\ call[c].needs = "publish" /\ ~call[c].unread => call[c].direct
        /\ call[c].via = "mcp" /\ call[c].needs \notin Siteless => call[c].needs \in call[c].scopes
=============================================================================
