------------------------ MODULE ControlPlaneProofs ------------------------
(***************************************************************************)
(* What holds of the control plane for every number of requests, people,   *)
(* sites, commits and failures: the mirror loses nothing unseen, a site    *)
(* keeps its owner, requests act within rights, links keep working, and    *)
(* what a reader is told of the history is complete.                       *)
(***************************************************************************)
EXTENDS MirrorSync, SiteMembers, SiteAccess, SiteRegistry, HistoryReads, NatFacts, FiniteSetTheorems, TLAPS

-----------------------------------------------------------------------------
(* The mirror (MirrorSync) *)

PushStages == {"idle", "saved", "push", "synced", "pushing", "syncing", "track", "synctrack"}

MirrorTypeOK ==
    /\ local \in SUBSET Nat /\ tracking \in SUBSET Nat /\ seen \in SUBSET Nat
    /\ origin \in Repos \cup {NoRepo} /\ made \in Nat
    /\ github \in [Repos -> SUBSET Nat]
    /\ push \in [Pushers -> [at : PushStages, repo : Repos \cup {NoRepo},
                             advertised : SUBSET Nat, sent : SUBSET Nat]]

(* What the tracking ref names was brought by a fetch or comes from the local branch. *)
TrackingIsKnown == tracking \subseteq local \cup seen

(* What a push is about to write into the tracking ref came from the local branch. *)
SentIsLocal == \A p \in Pushers : push[p].sent \subseteq local

(* A push under way has a repository to write to. *)
PushHasRepo == \A p \in Pushers : push[p].at \in {"pushing", "syncing"} => push[p].repo \in Repos

MirrorInv == MirrorTypeOK /\ TrackingIsKnown /\ SentIsLocal /\ PushHasRepo /\ NoUnseenOverwrite

(* The empty mirror satisfies the invariant. *)
LEMMA MirrorInitHolds == MirrorInit => MirrorInv
BY DEF MirrorInit, MirrorInv, MirrorTypeOK, TrackingIsKnown, SentIsLocal, PushHasRepo,
       NoUnseenOverwrite, NoPush, PushStages

(* Every step of a save, a push, a delivery or a change of the remote keeps the
   invariant, and takes no commit off the local branch. *)
LEMMA MirrorStepHolds ==
    ASSUME MirrorInv, [MirrorNext]_mirrorVars
    PROVE  MirrorInv' /\ local \subseteq local'
<1> USE MirrorAssumption
    DEF MirrorInv, MirrorTypeOK, TrackingIsKnown, SentIsLocal, PushHasRepo, NoUnseenOverwrite,
        NoPush, PushStages
<1>1. ASSUME NEW p \in Pushers, Save(p) PROVE MirrorInv' /\ local \subseteq local'
  BY <1>1 DEF Save
<1>2. ASSUME NEW p \in Pushers, BestEffortMirror(p) PROVE MirrorInv' /\ local \subseteq local'
  BY <1>2 DEF BestEffortMirror
<1>3. ASSUME NEW p \in Pushers, MirrorPush(p) PROVE MirrorInv' /\ local \subseteq local'
  BY <1>3 DEF MirrorPush
<1>4. ASSUME NEW p \in Pushers, PushConnect(p) PROVE MirrorInv' /\ local \subseteq local'
  BY <1>4 DEF PushConnect
<1>5. ASSUME NEW p \in Pushers, PushSend(p) PROVE MirrorInv' /\ local \subseteq local'
  <2> DEFINE accepted == /\ local # push[p].advertised /\ LeaseHolds(p)
                         /\ github[push[p].repo] = push[p].advertised
  <2>1. push[p].repo \in Repos /\ UNCHANGED <<local, tracking, origin, made, seen>>
    BY <1>5 DEF PushSend
  <2>2. \/ push' = [push EXCEPT ![p] = NoPush]
        \/ push' = [push EXCEPT ![p] = [@ EXCEPT !.at = Tracked(p), !.sent = local]]
    BY <1>5 DEF PushSend
  <2>3. /\ push' \in [Pushers -> [at : PushStages, repo : Repos \cup {NoRepo},
                                  advertised : SUBSET Nat, sent : SUBSET Nat]]
        /\ SentIsLocal' /\ PushHasRepo'
    <3>1. Tracked(p) \in {"track", "synctrack"}
      BY DEF Tracked
    <3>2. CASE push' = [push EXCEPT ![p] = NoPush]
      BY <2>1, <3>2
    <3>3. CASE push' = [push EXCEPT ![p] = [@ EXCEPT !.at = Tracked(p), !.sent = local]]
      BY <2>1, <3>1, <3>3
    <3> QED BY <2>2, <3>2, <3>3
  <2>4. CASE UNCHANGED <<github, overwritten>>
    BY <2>1, <2>3, <2>4
  <2>5. CASE /\ accepted /\ github' = [github EXCEPT ![push[p].repo] = local]
             /\ overwritten' = overwritten \cup (github[push[p].repo] \ local)
    <3>1. github[push[p].repo] \subseteq local \cup seen
      BY <2>5 DEF LeaseHolds
    <3> QED BY <2>1, <2>3, <2>5, <3>1
  <2> QED BY <1>5, <2>4, <2>5 DEF PushSend
<1>6. ASSUME NEW p \in Pushers, PushTrack(p) PROVE MirrorInv' /\ local \subseteq local'
  BY <1>6 DEF PushTrack
<1>7. ASSUME NEW r \in Repos, Webhook(r) PROVE MirrorInv' /\ local \subseteq local'
  BY <1>7 DEF Webhook, Fetchable
<1>8. ASSUME NEW r \in Repos, GitHubCommit(r) PROVE MirrorInv' /\ local \subseteq local'
  BY <1>8 DEF GitHubCommit
<1>9. CASE FetchAndUpdate
  BY <1>9 DEF FetchAndUpdate, FastForward
<1>10. ASSUME NEW link \in [repo : Repos, form : Forms] \cup {Unlinked}, SetRemote(link)
       PROVE MirrorInv' /\ local \subseteq local'
  <2>1. link.repo \in Repos \cup {NoRepo}
    BY DEF Unlinked
  <2> QED BY <1>10, <2>1 DEF SetRemote
<1>11. ASSUME NEW v \in {"on", "off"}, AdminPutGitHub(v) PROVE MirrorInv' /\ local \subseteq local'
  BY <1>11 DEF AdminPutGitHub
<1>12. CASE UNCHANGED mirrorVars
  BY <1>12 DEF mirrorVars
<1> QED
  BY <1>1, <1>2, <1>3, <1>4, <1>5, <1>6, <1>7, <1>8, <1>9, <1>10, <1>11, <1>12 DEF MirrorNext

(* Whatever saves, pushes outside the lock, deliveries, changed remotes and cut
   connections come between each other, a push with its lease (pushMirror) removes
   nothing from GitHub that no fetch had brought, and FetchAndUpdate takes no commit
   off the local branch. *)
THEOREM MirrorLosesNothing == MirrorSpec => NothingUnseenLost
<1>1. MirrorInv /\ [MirrorNext]_mirrorVars => MirrorInv' /\ [local \subseteq local']_mirrorVars
  BY MirrorStepHolds
<1>2. MirrorInv => NoUnseenOverwrite
  BY DEF MirrorInv
<1> QED
  BY MirrorInitHolds, <1>1, <1>2, PTL DEF MirrorSpec, NothingUnseenLost, LocalOnlyAdvances

-----------------------------------------------------------------------------
(* Members and settings (SiteMembers) *)

EditStages == {"idle", "upsert", "sole", "getmember", "update", "delete", "settings"}
SettingValues == {"direct", "request", "public", "private"}
SettingsRows == [mode : SettingValues, visibility : SettingValues]
EditRecords ==
    [at : EditStages, target : Members \cup {"nobody"}, newRole : MemberRoles \cup {"none"},
     checked : BOOLEAN, field : {"mode", "visibility"}, value : SettingValues, read : SettingsRows]

MembersTypeOK ==
    /\ memberRole \in [Members -> MemberRoles \cup {"none"}]
    /\ settings \in SettingsRows
    /\ edit \in [Edits -> EditRecords]
    /\ unguarded \in BOOLEAN

(* A change of a member has a member to change. *)
EditHasTarget ==
    \A e \in Edits : edit[e].at \in EditStages \ {"idle", "settings"} => edit[e].target \in Members

(* A check that still stands is right: its target is not the sole owner now. *)
CheckStands == \A e \in Edits : edit[e].checked => Owners # {edit[e].target}

MembersInv == MembersTypeOK /\ EditHasTarget /\ CheckStands /\ OwnerlessOnlyByRace

(* A site begins with its creator as the owner and no request in flight. *)
LEMMA MembersInitHolds == MembersInit => MembersInv
<1> SUFFICES ASSUME MembersInit PROVE MembersInv
  OBVIOUS
<1>1. PICK owner \in Members : memberRole = [u \in Members |-> IF u = owner THEN "owner" ELSE "none"]
  BY DEF MembersInit
<1>2. owner \in Owners
  BY <1>1 DEF Owners
<1>3. NoEdit \in EditRecords /\ NoEdit.at = "idle" /\ ~NoEdit.checked
  BY DEF NoEdit, EditRecords, EditStages, SettingsRows, SettingValues
<1>4. MembersTypeOK
  BY <1>1, <1>3 DEF MembersInit, MembersTypeOK, SettingsRows, SettingValues, MemberRoles
<1>5. EditHasTarget /\ CheckStands
  BY <1>3 DEF MembersInit, EditHasTarget, CheckStands
<1> QED
  BY <1>2, <1>4, <1>5 DEF MembersInv, OwnerlessOnlyByRace

(* The write that ends addMember, updateMemberRole and removeMember keeps the
   invariant: it takes the last owner away only when its check no longer stands. *)
LEMMA MembersWriteHolds ==
    ASSUME MembersInv, NEW e \in Edits, NEW new \in MemberRoles \cup {"none"},
           edit[e].target \in Members, Write(e, new)
    PROVE  MembersInv'
<1> DEFINE u == edit[e].target
<1> USE DEF MembersInv, MembersTypeOK
<1>1. /\ memberRole' = [memberRole EXCEPT ![u] = new]
      /\ unguarded' = (unguarded \/ (memberRole[u] = "owner" /\ new # "owner" /\ ~edit[e].checked))
      /\ edit' = [f \in Edits |-> IF f = e THEN NoEdit ELSE [edit[f] EXCEPT !.checked = FALSE]]
      /\ UNCHANGED <<settings, storeFaults>>
  BY DEF Write
<1>2. MembersTypeOK'
  <2>1. edit' \in [Edits -> EditRecords]
    <3>1. NoEdit \in EditRecords
      BY DEF NoEdit, EditRecords, EditStages, SettingsRows, SettingValues
    <3>2. ASSUME NEW r \in EditRecords PROVE [r EXCEPT !.checked = FALSE] \in EditRecords
      BY DEF EditRecords
    <3> QED BY <1>1, <3>1, <3>2
  <2>2. unguarded' \in BOOLEAN
    BY <1>1, Zenon
  <2>3. memberRole' \in [Members -> MemberRoles \cup {"none"}] /\ settings' \in SettingsRows
    BY <1>1
  <2> QED BY <2>1, <2>2, <2>3
<1>3. EditHasTarget' /\ CheckStands'
  BY <1>1 DEF EditHasTarget, CheckStands, EditRecords, NoEdit, EditStages
<1>4. OwnerlessOnlyByRace'
  <2> SUFFICES ASSUME Owners' = {}, ~unguarded' PROVE FALSE
    BY DEF OwnerlessOnlyByRace
  <2>1. Owners # {}
    BY <1>1 DEF OwnerlessOnlyByRace
  <2>2. \A v \in Owners : v = u
    BY <1>1 DEF Owners
  <2>3. Owners = {u} /\ new # "owner"
    BY <1>1, <2>1, <2>2 DEF Owners
  <2>4. memberRole[u] = "owner"
    BY <2>3 DEF Owners
  <2>5. edit[e].checked
    BY <1>1, <2>3, <2>4
  <2> QED BY <2>3, <2>5 DEF CheckStands
<1> QED BY <1>2, <1>3, <1>4

(* Every step of an owner's request keeps the invariant. *)
LEMMA MembersStepHolds ==
    ASSUME MembersInv, [MembersNext]_membersVars
    PROVE  MembersInv'
<1> USE DEF MembersInv, MembersTypeOK
(* What a step that leaves the members alone has to keep. *)
<1> DEFINE EditsFit ==
      /\ edit' \in [Edits -> EditRecords]
      /\ \A e \in Edits : edit'[e].at \in EditStages \ {"idle", "settings"} => edit'[e].target \in Members
      /\ \A e \in Edits : edit'[e].checked => Owners # {edit'[e].target}
<1>0. ASSUME UNCHANGED <<memberRole, unguarded>>, settings' \in SettingsRows, EditsFit
      PROVE MembersInv'
  <2>1. Owners' = Owners
    BY <1>0 DEF Owners
  <2> QED BY <1>0, <2>1 DEF EditHasTarget, CheckStands, OwnerlessOnlyByRace
<1>1. ASSUME NEW e \in Edits, NEW l \in {"upsert", "sole", "getmember"}, NEW u \in Members,
             NEW r \in MemberRoles \cup {"none"}, Start(e, l, u, r)
      PROVE MembersInv'
  <2>1. EditsFit
    BY <1>1 DEF Start, NoEdit, EditRecords, EditStages, SettingsRows, SettingValues, EditHasTarget, CheckStands
  <2> QED BY <1>0, <1>1, <2>1 DEF Start
<1>2. ASSUME NEW e \in Edits, SoleOwnerCheck(e) PROVE MembersInv'
  <2> DEFINE pass == IF edit[e].newRole = "none" THEN "delete" ELSE "getmember"
  <2>1. pass \in {"delete", "getmember"} /\ edit[e].target \in Members
    BY <1>2 DEF SoleOwnerCheck, EditHasTarget, EditStages
  <2>2. ASSUME edit' = [edit EXCEPT ![e] = NoEdit] PROVE EditsFit
    BY <2>2 DEF NoEdit, EditRecords, EditStages, SettingsRows, SettingValues, EditHasTarget, CheckStands
  <2>3. ASSUME /\ Owners # {edit[e].target}
               /\ edit' = [edit EXCEPT ![e].at = pass, ![e].checked = TRUE]
        PROVE EditsFit
    <3>1. [edit[e] EXCEPT !.at = pass, !.checked = TRUE] \in EditRecords
      BY <2>1 DEF EditRecords, EditStages
    <3>2. edit'[e] = [edit[e] EXCEPT !.at = pass, !.checked = TRUE]
      BY <2>3
    <3>3. edit' \in [Edits -> EditRecords]
      BY <2>3, <3>1, <3>2
    <3>4. edit'[e].target = edit[e].target /\ \A f \in Edits \ {e} : edit'[f] = edit[f]
      BY <2>3, <3>2 DEF EditRecords
    <3> QED BY <2>1, <2>3, <3>3, <3>4 DEF EditHasTarget, CheckStands
  <2>4. ASSUME edit' = [edit EXCEPT ![e].at = pass] PROVE EditsFit
    BY <2>1, <2>4 DEF EditRecords, EditStages, EditHasTarget, CheckStands
  <2>5. EditsFit
    BY <1>2, <2>2, <2>3, <2>4 DEF SoleOwnerCheck, IsSoleOwner
  <2> QED BY <1>0, <1>2, <2>5 DEF SoleOwnerCheck
<1>3. ASSUME NEW e \in Edits, GetMember(e) PROVE MembersInv'
  <2>1. EditsFit
    BY <1>3 DEF GetMember, NoEdit, EditRecords, EditStages, SettingsRows, SettingValues, EditHasTarget, CheckStands
  <2> QED BY <1>0, <1>3, <2>1 DEF GetMember
<1>4. ASSUME NEW e \in Edits, UpsertMember(e) \/ UpdateRow(e) \/ DeleteRow(e) PROVE MembersInv'
  <2>1. edit[e].target \in Members /\ edit[e].newRole \in MemberRoles \cup {"none"}
    BY <1>4 DEF UpsertMember, UpdateRow, DeleteRow, EditHasTarget, EditRecords, EditStages
  <2>2. PICK new \in MemberRoles \cup {"none"} : Write(e, new)
    BY <1>4, <2>1 DEF UpsertMember, UpdateRow, DeleteRow
  <2> QED BY <2>1, <2>2, MembersWriteHolds
<1>5. ASSUME NEW e \in Edits, NEW f \in {"mode", "visibility"}, NEW v \in SettingValues, UpdateSite(e, f, v)
      PROVE MembersInv'
  <2>1. EditsFit
    BY <1>5 DEF UpdateSite, NoEdit, EditRecords, EditStages, SettingsRows, SettingValues, EditHasTarget, CheckStands
  <2> QED BY <1>0, <1>5, <2>1 DEF UpdateSite
<1>6. ASSUME NEW e \in Edits, UpdateSiteSettings(e) PROVE MembersInv'
  <2>1. Merged(e) \in SettingsRows
    <3>1. CASE edit[e].field = "mode"
      BY <3>1 DEF Merged, SettingsRows, EditRecords
    <3>2. CASE edit[e].field = "visibility"
      BY <3>2 DEF Merged, SettingsRows, EditRecords
    <3> QED BY <3>1, <3>2 DEF EditRecords
  <2>2. EditsFit
    BY <1>6 DEF UpdateSiteSettings, NoEdit, EditRecords, EditStages, SettingsRows, SettingValues, EditHasTarget, CheckStands
  <2> QED BY <1>0, <1>6, <2>1, <2>2 DEF UpdateSiteSettings
<1>7. CASE UNCHANGED membersVars
  BY <1>0, <1>7 DEF membersVars, EditHasTarget, CheckStands
<1> QED
  BY <1>1, <1>2, <1>3, <1>4, <1>5, <1>6, <1>7
  DEF SettingValues, MembersNext, AddMember, UpdateMemberRole, RemoveMember

(* However requests of owners interleave between their check, their reads and their
   write, the sole-owner rule of updateMemberRole and removeMember keeps an owner on
   the site unless some check failed, was overtaken or was never made. *)
THEOREM LastOwnerIsGuarded == MembersSpec => []OwnerlessOnlyByRace
<1>1. MembersInv /\ [MembersNext]_membersVars => MembersInv'
  BY MembersStepHolds
<1>2. MembersInv => OwnerlessOnlyByRace
  BY DEF MembersInv
<1> QED
  BY MembersInitHolds, <1>1, <1>2, PTL DEF MembersSpec

-----------------------------------------------------------------------------
(* Access control (SiteAccess) *)

Modes == {"direct", "request"}
Needs == {"read", "write", "publish", "own", "create", "purge", "list"}
CallRecords ==
    [at : {"idle", "site", "role", "handler", "acts"}, via : {"rest", "mcp"}, needs : Needs,
     strict : BOOLEAN, user : People \cup {Nobody}, scopes : SUBSET Scopes, create : BOOLEAN,
     admin : BOOLEAN, mode : Modes, owner : BOOLEAN, unread : BOOLEAN, wasAdmin : BOOLEAN,
     entitled : BOOLEAN, direct : BOOLEAN]
TokenRecords ==
    [state : {"unused", "active", "revoked"}, user : People \cup {Nobody}, scopes : SUBSET Scopes,
     create : BOOLEAN]

AccessTypeOK ==
    /\ role \in [People -> Roles] /\ flags \in [People -> Flags] /\ mode \in Modes
    /\ token \in [Tokens -> TokenRecords]
    /\ \A t \in Tokens : token[t].state = "active" => token[t].user \in People
    /\ call \in [Calls -> CallRecords]

(* What the request's records say of the rights its user has now. *)
NotesCurrent(k, rl, fl, md) ==
    /\ "admin" \in fl[k.user] => k.wasAdmin
    /\ Entitled(k.needs, rl[k.user], fl[k.user], k.wasAdmin) => k.entitled
    /\ MayPublishDirectly(rl[k.user], md, k.wasAdmin) => k.direct

(* What a request carries from one of its reads to the next is covered by rights its
   user had: the administrator's flag, the creation claim, the mode, the admission. *)
ReadsCovered(k) ==
    /\ k.user \in People
    /\ k.admin => k.wasAdmin /\ k.via = "rest"
    /\ k.at \in {"site", "role"} => k.needs \notin Siteless /\ ~k.unread
    /\ k.unread => k.via = "rest" /\ k.wasAdmin
    /\ k.needs = "list" => k.entitled
    /\ k.needs = "create" /\ k.via = "rest" /\ (k.create \/ k.admin) => k.entitled
    /\ k.at \in {"role", "handler"} /\ k.needs \notin Siteless /\ k.mode = "direct" => k.direct
    /\ k.at = "handler" /\ k.needs \notin Siteless =>
          /\ ~k.unread => k.entitled
          /\ k.owner /\ ~k.unread => k.direct
          /\ k.via = "mcp" => k.needs \in k.scopes
    /\ k.at = "acts" =>
          /\ ~k.unread => k.entitled
          /\ k.needs = "publish" /\ ~k.unread => k.direct
          /\ k.via = "mcp" /\ k.needs \notin Siteless => k.needs \in k.scopes

CallFits(k, rl, fl, md) == k.at # "idle" => ReadsCovered(k) /\ NotesCurrent(k, rl, fl, md)

AccessInv == AccessTypeOK /\ \A c \in Calls : CallFits(call[c], role, flags, mode)

(* The note of one request. *)
NotedCall(k, rl, fl, md) ==
    IF k.at = "idle" THEN NoCall
    ELSE LET wasAdmin == k.wasAdmin \/ "admin" \in fl[k.user]
         IN [k EXCEPT !.wasAdmin = wasAdmin,
                      !.entitled = @ \/ Entitled(k.needs, rl[k.user], fl[k.user], wasAdmin),
                      !.direct = @ \/ MayPublishDirectly(rl[k.user], md, wasAdmin)]

(* Noted notes every request by itself. *)
LEMMA NotedEach ==
    ASSUME NEW cl, NEW rl, NEW fl, NEW md
    PROVE  Noted(cl, rl, fl, md) = [c \in Calls |-> NotedCall(cl[c], rl, fl, md)]
BY DEF Noted, NotedCall

(* No request is a request's record. *)
LEMMA NoCallTyped == NoCall \in CallRecords /\ NoCall.at = "idle"
BY DEF NoCall, CallRecords, Needs, Modes, Scopes

(* A note only adds to what was noted before, and is up to date. *)
LEMMA NotedKeeps ==
    ASSUME NEW k \in CallRecords, k.at # "idle", NEW rl, NEW fl, NEW md
    PROVE  LET n == NotedCall(k, rl, fl, md) IN
           /\ n \in CallRecords
           /\ n.at = k.at /\ n.via = k.via /\ n.needs = k.needs /\ n.user = k.user
           /\ n.scopes = k.scopes /\ n.create = k.create /\ n.admin = k.admin
           /\ n.mode = k.mode /\ n.owner = k.owner /\ n.unread = k.unread
           /\ k.wasAdmin => n.wasAdmin
           /\ k.entitled => n.entitled
           /\ k.direct => n.direct
           /\ NotesCurrent(n, rl, fl, md)
<1> DEFINE wasAdmin == k.wasAdmin \/ "admin" \in fl[k.user]
           entitled == k.entitled \/ Entitled(k.needs, rl[k.user], fl[k.user], wasAdmin)
           direct == k.direct \/ MayPublishDirectly(rl[k.user], md, wasAdmin)
           n == NotedCall(k, rl, fl, md)
<1>1. n = [k EXCEPT !.wasAdmin = wasAdmin, !.entitled = entitled, !.direct = direct]
  BY DEF NotedCall, CallRecords
<1>2. wasAdmin \in BOOLEAN /\ entitled \in BOOLEAN /\ direct \in BOOLEAN
  BY Zenon
<1> HIDE DEF wasAdmin, entitled, direct
<1>3. n \in CallRecords /\ n.wasAdmin = wasAdmin /\ n.entitled = entitled /\ n.direct = direct
  BY <1>1, <1>2 DEF CallRecords
<1>4. /\ n.at = k.at /\ n.via = k.via /\ n.needs = k.needs /\ n.user = k.user
      /\ n.scopes = k.scopes /\ n.create = k.create /\ n.admin = k.admin
      /\ n.mode = k.mode /\ n.owner = k.owner /\ n.unread = k.unread
  BY <1>1 DEF CallRecords
<1>5. (k.wasAdmin => wasAdmin) /\ (k.entitled => entitled) /\ (k.direct => direct)
  BY DEF wasAdmin, entitled, direct
<1>6. NotesCurrent(n, rl, fl, md)
  BY <1>3, <1>4 DEF NotesCurrent, wasAdmin, entitled, direct
<1> QED BY <1>3, <1>4, <1>5, <1>6

(* A change of roles, flags or mode that every request notes keeps them all fitting. *)
LEMMA NotedFits ==
    ASSUME NEW k \in CallRecords, k.at # "idle" => ReadsCovered(k), NEW rl, NEW fl, NEW md
    PROVE  /\ NotedCall(k, rl, fl, md) \in CallRecords
           /\ CallFits(NotedCall(k, rl, fl, md), rl, fl, md)
<1>1. CASE k.at = "idle"
  BY <1>1, NoCallTyped DEF NotedCall, CallFits
<1>2. CASE k.at # "idle"
  <2> DEFINE n == NotedCall(k, rl, fl, md)
  <2>1. /\ n \in CallRecords
        /\ n.at = k.at /\ n.via = k.via /\ n.needs = k.needs /\ n.user = k.user
        /\ n.scopes = k.scopes /\ n.create = k.create /\ n.admin = k.admin
        /\ n.mode = k.mode /\ n.owner = k.owner /\ n.unread = k.unread
        /\ k.wasAdmin => n.wasAdmin
        /\ k.entitled => n.entitled
        /\ k.direct => n.direct
        /\ NotesCurrent(n, rl, fl, md)
    BY <1>2, NotedKeeps
  <2> HIDE DEF n
  <2>2. ReadsCovered(n)
    BY <1>2, <2>1 DEF ReadsCovered
  <2> QED BY <2>1, <2>2 DEF CallFits, n
<1> QED BY <1>1, <1>2

(* A request that has just arrived fits: what authentication read is noted at once. *)
LEMMA ArrivedFits ==
    ASSUME NEW k \in CallRecords, NEW rl, NEW fl, NEW md,
           k.at = IF k.needs \in Siteless THEN "handler" ELSE "site",
           k.user \in People, ~k.unread,
           k.admin => k.via = "rest" /\ "admin" \in fl[k.user],
           k.via = "rest" /\ k.create => "create" \in fl[k.user]
    PROVE  /\ NotedCall(k, rl, fl, md) \in CallRecords
           /\ CallFits(NotedCall(k, rl, fl, md), rl, fl, md)
<1> DEFINE n == NotedCall(k, rl, fl, md)
<1>1. /\ n \in CallRecords
      /\ n.at = k.at /\ n.via = k.via /\ n.needs = k.needs /\ n.user = k.user
      /\ n.create = k.create /\ n.admin = k.admin /\ n.unread = k.unread
      /\ NotesCurrent(n, rl, fl, md)
  BY NotedKeeps
<1> HIDE DEF n
<1>2. n.needs = "create" /\ n.via = "rest" /\ (n.create \/ n.admin) => n.entitled
  <2> SUFFICES ASSUME n.needs = "create", n.via = "rest", n.create \/ n.admin PROVE n.entitled
    OBVIOUS
  <2>1. fl[n.user] # {}
    BY <1>1
  <2> QED BY <1>1, <2>1 DEF NotesCurrent, Entitled
<1>3. n.needs = "list" => n.entitled
  BY <1>1 DEF NotesCurrent, Entitled
<1>4. ReadsCovered(n)
  BY <1>1, <1>2, <1>3 DEF ReadsCovered, NotesCurrent
<1> QED BY <1>1, <1>4 DEF CallFits, n

(* What a tool or a handler needs is one of the rights. *)
LEMMA OperationNeeds == \A op \in AllTools \cup ApiHandlers : op.needs \in Needs
<1>1. \A op \in AllTools : op.needs \in Needs
  BY DEF AllTools, Needs, Reads, Writes, ListsOwn, ToolListSites, ToolListFiles, ToolReadFile, ToolWriteFile, ToolSave,
         ToolPublish, ToolGetDiff, ToolGetLog, ToolRollback, ToolCreateBranch, ToolCreateSite
<1>2. \A op \in ApiHandlers : op.needs \in Needs
  BY DEF ApiHandlers, Needs, Reads, Writes, Owns, ListsOwn, ApiListSites, ApiCreateSite, ApiGetSite, ApiUpdateSite,
         ApiDeleteSite, ApiRenameSite, ApiMirrorSite, ApiListMembers, ApiAddMember, ApiUpdateMember,
         ApiRemoveMember, ApiListBranches, ApiCreateBranch, ApiDeleteBranch, ApiPreviewGrant,
         ApiListFiles, ApiReadFile, ApiWriteFile, ApiDeleteFile, ApiImportZip, ApiCommit, ApiGetLog,
         ApiGetDiff, ApiRollback, ApiPublish, ApiPurgeCache
<1> QED BY <1>1, <1>2

(* A role that admits a request, over MCP with the token's scopes or over REST with
   the administrator's override, is one the dashboard would admit. *)
LEMMA AdmissionIsEntitled ==
    ASSUME NEW k \in CallRecords, NEW rl \in [People -> Roles], NEW fl, NEW md \in Modes,
           k.user \in People, k.needs \notin Siteless, k.admin => k.wasAdmin,
           NotesCurrent(k, rl, fl, md), NEW r,
           \/ r = rl[k.user] /\ k.needs \in IntersectScopes(k.scopes, r)
           \/ r = EffectiveRole(rl[k.user], k.admin) /\ RoleAllows(r, k.needs)
    PROVE  k.entitled /\ (r = "owner" => k.direct)
<1> DEFINE q == rl[k.user]
           e == EffectiveRole(q, k.wasAdmin)
<1>1. q \in Roles /\ k.needs \in Needs
  BY DEF CallRecords
<1>2. RoleAllows(e, k.needs)
  <2>1. CASE r = q /\ k.needs \in IntersectScopes(k.scopes, r)
    <3>1. k.needs \in Scopes /\ r \in {"owner", "editor", "viewer"} /\ (r = "viewer" => k.needs = "read")
      BY <1>1, <2>1 DEF IntersectScopes, RoleScopes, Roles, CallRecords, Scopes
    <3>2. e = r
      BY <2>1, <3>1 DEF EffectiveRole
    <3> QED BY <3>1, <3>2 DEF RoleAllows, RoleRank, MinRankFor, Scopes
  <2>2. CASE r = EffectiveRole(q, k.admin) /\ RoleAllows(r, k.needs)
    <3>1. CASE q # "none"
      BY <2>2, <3>1 DEF EffectiveRole
    <3>2. CASE q = "none" /\ k.admin
      BY <2>2, <3>2 DEF EffectiveRole
    <3>3. CASE q = "none" /\ ~k.admin
      BY <1>1, <2>2, <3>3 DEF EffectiveRole, RoleAllows, RoleRank, MinRankFor, Needs
    <3> QED BY <3>1, <3>2, <3>3
  <2> QED BY <2>1, <2>2
<1>3. k.entitled
  BY <1>2 DEF NotesCurrent, Entitled, Siteless
<1>4. ASSUME r = "owner" PROVE k.direct
  <2>1. e = "owner"
    BY <1>4 DEF EffectiveRole
  <2> QED BY <2>1 DEF NotesCurrent, MayPublishDirectly
<1> QED BY <1>3, <1>4

(* At first there is no request. *)
LEMMA AccessInitHolds == AccessInit => AccessInv
<1> SUFFICES ASSUME AccessInit PROVE AccessInv
  OBVIOUS
<1>1. token \in [Tokens -> TokenRecords] /\ \A t \in Tokens : token[t].state # "active"
  BY DEF AccessInit, NoToken, TokenRecords, Scopes
<1>2. call \in [Calls -> CallRecords] /\ \A c \in Calls : call[c].at = "idle"
  BY NoCallTyped DEF AccessInit
<1> QED BY <1>1, <1>2 DEF AccessInit, AccessInv, AccessTypeOK, CallFits, Modes

(* A request that arrives over either entrance keeps the invariant. *)
LEMMA ArrivesHolds ==
    ASSUME AccessInv, NEW c \in Calls, NEW op \in AllTools \cup ApiHandlers, NEW cl \in CallRecords,
           Arrives(c, op, cl), cl.user \in People, ~cl.unread,
           cl.admin => cl.via = "rest" /\ "admin" \in flags[cl.user],
           cl.via = "rest" /\ cl.create => "create" \in flags[cl.user]
    PROVE  AccessInv'
<1> DEFINE k == [cl EXCEPT !.at = IF op.needs \in Siteless THEN "handler" ELSE "site",
                           !.needs = op.needs, !.strict = op.refuses # {}]
<1>1. op.needs \in Needs /\ (op.refuses # {}) \in BOOLEAN
  BY OperationNeeds
<1>2. /\ k \in CallRecords
      /\ k.at = IF k.needs \in Siteless THEN "handler" ELSE "site"
      /\ k.user = cl.user /\ k.unread = cl.unread /\ k.admin = cl.admin /\ k.via = cl.via /\ k.create = cl.create
  BY <1>1 DEF CallRecords
<1>3. call' = Noted([call EXCEPT ![c] = k], role, flags, mode)
  BY DEF Arrives
<1> HIDE DEF k
<1>4. \A d \in Calls : call'[d] = NotedCall(IF d = c THEN k ELSE call[d], role, flags, mode)
  BY <1>3, NotedEach DEF AccessInv, AccessTypeOK
<1>5. UNCHANGED <<role, flags, mode, live, token>>
  BY DEF Arrives
<1>6. ASSUME NEW d \in Calls
      PROVE  call'[d] \in CallRecords /\ CallFits(call'[d], role, flags, mode)
  <2>1. CASE d = c
    BY <1>2, <1>4, <2>1, ArrivedFits
  <2>2. CASE d # c
    BY <1>4, <2>2, NotedFits DEF AccessInv, AccessTypeOK, CallFits
  <2> QED BY <2>1, <2>2
<1>7. call' \in [Calls -> CallRecords]
  BY <1>3, <1>6, NotedEach
<1> QED BY <1>5, <1>6, <1>7 DEF AccessInv, AccessTypeOK

(* A step of one request that leaves the rest alone keeps the invariant when the
   request's new record fits. *)
LEMMA OneCallHolds ==
    ASSUME AccessInv, NEW c \in Calls, NEW k \in CallRecords, CallFits(k, role, flags, mode),
           call' = [call EXCEPT ![c] = k], UNCHANGED <<role, flags, mode, live, token>>
    PROVE  AccessInv'
BY DEF AccessInv, AccessTypeOK

(* Every step of a request, and every change of roles, flags, mode or tokens that
   happens between two of its steps, keeps the invariant. *)
LEMMA AccessStepHolds ==
    ASSUME AccessInv, [AccessNext]_accessVars
    PROVE  AccessInv'
<1>1. ASSUME role' \in [People -> Roles], flags' \in [People -> Flags], mode' \in Modes,
             call' = Noted(call, role', flags', mode'), UNCHANGED token
      PROVE  AccessInv'
  <2>1. \A c \in Calls : call'[c] = NotedCall(call[c], role', flags', mode')
    BY <1>1, NotedEach
  <2>2. \A c \in Calls : call'[c] \in CallRecords /\ CallFits(call'[c], role', flags', mode')
    BY <2>1, NotedFits DEF AccessInv, AccessTypeOK, CallFits
  <2>3. call' \in [Calls -> CallRecords]
    BY <1>1, <2>2, NotedEach
  <2> QED BY <1>1, <2>2, <2>3 DEF AccessInv, AccessTypeOK
<1>2. ASSUME NEW u \in People, NEW r \in Roles, SetRole(u, r) PROVE AccessInv'
  BY <1>1, <1>2 DEF SetRole, AccessInv, AccessTypeOK
<1>3. ASSUME NEW u \in People, NEW f \in Flags, SetFlags(u, f) PROVE AccessInv'
  BY <1>1, <1>3 DEF SetFlags, AccessInv, AccessTypeOK
<1>4. CASE SetMode
  BY <1>1, <1>4 DEF SetMode, AccessInv, AccessTypeOK, Modes
<1>5. CASE SiteDeleted
  BY <1>5 DEF SiteDeleted, AccessInv, AccessTypeOK
<1>6. ASSUME NEW u \in People, NEW t \in Tokens, NEW scopes \in TokenScopes, CreateToken(u, t, scopes)
      PROVE AccessInv'
  <2>1. scopes \in SUBSET Scopes
    BY AccessAssumption
  <2>2. CappedCreate(u) \in BOOLEAN
    BY DEF CappedCreate
  <2>3. token' \in [Tokens -> TokenRecords]
        /\ \A x \in Tokens : token'[x].state = "active" => token'[x].user \in People
    BY <1>6, <2>1, <2>2 DEF CreateToken, TokenRecords, AccessInv, AccessTypeOK
  <2> QED BY <1>6, <2>3 DEF CreateToken, AccessInv, AccessTypeOK
<1>7. ASSUME NEW t \in Tokens, RevokeToken(t) PROVE AccessInv'
  BY <1>7 DEF RevokeToken, TokenRecords, AccessInv, AccessTypeOK
<1>8. ASSUME NEW c \in Calls, NEW t \in Tokens, NEW op \in AllTools, Verify(c, t, op) PROVE AccessInv'
  <2> DEFINE create == token[t].create /\ "create" \in flags[token[t].user]
             cl == [NoCall EXCEPT !.via = "mcp", !.user = token[t].user, !.scopes = token[t].scopes,
                                  !.create = create]
  <2>1. token[t].user \in People /\ token[t].scopes \in SUBSET Scopes
    BY <1>8 DEF Verify, Accepted, AccessInv, AccessTypeOK, TokenRecords
  <2>2. create \in BOOLEAN
    BY Zenon
  <2>3. Arrives(c, op, cl)
    BY <1>8 DEF Verify
  <2> HIDE DEF create
  <2>4. cl \in CallRecords /\ cl.via = "mcp" /\ cl.user \in People /\ ~cl.admin /\ ~cl.unread
    BY <2>1, <2>2, NoCallTyped DEF CallRecords, NoCall
  <2> HIDE DEF cl
  <2> QED BY <2>3, <2>4, ArrivesHolds
<1>9. ASSUME NEW c \in Calls, NEW u \in People, NEW op \in ApiHandlers, SessionAuth(c, u, op)
      PROVE AccessInv'
  <2> DEFINE create == "create" \in flags[u]
             admin == "admin" \in flags[u]
             cl == [NoCall EXCEPT !.user = u, !.create = create, !.admin = admin]
  <2>1. create \in BOOLEAN /\ admin \in BOOLEAN
    OBVIOUS
  <2>2. Arrives(c, op, cl)
    BY <1>9 DEF SessionAuth
  <2> HIDE DEF create, admin
  <2>3. cl \in CallRecords /\ cl.via = "rest" /\ cl.user = u /\ cl.admin = admin /\ cl.create = create
        /\ ~cl.unread
    BY <2>1, NoCallTyped DEF CallRecords, NoCall
  <2> HIDE DEF cl
  <2>4. (cl.admin => "admin" \in flags[cl.user]) /\ (cl.create => "create" \in flags[cl.user])
    BY <2>3 DEF admin, create
  <2> QED BY <2>2, <2>3, <2>4, ArrivesHolds
<1>10. ASSUME NEW c \in Calls, Ends(c), UNCHANGED <<role, flags, mode, live, token>> PROVE AccessInv'
  BY <1>10, NoCallTyped, OneCallHolds DEF Ends, CallFits
<1>11. ASSUME NEW c \in Calls, LoadSite(c) PROVE AccessInv'
  <2>1. CASE Ends(c)
    BY <1>10, <1>11, <2>1 DEF LoadSite
  <2>2. CASE call' = [call EXCEPT ![c].at = "role", ![c].mode = mode]
    <3> DEFINE k == [call[c] EXCEPT !.at = "role", !.mode = mode]
    <3>1. call[c] \in CallRecords /\ ReadsCovered(call[c]) /\ NotesCurrent(call[c], role, flags, mode)
          /\ call[c].at = "site" /\ mode \in Modes
      BY <1>11 DEF LoadSite, AccessInv, AccessTypeOK, CallFits
    <3>2. /\ k \in CallRecords /\ k.at = "role" /\ k.mode = mode
          /\ k.via = call[c].via /\ k.needs = call[c].needs /\ k.user = call[c].user
          /\ k.create = call[c].create /\ k.admin = call[c].admin /\ k.unread = call[c].unread
          /\ k.wasAdmin = call[c].wasAdmin /\ k.entitled = call[c].entitled /\ k.direct = call[c].direct
      BY <3>1 DEF CallRecords
    <3>3. call' = [call EXCEPT ![c] = k]
      BY <2>2 DEF AccessInv, AccessTypeOK
    <3> HIDE DEF k
    <3>4. NotesCurrent(k, role, flags, mode)
      BY <3>1, <3>2 DEF NotesCurrent
    <3>5. ReadsCovered(k)
      BY <3>1, <3>2, <3>4 DEF ReadsCovered, NotesCurrent, MayPublishDirectly
    <3> QED BY <1>11, <3>2, <3>3, <3>4, <3>5, OneCallHolds DEF LoadSite, CallFits
  <2> QED BY <1>11, <2>1, <2>2 DEF LoadSite
<1>12. ASSUME NEW c \in Calls, NEW r, Admitted(c, r), call[c].at = "role",
              \/ /\ r = role[call[c].user]
                 /\ call[c].needs \in IntersectScopes(call[c].scopes, r)
              \/ /\ r = EffectiveRole(role[call[c].user], call[c].admin) /\ call[c].via = "rest"
                 /\ RoleAllows(r, call[c].needs),
              UNCHANGED <<role, flags, mode, live, token>>
       PROVE  AccessInv'
  <2> DEFINE owner == r = "owner"
             k == [call[c] EXCEPT !.at = "handler", !.owner = owner]
  <2>1. /\ call[c] \in CallRecords /\ ReadsCovered(call[c]) /\ NotesCurrent(call[c], role, flags, mode)
        /\ mode \in Modes /\ role \in [People -> Roles]
    BY <1>12 DEF AccessInv, AccessTypeOK, CallFits
  <2>2. call[c].entitled /\ (r = "owner" => call[c].direct)
    <3>1. call[c].user \in People /\ call[c].needs \notin Siteless /\ (call[c].admin => call[c].wasAdmin)
      BY <1>12, <2>1 DEF ReadsCovered
    <3> QED BY <1>12, <2>1, <3>1, AdmissionIsEntitled
  <2>3. call[c].via = "mcp" => call[c].needs \in call[c].scopes
    BY <1>12 DEF IntersectScopes
  <2>4. owner \in BOOLEAN
    BY Zenon
  <2>5. call' = [call EXCEPT ![c] = k]
    BY <1>12 DEF Admitted, AccessInv, AccessTypeOK
  <2> HIDE DEF owner
  <2>6. /\ k \in CallRecords /\ k.at = "handler" /\ k.owner = owner /\ k.mode = call[c].mode
        /\ k.via = call[c].via /\ k.needs = call[c].needs /\ k.user = call[c].user
        /\ k.create = call[c].create /\ k.admin = call[c].admin /\ k.scopes = call[c].scopes
          /\ k.unread = call[c].unread
        /\ k.wasAdmin = call[c].wasAdmin /\ k.entitled = call[c].entitled /\ k.direct = call[c].direct
    BY <2>1, <2>4 DEF CallRecords
  <2> HIDE DEF k
  <2>7. NotesCurrent(k, role, flags, mode)
    BY <2>1, <2>6 DEF NotesCurrent
  <2>8. ReadsCovered(k)
    BY <1>12, <2>1, <2>2, <2>3, <2>6 DEF ReadsCovered, owner
  <2> QED BY <1>12, <2>5, <2>6, <2>7, <2>8, OneCallHolds DEF CallFits
<1>13. ASSUME NEW c \in Calls, AuthorizeSite(c) PROVE AccessInv'
  BY <1>10, <1>12, <1>13 DEF AuthorizeSite
<1>14. ASSUME NEW c \in Calls, ResolveAccess(c) PROVE AccessInv'
  BY <1>10, <1>12, <1>14 DEF ResolveAccess
<1>15. ASSUME NEW c \in Calls, Handler(c) PROVE AccessInv'
  <2>1. CASE Ends(c)
    BY <1>10, <1>15, <2>1 DEF Handler
  <2>2. CASE ModeGate(c) /\ CreateGate(c) /\ call' = [call EXCEPT ![c].at = "acts"]
    <3> DEFINE k == [call[c] EXCEPT !.at = "acts"]
    <3>1. /\ call[c] \in CallRecords /\ ReadsCovered(call[c])
          /\ NotesCurrent(call[c], role, flags, mode) /\ call[c].at = "handler"
      BY <1>15 DEF Handler, AccessInv, AccessTypeOK, CallFits
    <3>2. /\ k \in CallRecords /\ k.at = "acts" /\ k.owner = call[c].owner /\ k.mode = call[c].mode
          /\ k.via = call[c].via /\ k.needs = call[c].needs /\ k.user = call[c].user
          /\ k.create = call[c].create /\ k.admin = call[c].admin /\ k.scopes = call[c].scopes
          /\ k.unread = call[c].unread
          /\ k.wasAdmin = call[c].wasAdmin /\ k.entitled = call[c].entitled /\ k.direct = call[c].direct
      BY <3>1 DEF CallRecords
    <3>3. call' = [call EXCEPT ![c] = k]
      BY <2>2 DEF AccessInv, AccessTypeOK
    <3> HIDE DEF k
    <3>4. NotesCurrent(k, role, flags, mode)
      BY <3>1, <3>2 DEF NotesCurrent
    <3>5. ~call[c].unread => call[c].entitled
      <4>1. CASE call[c].needs # "create"
        BY <3>1, <4>1 DEF ReadsCovered, Siteless
      <4>2. CASE call[c].needs = "create" /\ call[c].via = "rest"
        BY <2>2, <3>1, <4>2 DEF ReadsCovered, CreateGate
      <4>3. CASE call[c].needs = "create" /\ call[c].via = "mcp"
        BY <2>2, <3>1, <4>3 DEF NotesCurrent, Entitled, CreateGate
      <4> QED BY <3>1, <4>1, <4>2, <4>3 DEF CallRecords
    <3>6. call[c].needs = "publish" /\ ~call[c].unread => call[c].direct
      BY <2>2, <3>1 DEF ReadsCovered, ModeGate, Siteless
    <3>7. ReadsCovered(k)
      BY <3>1, <3>2, <3>5, <3>6 DEF ReadsCovered
    <3> QED BY <1>15, <3>2, <3>3, <3>4, <3>7, OneCallHolds DEF Handler, CallFits
  <2> QED BY <1>15, <2>1, <2>2 DEF Handler
<1>16. ASSUME NEW c \in Calls, Act(c) PROVE AccessInv'
  BY <1>10, <1>16 DEF Act
<1>17. ASSUME NEW c \in Calls, RoleUnread(c) PROVE AccessInv'
  <2>1. CASE Ends(c)
    BY <1>10, <1>17, <2>1 DEF RoleUnread
  <2>2. CASE call[c].admin
             /\ call' = [call EXCEPT ![c].at = "handler", ![c].owner = TRUE, ![c].unread = TRUE]
    <3> DEFINE k == [call[c] EXCEPT !.at = "handler", !.owner = TRUE, !.unread = TRUE]
    <3>1. /\ call[c] \in CallRecords /\ ReadsCovered(call[c]) /\ call[c].via = "rest"
          /\ NotesCurrent(call[c], role, flags, mode) /\ call[c].at = "role"
      BY <1>17 DEF RoleUnread, AccessInv, AccessTypeOK, CallFits
    <3>2. /\ k \in CallRecords /\ k.at = "handler" /\ k.unread /\ k.mode = call[c].mode
          /\ k.via = call[c].via /\ k.needs = call[c].needs /\ k.user = call[c].user
          /\ k.create = call[c].create /\ k.admin = call[c].admin /\ k.scopes = call[c].scopes
          /\ k.wasAdmin = call[c].wasAdmin /\ k.entitled = call[c].entitled /\ k.direct = call[c].direct
      BY <3>1 DEF CallRecords
    <3>3. call' = [call EXCEPT ![c] = k]
      BY <2>2 DEF AccessInv, AccessTypeOK
    <3> HIDE DEF k
    <3>4. NotesCurrent(k, role, flags, mode)
      BY <3>1, <3>2 DEF NotesCurrent
    <3>5. ReadsCovered(k)
      BY <2>2, <3>1, <3>2 DEF ReadsCovered
    <3> QED BY <1>17, <3>2, <3>3, <3>4, <3>5, OneCallHolds DEF RoleUnread, CallFits
  <2> QED BY <1>17, <2>1, <2>2 DEF RoleUnread
<1>18. CASE UNCHANGED accessVars
  BY <1>18 DEF accessVars, AccessInv, AccessTypeOK
<1> QED
  BY <1>2, <1>3, <1>4, <1>5, <1>6, <1>7, <1>8, <1>9, <1>11, <1>13, <1>14, <1>15, <1>16, <1>17, <1>18
  DEF AccessNext

(* For every number of people, requests and tokens: whatever changes between the reads
   of a request, over REST (resolveAccess) as over MCP (authorizeSite), it acts only
   within rights its user had since it was authenticated, a token within its scopes
   on every site, and, when the membership could not be read, only for one who was an
   administrator. *)
THEOREM RequestsActWithinRights == AccessSpec => []ActsWithinRights
<1>1. AccessInv /\ [AccessNext]_accessVars => AccessInv'
  BY AccessStepHolds
<1>2. AccessInv => ActsWithinRights
  BY DEF AccessInv, ActsWithinRights, CallFits, ReadsCovered
<1> QED
  BY AccessInitHolds, <1>1, <1>2, PTL DEF AccessSpec

-----------------------------------------------------------------------------
(* The name space (SiteRegistry) *)

Names == Handles \cup {NoHandle}
RowRecords == [state : {"none", "live", "deleted", "purged"}, handle : Names]
RqRecords ==
    [at : {"idle", "insert", "check", "rename"}, site : Sites \cup {NoSite}, old : Names, new : Names,
     stale : BOOLEAN]

RegistryTypeOK ==
    /\ rows \in [Sites -> RowRecords]
    /\ rq \in [RegistryRequests -> RqRecords]
    /\ bore \in [Sites -> SUBSET Names]
    /\ staleWrite \in BOOLEAN

(* The UNIQUE constraint: no two rows of the table have the same handle. *)
RowsUnique == \A s, t \in InTable : rows[s].handle = rows[t].handle => s = t

(* What a request whose checks nothing has overtaken knows of the registry. *)
ChecksHold ==
    \A r \in RegistryRequests : ~rq[r].stale =>
        /\ rq[r].at = "insert" => rq[r].new \notin DOMAIN redirects
        /\ rq[r].at \in {"check", "rename"} =>
              /\ rq[r].site \in Live /\ rows[rq[r].site].handle = rq[r].old
              /\ rq[r].old # rq[r].new
        /\ rq[r].at = "rename" /\ rq[r].new \in DOMAIN redirects => redirects[rq[r].new] = rq[r].site

(* A request in flight works on a site. *)
RenamesASite == \A r \in RegistryRequests : rq[r].at \in {"check", "rename"} => rq[r].site \in Sites

(* As long as nobody has written on an overtaken check, no live handle is a redirect,
   and a former handle of a live site is a redirect to it. *)
NoShadowing == ~staleWrite => \A s \in Live : rows[s].handle \notin DOMAIN redirects
FormerAreRedirects ==
    ~staleWrite => \A s \in Live : \A h \in bore[s] :
        h = rows[s].handle \/ (h \in DOMAIN redirects /\ redirects[h] = s)

RegistryInv ==
    RegistryTypeOK /\ RowsUnique /\ RenamesASite /\ ChecksHold /\ NoShadowing /\ FormerAreRedirects

(* An empty registry satisfies the invariant. *)
LEMMA RegistryInitHolds == RegistryInit => RegistryInv
<1> SUFFICES ASSUME RegistryInit PROVE RegistryInv
  OBVIOUS
<1>1. Live = {} /\ InTable = {}
  BY DEF RegistryInit, Live, InTable
<1>2. RegistryTypeOK
  BY DEF RegistryInit, RegistryTypeOK, RowRecords, RqRecords, IdleRq, Names
<1>3. RenamesASite /\ ChecksHold
  BY DEF RegistryInit, RenamesASite, ChecksHold, IdleRq
<1> QED BY <1>1, <1>2, <1>3 DEF RegistryInv, RowsUnique, NoShadowing, FormerAreRedirects

(* The record of a request once another has written: stale unless idle. *)
Overtaken(q) == [rq[q] EXCEPT !.stale = rq[q].at # "idle"]

(* An overtaken record is a request's record that trusts its checks only when idle. *)
LEMMA OvertakenFits ==
    ASSUME RegistryTypeOK, NEW q \in RegistryRequests
    PROVE  /\ Overtaken(q) \in RqRecords
           /\ Overtaken(q).at = rq[q].at /\ Overtaken(q).site = rq[q].site
           /\ ~Overtaken(q).stale => Overtaken(q).at = "idle"
<1> DEFINE stale == rq[q].at # "idle"
<1>1. stale \in BOOLEAN
  OBVIOUS
<1>2. Overtaken(q) = [rq[q] EXCEPT !.stale = stale]
  BY DEF Overtaken
<1> HIDE DEF stale
<1>3. Overtaken(q) \in RqRecords /\ Overtaken(q).stale = stale
      /\ Overtaken(q).at = rq[q].at /\ Overtaken(q).site = rq[q].site
  BY <1>1, <1>2 DEF RegistryTypeOK, RqRecords
<1> QED BY <1>3 DEF stale

(* After a write no other request holds a check that it takes for good. *)
LEMMA OvertakenHolds ==
    ASSUME RegistryTypeOK, RenamesASite, NEW S \in SUBSET RegistryRequests,
           rq' = [q \in RegistryRequests |-> IF q \in S THEN IdleRq ELSE Overtaken(q)]
    PROVE  rq' \in [RegistryRequests -> RqRecords] /\ RenamesASite' /\ ChecksHold'
<1>1. IdleRq \in RqRecords /\ IdleRq.at = "idle"
  BY DEF IdleRq, RqRecords, Names
<1>2. \A q \in RegistryRequests :
         /\ rq'[q] \in RqRecords
         /\ rq'[q].at \in {"check", "rename"} => rq'[q].site \in Sites
         /\ ~rq'[q].stale => rq'[q].at = "idle"
  BY <1>1, OvertakenFits DEF RenamesASite
<1> QED BY <1>2 DEF RenamesASite, ChecksHold

(* A step that writes no table keeps the invariant when the request's record fits. *)
LEMMA RequestHolds ==
    ASSUME RegistryInv, NEW r \in RegistryRequests, NEW k \in RqRecords,
           rq' = [rq EXCEPT ![r] = k],
           UNCHANGED <<rows, redirects, bore, staleWrite>>,
           k.at \in {"check", "rename"} => k.site \in Sites,
           ~k.stale =>
              /\ k.at = "insert" => k.new \notin DOMAIN redirects
              /\ k.at \in {"check", "rename"} =>
                    k.site \in Live /\ rows[k.site].handle = k.old /\ k.old # k.new
              /\ k.at = "rename" /\ k.new \in DOMAIN redirects => redirects[k.new] = k.site
    PROVE  RegistryInv'
<1>1. Live' = Live /\ InTable' = InTable
  BY DEF Live, InTable
<1>2. rq' \in [RegistryRequests -> RqRecords] /\ RenamesASite'
  BY DEF RegistryInv, RegistryTypeOK, RenamesASite
<1>3. ChecksHold'
  BY <1>1 DEF RegistryInv, RegistryTypeOK, ChecksHold
<1> QED
  BY <1>1, <1>2, <1>3 DEF RegistryInv, RegistryTypeOK, RowsUnique, NoShadowing, FormerAreRedirects

(* A request that ends without a write keeps the invariant. *)
LEMMA RequestEnds ==
    ASSUME RegistryInv, NEW r \in RegistryRequests, rq' = [rq EXCEPT ![r] = IdleRq],
           UNCHANGED <<rows, redirects, bore, staleWrite>>
    PROVE  RegistryInv'
<1>1. IdleRq \in RqRecords /\ IdleRq.at = "idle"
  BY DEF IdleRq, RqRecords, Names
<1> QED BY <1>1, RequestHolds

(* CreateSiteWithOwner keeps the invariant: a handle that was free at the check, and
   that nothing has touched since, is nobody's former handle. *)
LEMMA CreateHolds ==
    ASSUME RegistryInv, NEW r \in RegistryRequests, NEW s \in Sites, CreateSiteWithOwner(r, s)
    PROVE  RegistryInv'
<1> DEFINE h == rq[r].new
<1>1. h \in Names /\ rows[s].state = "none" /\ s \notin InTable /\ s \notin Live
  BY DEF CreateSiteWithOwner, RegistryInv, RegistryTypeOK, RqRecords, InTable, Live
<1>2. CASE UniqueViolation(s, h)
  BY <1>2, RequestEnds DEF CreateSiteWithOwner
<1>3. ASSUME NEW state \in {"live", "deleted"}, ~UniqueViolation(s, h),
             rows' = [rows EXCEPT ![s] = [state |-> state, handle |-> h]], Finish(r), UNCHANGED redirects,
             \/ state = "live" /\ bore' = [bore EXCEPT ![s] = {h}] /\ staleWrite' = (staleWrite \/ rq[r].stale)
             \/ state = "deleted" /\ UNCHANGED <<bore, staleWrite>>
      PROVE  RegistryInv'
  <2>1. rq' \in [RegistryRequests -> RqRecords] /\ RenamesASite' /\ ChecksHold'
    <3>1. rq' = [q \in RegistryRequests |-> IF q \in {r} THEN IdleRq ELSE Overtaken(q)]
      BY <1>3 DEF Finish, Overtaken
    <3> QED BY <3>1, OvertakenHolds DEF RegistryInv
  <2>2. rows' \in [Sites -> RowRecords]
        /\ rows'[s].state = state /\ rows'[s].handle = h /\ \A t \in Sites \ {s} : rows'[t] = rows[t]
    BY <1>1, <1>3 DEF RegistryInv, RegistryTypeOK, RowRecords
  <2>3. InTable' = InTable \cup {s} /\ Live' = IF state = "live" THEN Live \cup {s} ELSE Live
    BY <1>1, <1>3, <2>2 DEF InTable, Live
  <2>4. RowsUnique'
    BY <1>1, <1>3, <2>2, <2>3 DEF RegistryInv, RowsUnique, UniqueViolation, InTable
  <2>5. bore' \in [Sites -> SUBSET Names] /\ staleWrite' \in BOOLEAN
        /\ (~staleWrite' => ~staleWrite) /\ (state = "live" /\ ~staleWrite' => ~rq[r].stale)
        /\ \A t \in Sites \ {s} : bore'[t] = bore[t]
    BY <1>1, <1>3 DEF RegistryInv, RegistryTypeOK, RqRecords
  <2>6. NoShadowing' /\ FormerAreRedirects'
    <3> SUFFICES ASSUME ~staleWrite'
                 PROVE  \A t \in Live' :
                           /\ rows'[t].handle \notin DOMAIN redirects'
                           /\ \A g \in bore'[t] : g = rows'[t].handle
                                 \/ (g \in DOMAIN redirects' /\ redirects'[g] = t)
      BY DEF NoShadowing, FormerAreRedirects
    <3>1. ASSUME state = "live"
          PROVE  h \notin DOMAIN redirects /\ bore'[s] = {h}
      BY <1>3, <2>5, <3>1 DEF RegistryInv, RegistryTypeOK, ChecksHold, CreateSiteWithOwner
    <3>2. \A t \in Live : rows'[t] = rows[t] /\ bore'[t] = bore[t] /\ t \in Sites
      BY <1>1, <2>2, <2>5 DEF Live
    <3> QED
      BY <1>3, <2>2, <2>3, <2>5, <3>1, <3>2 DEF RegistryInv, NoShadowing, FormerAreRedirects
  <2> QED BY <2>1, <2>2, <2>4, <2>5, <2>6 DEF RegistryInv, RegistryTypeOK
<1>4. CASE ~UniqueViolation(s, h)
  BY <1>3, <1>4 DEF CreateSiteWithOwner
<1> QED BY <1>2, <1>4

(* RenameHandleWithRedirect keeps the invariant: the old handle becomes a redirect
   that overwrites none, the new one stops being one. *)
LEMMA RenameHolds ==
    ASSUME RegistryInv, NEW r \in RegistryRequests, RenameHandleWithRedirect(r)
    PROVE  RegistryInv'
<1> DEFINE s == rq[r].site
           old == rq[r].old
           new == rq[r].new
<1>1. s \in Sites /\ old \in Names /\ new \in Names
  BY DEF RenameHandleWithRedirect, RegistryInv, RegistryTypeOK, RenamesASite, RqRecords
<1>2. CASE UniqueViolation(s, new) \/ s \notin InTable
  BY <1>2, RequestEnds DEF RenameHandleWithRedirect
<1>3. CASE ~UniqueViolation(s, new) /\ s \in InTable
  <2>0. /\ redirects' = RedirectsAfter(r) /\ rows' = [rows EXCEPT ![s].handle = new]
        /\ bore' = [bore EXCEPT ![s] = @ \cup {new}]
        /\ staleWrite' = (staleWrite \/ rq[r].stale)
        /\ Finish(r) /\ rq[r].at = "rename"
    BY <1>3 DEF RenameHandleWithRedirect
  <2>1. rq' \in [RegistryRequests -> RqRecords] /\ RenamesASite' /\ ChecksHold'
    <3>1. rq' = [q \in RegistryRequests |-> IF q \in {r} THEN IdleRq ELSE Overtaken(q)]
      BY <2>0 DEF Finish, Overtaken
    <3> QED BY <3>1, OvertakenHolds DEF RegistryInv
  <2>2. rows' \in [Sites -> RowRecords]
        /\ rows'[s].state = rows[s].state /\ rows'[s].handle = new
        /\ \A t \in Sites \ {s} : rows'[t] = rows[t]
    BY <1>1, <2>0 DEF RegistryInv, RegistryTypeOK, RowRecords
  <2>3. InTable' = InTable /\ Live' = Live
    BY <2>2 DEF InTable, Live
  <2>4. RowsUnique'
    BY <1>1, <1>3, <2>2, <2>3 DEF RegistryInv, RowsUnique, UniqueViolation, InTable
  <2>5. bore' \in [Sites -> SUBSET Names] /\ staleWrite' \in BOOLEAN
        /\ (~staleWrite' => ~staleWrite /\ ~rq[r].stale)
        /\ bore'[s] = bore[s] \cup {new} /\ \A t \in Sites \ {s} : bore'[t] = bore[t]
    BY <1>1, <2>0 DEF RegistryInv, RegistryTypeOK, RqRecords
  <2>6. NoShadowing' /\ FormerAreRedirects'
    <3> SUFFICES ASSUME ~staleWrite'
                 PROVE  \A t \in Live :
                           /\ rows'[t].handle \notin DOMAIN redirects'
                           /\ \A g \in bore'[t] : g = rows'[t].handle
                                 \/ (g \in DOMAIN redirects' /\ redirects'[g] = t)
      BY <2>3 DEF NoShadowing, FormerAreRedirects
    <3>1. /\ s \in Live /\ rows[s].handle = old /\ old # new
          /\ new \in DOMAIN redirects => redirects[new] = s
      BY <2>0, <2>5 DEF RegistryInv, ChecksHold
    <3>2. DOMAIN redirects' = (DOMAIN redirects \ {new}) \cup {old}
      BY <2>0, <3>1 DEF RedirectsAfter
    <3>3. redirects'[old] = s /\ \A g \in DOMAIN redirects \ {old, new} : redirects'[g] = redirects[g]
      BY <2>0, <3>1 DEF RedirectsAfter
    <3>4. old \notin DOMAIN redirects
      BY <2>5, <3>1 DEF RegistryInv, NoShadowing
    <3>5. ASSUME NEW t \in Live, t # s
          PROVE  rows'[t] = rows[t] /\ bore'[t] = bore[t] /\ rows[t].handle # old
      BY <2>2, <2>5, <3>1, <3>5 DEF RegistryInv, RowsUnique, Live, InTable
    <3>6. ASSUME NEW t \in Live
          PROVE  /\ rows[t].handle \notin DOMAIN redirects
                 /\ \A g \in bore[t] : g = rows[t].handle \/ (g \in DOMAIN redirects /\ redirects[g] = t)
      BY <2>5 DEF RegistryInv, NoShadowing, FormerAreRedirects
    <3>7. ASSUME NEW t \in Live, t # s
          PROVE  /\ rows'[t].handle \notin DOMAIN redirects'
                 /\ \A g \in bore'[t] : g = rows'[t].handle
                       \/ (g \in DOMAIN redirects' /\ redirects'[g] = t)
      BY <3>1, <3>2, <3>3, <3>4, <3>5, <3>6, <3>7
    <3>8. /\ rows'[s].handle \notin DOMAIN redirects'
          /\ \A g \in bore'[s] : g = rows'[s].handle
                \/ (g \in DOMAIN redirects' /\ redirects'[g] = s)
      BY <2>2, <2>5, <3>1, <3>2, <3>3, <3>4, <3>6
    <3> QED BY <3>7, <3>8
  <2> QED BY <2>1, <2>2, <2>4, <2>5, <2>6 DEF RegistryInv, RegistryTypeOK
<1> QED BY <1>2, <1>3

(* Deleting a site, or purging a deleted one with its redirects, keeps the invariant. *)
LEMMA DeleteHolds ==
    ASSUME RegistryInv, NEW s \in Sites, SoftDeleteSite(s) \/ HardDeleteSite(s)
    PROVE  RegistryInv'
<1>1. rq' \in [RegistryRequests -> RqRecords] /\ RenamesASite' /\ ChecksHold'
  <2>1. rq' = [q \in RegistryRequests |-> IF q \in {} THEN IdleRq ELSE Overtaken(q)]
    BY DEF SoftDeleteSite, HardDeleteSite, Overtaken
  <2>2. {} \in SUBSET RegistryRequests
    OBVIOUS
  <2> QED BY <2>1, <2>2, OvertakenHolds DEF RegistryInv
<1>2. rows' \in [Sites -> RowRecords]
      /\ rows'[s].state \in {"deleted", "purged"} /\ rows'[s].handle = rows[s].handle
      /\ \A t \in Sites \ {s} : rows'[t] = rows[t]
  <2>1. PICK state \in {"deleted", "purged"} : rows' = [rows EXCEPT ![s].state = state]
    BY DEF SoftDeleteSite, HardDeleteSite
  <2> QED BY <2>1 DEF RegistryInv, RegistryTypeOK, RowRecords
<1>3. InTable' \subseteq InTable /\ Live' \subseteq Live /\ s \notin Live'
  BY <1>2 DEF SoftDeleteSite, HardDeleteSite, InTable, Live
<1>4. UNCHANGED <<bore, staleWrite>>
  BY DEF SoftDeleteSite, HardDeleteSite
<1>5. DOMAIN redirects' \subseteq DOMAIN redirects
      /\ \A h \in DOMAIN redirects : redirects[h] # s => h \in DOMAIN redirects' /\ redirects'[h] = redirects[h]
  BY DEF SoftDeleteSite, HardDeleteSite
<1>6. RowsUnique'
  BY <1>2, <1>3 DEF RegistryInv, RowsUnique, InTable
<1>7. \A t \in Live' : t \in Live /\ t # s /\ rows'[t] = rows[t]
  BY <1>2, <1>3 DEF Live
<1>8. NoShadowing' /\ FormerAreRedirects'
  BY <1>4, <1>5, <1>7 DEF RegistryInv, NoShadowing, FormerAreRedirects
<1> QED BY <1>1, <1>2, <1>4, <1>6, <1>8 DEF RegistryInv, RegistryTypeOK

(* Every step of the registry keeps the invariant. *)
LEMMA RegistryStepHolds ==
    ASSUME RegistryInv, [RegistryNext]_registryVars
    PROVE  RegistryInv'
<1>1. ASSUME NEW r \in RegistryRequests, NEW h \in Handles, CreateSite(r, h) PROVE RegistryInv'
  <2> DEFINE k == [IdleRq EXCEPT !.at = "insert", !.new = h]
  <2>1. k \in RqRecords /\ k.at = "insert" /\ k.new = h
    BY DEF IdleRq, RqRecords, Names
  <2>2. h \notin DOMAIN redirects
    BY <1>1 DEF CreateSite, HandleIsTaken
  <2>3. rq' = [rq EXCEPT ![r] = k] /\ UNCHANGED <<rows, redirects, bore, staleWrite>>
    BY <1>1 DEF CreateSite
  <2> HIDE DEF k
  <2> QED BY <2>1, <2>2, <2>3, RequestHolds
<1>2. ASSUME NEW r \in RegistryRequests, NEW s \in Sites, NEW h \in Handles, RenameHandle(r, s, h)
      PROVE RegistryInv'
  <2> DEFINE k == [IdleRq EXCEPT !.at = "check", !.site = s, !.old = rows[s].handle, !.new = h]
  <2>1. k \in RqRecords /\ k.at = "check" /\ k.site = s /\ k.old = rows[s].handle /\ k.new = h
    BY DEF IdleRq, RqRecords, Names, RegistryInv, RegistryTypeOK, RowRecords
  <2>2. s \in Live /\ rows[s].handle # h
    BY <1>2 DEF RenameHandle
  <2>3. rq' = [rq EXCEPT ![r] = k] /\ UNCHANGED <<rows, redirects, bore, staleWrite>>
    BY <1>2 DEF RenameHandle
  <2> HIDE DEF k
  <2> QED BY <2>1, <2>2, <2>3, RequestHolds
<1>3. ASSUME NEW r \in RegistryRequests, CheckNewHandle(r) PROVE RegistryInv'
  <2>1. CASE ~HandleIsTaken(rq[r].new) \/ OwnRedirect(r)
    <3> DEFINE k == [rq[r] EXCEPT !.at = "rename"]
    <3>1. /\ k \in RqRecords /\ k.at = "rename" /\ k.site = rq[r].site /\ k.old = rq[r].old
          /\ k.new = rq[r].new /\ k.stale = rq[r].stale
      BY DEF RegistryInv, RegistryTypeOK, RqRecords
    <3>2. k.site \in Sites
      BY <1>3, <3>1 DEF CheckNewHandle, RegistryInv, RenamesASite
    <3>3. k.new \in DOMAIN redirects => redirects[k.new] = k.site
      BY <2>1, <3>1, <3>2, RegistryAssumption DEF HandleIsTaken, OwnRedirect, GetSiteByRedirect
    <3>4. ~k.stale => k.site \in Live /\ rows[k.site].handle = k.old /\ k.old # k.new
      BY <1>3, <3>1 DEF CheckNewHandle, RegistryInv, ChecksHold
    <3>5. rq' = [rq EXCEPT ![r] = k] /\ UNCHANGED <<rows, redirects, bore, staleWrite>>
      BY <1>3, <2>1 DEF CheckNewHandle, RegistryInv, RegistryTypeOK
    <3> HIDE DEF k
    <3> QED BY <3>1, <3>2, <3>3, <3>4, <3>5, RequestHolds
  <2>2. CASE ~(~HandleIsTaken(rq[r].new) \/ OwnRedirect(r))
    BY <1>3, <2>2, RequestEnds DEF CheckNewHandle
  <2> QED BY <2>1, <2>2
<1>4. CASE UNCHANGED registryVars
  <2>1. Live' = Live /\ InTable' = InTable
    BY <1>4 DEF registryVars, Live, InTable
  <2> QED
    BY <1>4, <2>1 DEF registryVars, RegistryInv, RegistryTypeOK, RowsUnique, RenamesASite, ChecksHold,
                      NoShadowing, FormerAreRedirects
<1> QED
  BY <1>1, <1>2, <1>3, <1>4, CreateHolds, RenameHolds, DeleteHolds DEF RegistryNext

(* For every number of sites, handles and requests: as long as no request has written
   on a check another one overtook (HandleIsTaken and the write that follows it), every
   handle a live site was acknowledged under leads to it. *)
THEOREM LinksKeepWorking == RegistrySpec => []FormerHandlesLead
<1>1. RegistryInv /\ [RegistryNext]_registryVars => RegistryInv'
  BY RegistryStepHolds
<1>2. RegistryInv => FormerHandlesLead
  <2> SUFFICES ASSUME RegistryInv, ~staleWrite, NEW s \in Live, NEW h \in bore[s]
               PROVE  Lookup(h) = s
    BY DEF FormerHandlesLead
  <2>1. s # NoSite /\ s \in InTable /\ \A t \in Live : t \in InTable
    BY RegistryAssumption DEF Live, InTable
  <2>2. CASE h = rows[s].handle
    <3>1. \A t \in Live : rows[t].handle = h => t = s
      BY <2>1, <2>2 DEF RegistryInv, RowsUnique
    <3>2. GetSiteByHandle(h) = s
      BY <2>2, <3>1 DEF GetSiteByHandle
    <3> QED BY <2>1, <3>2 DEF Lookup
  <2>3. CASE h \in DOMAIN redirects /\ redirects[h] = s
    <3>1. \A t \in Live : rows[t].handle # h
      BY <2>3 DEF RegistryInv, NoShadowing
    <3>2. GetSiteByHandle(h) = NoSite /\ GetSiteByRedirect(h) = s
      BY <2>3, <3>1 DEF GetSiteByHandle, GetSiteByRedirect
    <3> QED BY <3>2 DEF Lookup
  <2> QED BY <2>2, <2>3 DEF RegistryInv, FormerAreRedirects
<1> QED
  BY RegistryInitHolds, <1>1, <1>2, PTL DEF RegistrySpec

-----------------------------------------------------------------------------
(* Reading the history (HistoryReads) *)

(* Every commit's parents are older commits. *)
GraphOK(ps) ==
    /\ ps \in Seq(Seq(Nat))
    /\ \A c \in 1..Len(ps) : \A i \in 1..Len(ps[c]) : ps[c][i] \in 1..(c - 1)

AncRule(f, ps) ==
    f = [c \in Nat |-> IF c \notin DOMAIN ps THEN {} ELSE {c} \cup UNION {f[p] : p \in Range(ps[c])}]
AncestorsIn(ps) == CHOOSE f : AncRule(f, ps)
LinearIn(ps, c) == \A a \in AncestorsIn(ps)[c] : Len(ps[a]) <= 1

(* The parents of a commit. *)
LEMMA ParentsAreOlder ==
    ASSUME NEW ps, GraphOK(ps)
    PROVE  /\ Len(ps) \in Nat /\ DOMAIN ps = 1..Len(ps)
           /\ \A c \in 1..Len(ps) :
                 /\ ps[c] \in Seq(Nat) /\ Len(ps[c]) \in Nat
                 /\ Range(ps[c]) = {ps[c][i] : i \in 1..Len(ps[c])}
                 /\ Range(ps[c]) \subseteq 1..(c - 1) /\ Range(ps[c]) \subseteq 1..Len(ps)
<1>1. ps \in Seq(Seq(Nat))
  BY DEF GraphOK
<1>2. ASSUME NEW S, NEW s \in Seq(S)
      PROVE  Len(s) \in Nat /\ DOMAIN s = 1..Len(s) /\ (\A i \in 1..Len(s) : s[i] \in S) /\ Range(s) = {s[i] : i \in 1..Len(s)}
  BY DEF Range
<1>3. Len(ps) \in Nat /\ DOMAIN ps = 1..Len(ps) /\ \A c \in 1..Len(ps) : ps[c] \in Seq(Nat)
  BY <1>1, <1>2
<1>4. ASSUME NEW c \in 1..Len(ps)
      PROVE  /\ ps[c] \in Seq(Nat) /\ Len(ps[c]) \in Nat
             /\ Range(ps[c]) = {ps[c][i] : i \in 1..Len(ps[c])}
             /\ Range(ps[c]) \subseteq 1..(c - 1) /\ Range(ps[c]) \subseteq 1..Len(ps)
  <2>1. ps[c] \in Seq(Nat)
    BY <1>3
  <2>2. Len(ps[c]) \in Nat /\ Range(ps[c]) = {ps[c][i] : i \in 1..Len(ps[c])}
    BY <1>2, <2>1
  <2>3. Range(ps[c]) \subseteq 1..(c - 1)
    BY <2>2 DEF GraphOK
  <2>4. 1..(c - 1) \subseteq 1..Len(ps)
    BY <1>3
  <2> QED BY <2>1, <2>2, <2>3, <2>4
<1> QED BY <1>3, <1>4

(* Ancestry is defined: it is what every set closed under parents contains. *)
LEMMA AncestryExists ==
    ASSUME NEW ps, GraphOK(ps)
    PROVE  AncRule(AncestorsIn(ps), ps)
<1>1. DOMAIN ps = 1..Len(ps) /\ Len(ps) \in Nat /\ \A c \in DOMAIN ps : Range(ps[c]) \subseteq DOMAIN ps
  BY ParentsAreOlder
<1> DEFINE D == DOMAIN ps
           Closed(T) == \A y \in T : Range(ps[y]) \subseteq T
           Reached(c) == {x \in D : \A T \in SUBSET D : c \in T /\ Closed(T) => x \in T}
           f == [c \in Nat |-> IF c \notin D THEN {} ELSE Reached(c)]
<1>2. D \subseteq Nat
  BY <1>1
<1>3. ASSUME NEW c \in D
      PROVE  Reached(c) = {c} \cup UNION {Reached(p) : p \in Range(ps[c])}
  <2> DEFINE U == {c} \cup UNION {Reached(p) : p \in Range(ps[c])}
  <2>1. ASSUME NEW x \in D, NEW y \in Reached(x) PROVE Range(ps[y]) \subseteq Reached(x)
    BY <1>1, <2>1
  <2>2. ASSUME NEW x \in D PROVE x \in Reached(x)
    OBVIOUS
  <2>3. U \in SUBSET D
    BY <1>3
  <2>4. Closed(U)
    <3> SUFFICES ASSUME NEW y \in U, NEW z \in Range(ps[y]) PROVE z \in U
      OBVIOUS
    <3>1. CASE y = c
      <4>1. z \in D
        BY <1>1, <1>3, <3>1
      <4>2. z \in Reached(z)
        BY <2>2, <4>1
      <4> HIDE DEF Reached
      <4> QED BY <3>1, <4>2
    <3>2. CASE y # c
      <4> HIDE DEF Reached
      <4>1. PICK p \in Range(ps[c]) : y \in Reached(p)
        BY <3>2
      <4>2. p \in D
        BY <1>1, <1>3
      <4>3. z \in Reached(p)
        BY <2>1, <4>1, <4>2
      <4> QED BY <4>3
    <3> QED BY <3>1, <3>2
  <2>5. Reached(c) \subseteq U
    <3> HIDE DEF U
    <3>1. c \in U
      BY DEF U
    <3> QED BY <2>3, <2>4, <3>1
  <2>6. c \in Reached(c)
    BY <1>3, <2>2
  <2>7. ASSUME NEW p \in Range(ps[c]), NEW x \in Reached(p) PROVE x \in Reached(c)
    <3>1. ASSUME NEW T \in SUBSET D, c \in T, Closed(T) PROVE x \in T
      <4>1. p \in T
        BY <3>1
      <4> QED BY <2>7, <3>1, <4>1
    <3> QED BY <2>7, <3>1
  <2>8. U \subseteq Reached(c)
    <3> HIDE DEF Reached
    <3> QED BY <2>6, <2>7
  <2> QED BY <2>5, <2>8
<1>4. ASSUME NEW c \in Nat
      PROVE  f[c] = IF c \notin D THEN {} ELSE {c} \cup UNION {f[p] : p \in Range(ps[c])}
  <2>1. CASE c \notin D
    BY <2>1
  <2>2. CASE c \in D
    <3>1. f[c] = Reached(c) /\ \A p \in Range(ps[c]) : f[p] = Reached(p)
      BY <1>1, <1>2, <2>2
    <3> HIDE DEF Reached, f
    <3>2. {f[p] : p \in Range(ps[c])} = {Reached(p) : p \in Range(ps[c])}
      BY <3>1
    <3> QED BY <1>3, <2>2, <3>1, <3>2
  <2> QED BY <2>1, <2>2
<1>5. AncRule(f, ps)
  <2>1. f = [c \in Nat |-> f[c]]
    OBVIOUS
  <2> HIDE DEF f
  <2> QED BY <1>4, <2>1 DEF AncRule
<1> QED BY <1>5 DEF AncestorsIn

(* A commit's ancestors are itself and its parents' ancestors, none of them newer. *)
LEMMA AncestryFacts ==
    ASSUME NEW ps, GraphOK(ps)
    PROVE  /\ AncestorsIn(ps)[0] = {}
           /\ \A c \in 1..Len(ps) :
                 /\ AncestorsIn(ps)[c] = {c} \cup UNION {AncestorsIn(ps)[p] : p \in Range(ps[c])}
                 /\ AncestorsIn(ps)[c] \subseteq 1..c
<1>1. PICK f : f = AncestorsIn(ps) /\ AncRule(f, ps)
  BY AncestryExists
<1>2. Len(ps) \in Nat /\ DOMAIN ps = 1..Len(ps) /\ \A c \in 1..Len(ps) : Range(ps[c]) \subseteq 1..(c - 1)
  BY ParentsAreOlder
<1>3. f[0] = {}
  BY <1>1, <1>2 DEF AncRule
<1>4. ASSUME NEW c \in 1..Len(ps) PROVE f[c] = {c} \cup UNION {f[p] : p \in Range(ps[c])}
  <2>1. c \in Nat /\ c \in DOMAIN ps
    BY <1>2
  <2> QED BY <1>1, <2>1 DEF AncRule
<1> DEFINE Newer == {c \in 1..Len(ps) : ~(f[c] \subseteq 1..c)}
<1>5. Newer = {}
  <2> SUFFICES ASSUME Newer # {} PROVE FALSE
    OBVIOUS
  <2>1. Newer \in SUBSET Nat
    BY <1>2
  <2> HIDE DEF Newer
  <2>2. PICK c \in Newer : \A d \in Newer : c <= d
    BY <2>1, LeastNumber
  <2> USE DEF Newer
  <2>3. c \in 1..Len(ps) /\ ~(f[c] \subseteq 1..c)
    OBVIOUS
  <2>4. ASSUME NEW p \in Range(ps[c]) PROVE f[p] \subseteq 1..c
    <3>1. p \in 1..(c - 1) /\ p \in 1..Len(ps)
      BY <1>2, <2>3
    <3>2. p \notin Newer
      BY <1>2, <2>2, <2>3, <3>1
    <3>3. f[p] \subseteq 1..p
      BY <3>1, <3>2
    <3>4. 1..p \subseteq 1..c
      BY <1>2, <2>3, <3>1
    <3> QED BY <3>3, <3>4
  <2>5. f[c] \subseteq 1..c
    <3>1. c \in 1..c
      BY <1>2, <2>3
    <3> QED BY <1>4, <2>3, <2>4, <3>1
  <2> QED BY <2>3, <2>5
<1> QED BY <1>1, <1>3, <1>4, <1>5

(* What is committed later does not change the ancestry of what is there. *)
LEMMA AncestryStays ==
    ASSUME NEW ps, GraphOK(ps), NEW qs, GraphOK(qs), Len(ps) <= Len(qs), \A c \in 1..Len(ps) : qs[c] = ps[c]
    PROVE  \A c \in 1..Len(ps) : AncestorsIn(qs)[c] = AncestorsIn(ps)[c] /\ (LinearIn(qs, c) => LinearIn(ps, c))
<1>1. PICK f, g : f = AncestorsIn(ps) /\ g = AncestorsIn(qs)
  OBVIOUS
<1>2. /\ Len(ps) \in Nat /\ Len(qs) \in Nat
      /\ \A c \in 1..Len(ps) : Range(ps[c]) \subseteq 1..(c - 1) /\ Range(ps[c]) \subseteq 1..Len(ps)
  BY ParentsAreOlder
<1>3. \A c \in 1..Len(ps) : f[c] = {c} \cup UNION {f[p] : p \in Range(ps[c])} /\ f[c] \subseteq 1..c
  BY <1>1, AncestryFacts
<1>4. \A c \in 1..Len(qs) : g[c] = {c} \cup UNION {g[p] : p \in Range(qs[c])}
  BY <1>1, AncestryFacts
<1> DEFINE Differ == {c \in 1..Len(ps) : g[c] # f[c]}
<1>5. Differ = {}
  <2> SUFFICES ASSUME Differ # {} PROVE FALSE
    OBVIOUS
  <2>1. Differ \in SUBSET Nat
    BY <1>2
  <2> HIDE DEF Differ
  <2>2. PICK c \in Differ : \A d \in Differ : c <= d
    BY <2>1, LeastNumber
  <2> USE DEF Differ
  <2>3. c \in 1..Len(ps) /\ c \in 1..Len(qs) /\ g[c] # f[c] /\ qs[c] = ps[c]
    BY <1>2
  <2>4. ASSUME NEW p \in Range(ps[c]) PROVE g[p] = f[p]
    <3>1. p \in 1..(c - 1) /\ p \in 1..Len(ps)
      BY <1>2, <2>3
    <3>2. p \notin Differ
      BY <1>2, <2>2, <2>3, <3>1
    <3> QED BY <3>1, <3>2
  <2>5. {g[p] : p \in Range(qs[c])} = {f[p] : p \in Range(ps[c])}
    BY <2>3, <2>4
  <2> QED BY <1>3, <1>4, <2>3, <2>5
<1>6. ASSUME NEW c \in 1..Len(ps), LinearIn(qs, c) PROVE LinearIn(ps, c)
  <2>1. \A a \in f[c] : a \in 1..Len(ps) /\ a \in g[c]
    BY <1>2, <1>3, <1>5
  <2> QED BY <1>1, <1>6, <2>1 DEF LinearIn
<1> QED BY <1>1, <1>5, <1>6

(* Where a history is linear, what is older than one of its commits is the history of
   that commit's parent. *)
LEMMA LinearIsChain ==
    ASSUME NEW ps, GraphOK(ps), NEW c \in 1..Len(ps), LinearIn(ps, c), NEW a \in AncestorsIn(ps)[c]
    PROVE  {x \in AncestorsIn(ps)[c] : x < a} = IF ps[a] = << >> THEN {} ELSE AncestorsIn(ps)[Head(ps[a])]
<1>1. PICK f : f = AncestorsIn(ps)
  OBVIOUS
<1>2. /\ Len(ps) \in Nat
      /\ \A d \in 1..Len(ps) :
            /\ ps[d] \in Seq(Nat) /\ Len(ps[d]) \in Nat /\ Range(ps[d]) = {ps[d][i] : i \in 1..Len(ps[d])}
            /\ Range(ps[d]) \subseteq 1..(d - 1) /\ Range(ps[d]) \subseteq 1..Len(ps)
  BY ParentsAreOlder
<1>3. \A d \in 1..Len(ps) : f[d] = {d} \cup UNION {f[p] : p \in Range(ps[d])} /\ f[d] \subseteq 1..d
  BY <1>1, AncestryFacts
<1> DEFINE Older(b) == IF ps[b] = << >> THEN {} ELSE f[Head(ps[b])]
           Linear1(d) == \A b \in f[d] : Len(ps[b]) <= 1
           Bad == {d \in 1..Len(ps) : Linear1(d) /\ \E b \in f[d] : {x \in f[d] : x < b} # Older(b)}
<1>4. ASSUME NEW d \in 1..Len(ps), Linear1(d)
      PROVE  /\ f[d] = {d} \cup Older(d)
             /\ ps[d] # << >> => Head(ps[d]) \in 1..(d - 1) /\ Head(ps[d]) \in 1..Len(ps)
  <2>1. d \in f[d]
    BY <1>3
  <2>2. Len(ps[d]) <= 1 /\ ps[d] \in Seq(Nat) /\ Len(ps[d]) \in Nat
    BY <1>2, <1>4, <2>1
  <2>3. CASE ps[d] = << >>
    <3>1. Range(ps[d]) = {}
      BY <2>3 DEF Range
    <3> QED BY <1>3, <2>3, <3>1
  <2>4. CASE ps[d] # << >>
    <3>1. PICK q \in Seq(Nat) : q = ps[d] /\ Len(q) <= 1 /\ q # << >>
      BY <2>2, <2>4
    <3>2. Len(q) = 1 /\ Head(q) = q[1] /\ DOMAIN q = {1}
      <4>1. Len(q) \in Nat /\ DOMAIN q = 1..Len(q) /\ Head(q) = q[1]
        BY <3>1
      <4>2. Len(q) # 0
        BY <3>1
      <4>3. PICK m : m = Len(q) /\ m \in Nat /\ m <= 1 /\ m # 0
        BY <3>1, <4>1, <4>2
      <4>4. m = 1
        BY <4>3
      <4> QED BY <4>1, <4>3, <4>4
    <3>3. Range(ps[d]) = {Head(ps[d])}
      BY <3>1, <3>2 DEF Range
    <3>4. f[d] = {d} \cup f[Head(ps[d])]
      BY <1>3, <3>3
    <3> QED BY <1>2, <2>4, <3>3, <3>4
  <2> QED BY <2>3, <2>4
<1>5. Bad = {}
  <2> SUFFICES ASSUME Bad # {} PROVE FALSE
    OBVIOUS
  <2>1. Bad \in SUBSET Nat
    BY <1>2
  <2> HIDE DEF Bad
  <2>2. PICK d \in Bad : \A e \in Bad : d <= e
    BY <2>1, LeastNumber
  <2>3. d \in 1..Len(ps) /\ Linear1(d)
    BY DEF Bad
  <2>4. PICK b \in f[d] : {x \in f[d] : x < b} # Older(b)
    BY DEF Bad
  <2>5. f[d] = {d} \cup Older(d) /\ (ps[d] # << >> => Head(ps[d]) \in 1..(d - 1) /\ Head(ps[d]) \in 1..Len(ps))
    BY <1>4, <2>3
  <2>6. Older(d) \subseteq 1..(d - 1)
    <3>1. CASE ps[d] = << >>
      BY <3>1
    <3>2. CASE ps[d] # << >>
      <4>1. PICK h : h = Head(ps[d]) /\ h \in 1..(d - 1) /\ h \in 1..Len(ps)
        BY <2>5, <3>2
      <4>2. f[h] \subseteq 1..h
        BY <1>3, <4>1
      <4>3. 1..h \subseteq 1..(d - 1)
        BY <1>2, <2>3, <4>1
      <4> QED BY <3>2, <4>1, <4>2, <4>3
    <3> QED BY <3>1, <3>2
  <2>7. d \in Nat /\ \A x \in Older(d) : x \in Nat /\ x < d
    BY <1>2, <2>3, <2>6
  <2>8. b # d
    <3> SUFFICES ASSUME b = d PROVE FALSE
      OBVIOUS
    <3>1. {x \in f[d] : x < d} = Older(d)
      <4> HIDE DEF Older
      <4> QED BY <2>5, <2>7
    <3> QED BY <2>4, <3>1
  <2>9. b \in Older(d) /\ ps[d] # << >>
    BY <2>4, <2>5, <2>8
  <2>10. PICK h : h = Head(ps[d]) /\ h \in 1..(d - 1) /\ h \in 1..Len(ps) /\ Older(d) = f[h]
    BY <2>5, <2>9
  <2>11. Linear1(h) /\ b \in f[h]
    BY <2>3, <2>5, <2>9, <2>10
  <2>12. h \notin Bad
    BY <1>2, <2>2, <2>3, <2>10
  <2>13. {x \in f[h] : x < b} = Older(b)
    BY <2>10, <2>11, <2>12 DEF Bad
  <2>14. {x \in f[d] : x < b} = {x \in f[h] : x < b}
    <3>1. b \in Nat /\ b < d
      BY <2>7, <2>9
    <3>2. f[d] = {d} \cup f[h]
      BY <2>5, <2>10
    <3> QED BY <2>7, <3>1, <3>2
  <2> QED BY <2>4, <2>13, <2>14
<1>6. Linear1(c)
  BY <1>1 DEF LinearIn
<1> QED BY <1>1, <1>5, <1>6

(* s lists S, newest first. *)
Lists(s, S) ==
    /\ s \in Seq(Nat)
    /\ \A i, j \in 1..Len(s) : i < j => s[i] > s[j]
    /\ {s[i] : i \in 1..Len(s)} = S

(* What a list is made of. *)
LEMMA ListOf ==
    ASSUME NEW s, NEW S, Lists(s, S)
    PROVE  /\ Len(s) \in Nat /\ DOMAIN s = 1..Len(s) /\ s = [i \in 1..Len(s) |-> s[i]]
           /\ (\A i \in 1..Len(s) : s[i] \in Nat /\ s[i] \in S) /\ S \subseteq Nat
           /\ \A x \in S : \E i \in 1..Len(s) : x = s[i]
<1>1. s \in Seq(Nat) /\ {s[i] : i \in 1..Len(s)} = S
  BY DEF Lists
<1>2. Len(s) \in Nat /\ DOMAIN s = 1..Len(s) /\ s = [i \in 1..Len(s) |-> s[i]] /\ \A i \in 1..Len(s) : s[i] \in Nat
  BY <1>1
<1> QED BY <1>1, <1>2

(* There are as many commits from the newest to the i-th as i. *)
LEMMA ListedUpTo ==
    ASSUME NEW s, NEW S, Lists(s, S), NEW i \in 0..Len(s)
    PROVE  IsFiniteSet({s[j] : j \in 1..i}) /\ Cardinality({s[j] : j \in 1..i}) = i
<1> DEFINE T == {s[j] : j \in 1..i}
           f == [j \in 1..i |-> s[j]]
<1>1. Len(s) \in Nat /\ \A j \in 1..Len(s) : s[j] \in Nat
  BY ListOf
<1>2. i \in Nat /\ 1..i \subseteq 1..Len(s)
  BY <1>1
<1>3. \A a, b \in 1..i : a # b => s[a] # s[b]
  <2> SUFFICES ASSUME NEW a \in 1..i, NEW b \in 1..i, a # b PROVE s[a] # s[b]
    OBVIOUS
  <2>1. a \in 1..Len(s) /\ b \in 1..Len(s)
    BY <1>2
  <2>2. a < b \/ b < a
    BY <1>2
  <2>3. s[a] > s[b] \/ s[b] > s[a]
    BY <2>1, <2>2 DEF Lists
  <2>4. PICK x, y : x = s[a] /\ y = s[b] /\ x \in Nat /\ y \in Nat
    BY <1>1, <2>1
  <2>5. x > y \/ y > x
    BY <2>3, <2>4
  <2>6. x # y
    BY <2>4, <2>5
  <2> QED BY <2>4, <2>6
<1>4. f \in Bijection(1..i, T)
  BY <1>3 DEF Bijection, Injection, Surjection, IsInjective
<1>5. IsFiniteSet(1..i) /\ Cardinality(1..i) = i
  BY <1>2, FS_Interval
<1>6. ExistsBijection(1..i, T)
  BY <1>4 DEF ExistsBijection
<1> QED BY <1>5, <1>6, FS_Bijection

(* git log lists what it was asked for, and there is one such list. *)
LEMMA NewestFirstIs ==
    ASSUME NEW s, NEW S, Lists(s, S)
    PROVE  NewestFirst(S) = s
<1>1. /\ Len(s) \in Nat /\ s = [i \in 1..Len(s) |-> s[i]]
      /\ (\A i \in 1..Len(s) : s[i] \in Nat /\ s[i] \in S) /\ S \subseteq Nat
      /\ \A x \in S : \E i \in 1..Len(s) : x = s[i]
  BY ListOf
<1>2. Cardinality(S) = Len(s)
  <2>1. Len(s) \in 0..Len(s) /\ {s[j] : j \in 1..Len(s)} = S
    BY <1>1 DEF Lists
  <2> QED BY <2>1, ListedUpTo
<1>3. ASSUME NEW i \in 1..Len(s) PROVE Cardinality({d \in S : d >= s[i]}) = i
  <2>1. i \in 0..Len(s)
    BY <1>1
  <2>2. {d \in S : d >= s[i]} = {s[j] : j \in 1..i}
    <3>1. ASSUME NEW j \in 1..Len(s) PROVE s[j] >= s[i] <=> j <= i
      <4>1. PICK x, y : x = s[j] /\ y = s[i] /\ x \in Nat /\ y \in Nat
        BY <1>1
      <4>2. (j < i => x > y) /\ (i < j => y > x) /\ (i = j => x = y)
        BY <4>1 DEF Lists
      <4>3. x >= y <=> j <= i
        BY <1>1, <4>1, <4>2
      <4> QED BY <4>1, <4>3
    <3>2. 1..i = {j \in 1..Len(s) : j <= i}
      BY <1>1
    <3> QED BY <1>1, <3>1, <3>2
  <2> QED BY <2>1, <2>2, ListedUpTo
<1>4. ASSUME NEW i \in 1..Len(s)
      PROVE  (CHOOSE c \in S : Cardinality({d \in S : d >= c}) = i) = s[i]
  <2>1. s[i] \in S /\ Cardinality({d \in S : d >= s[i]}) = i
    BY <1>1, <1>3
  <2>2. ASSUME NEW c \in S, Cardinality({d \in S : d >= c}) = i PROVE c = s[i]
    <3>1. PICK j \in 1..Len(s) : c = s[j]
      BY <1>1
    <3>2. Cardinality({d \in S : d >= c}) = j
      BY <1>3, <3>1
    <3> QED BY <2>2, <3>1, <3>2
  <2> QED BY <2>1, <2>2
<1>5. NewestFirst(S) = [i \in 1..Len(s) |-> CHOOSE c \in S : Cardinality({d \in S : d >= c}) = i]
  BY <1>2 DEF NewestFirst
<1> QED BY <1>1, <1>4, <1>5

(* Every finite set of commits has a list. *)
LEMMA ListExists ==
    ASSUME NEW n \in Nat, NEW S \in SUBSET (1..n)
    PROVE  Lists(NewestFirst(S), S)
<1> DEFINE Listed == {k \in Nat : \A T \in SUBSET (1..k) : \E s : Lists(s, T)}
<1>1. 0 \in Listed
  <2> SUFFICES ASSUME NEW T \in SUBSET (1..0) PROVE \E s : Lists(s, T)
    OBVIOUS
  <2>1. T = {}
    OBVIOUS
  <2>2. << >> \in Seq(Nat) /\ Len(<< >>) = 0
    OBVIOUS
  <2>3. Lists(<< >>, {})
    BY <2>2 DEF Lists
  <2> QED BY <2>1, <2>3
<1>2. ASSUME NEW k \in Listed PROVE k + 1 \in Listed
  <2>0. k \in Nat /\ \A U \in SUBSET (1..k) : \E s : Lists(s, U)
    OBVIOUS
  <2> SUFFICES ASSUME NEW T \in SUBSET (1..(k + 1)) PROVE \E s : Lists(s, T)
    BY <2>0
  <2>1. CASE k + 1 \notin T
    <3>1. T \in SUBSET (1..k)
      BY <2>0, <2>1
    <3> QED BY <2>0, <3>1
  <2>2. CASE k + 1 \in T
    <3>1. T \ {k + 1} \in SUBSET (1..k)
      BY <2>0
    <3>2. PICK t : Lists(t, T \ {k + 1})
      BY <2>0, <3>1
    <3>3. Len(t) \in Nat /\ t \in Seq(Nat) /\ \A i \in 1..Len(t) : t[i] \in 1..k
      <4>1. PICK R : R = T \ {k + 1} /\ Lists(t, R)
        BY <3>2
      <4>2. Len(t) \in Nat /\ \A i \in 1..Len(t) : t[i] \in R
        BY <4>1, ListOf
      <4>3. t \in Seq(Nat)
        BY <4>1 DEF Lists
      <4> QED BY <3>1, <4>1, <4>2, <4>3
    <3>4. PICK s : s = <<k + 1>> \o t
      OBVIOUS
    <3>5. /\ s \in Seq(Nat) /\ Len(s) = Len(t) + 1 /\ s[1] = k + 1
          /\ \A i \in 2..(Len(t) + 1) : s[i] = t[i - 1]
      BY <2>0, <3>3, <3>4
    <3>6. ASSUME NEW i \in 1..Len(s), NEW j \in 1..Len(s), i < j PROVE s[i] > s[j]
      <4>1. j \in 2..(Len(t) + 1) /\ j - 1 \in 1..Len(t) /\ s[j] = t[j - 1]
        BY <3>3, <3>5, <3>6
      <4>2. CASE i = 1
        <5>1. PICK y \in 1..k : y = t[j - 1]
          BY <3>3, <4>1
        <5>2. k + 1 > y
          BY <2>0
        <5> QED BY <3>5, <4>1, <4>2, <5>1, <5>2
      <4>3. CASE i # 1
        <5>1. i \in 2..(Len(t) + 1) /\ i - 1 \in 1..Len(t) /\ i - 1 < j - 1
          BY <3>3, <3>5, <3>6, <4>3
        <5>3. s[i] = t[i - 1]
          BY <3>5, <5>1
        <5>2. t[i - 1] > t[j - 1]
          BY <3>2, <4>1, <5>1 DEF Lists
        <5> QED BY <4>1, <5>2, <5>3
      <4> QED BY <4>2, <4>3
    <3>7. {s[i] : i \in 1..Len(s)} = T
      <4>1. ASSUME NEW i \in 1..Len(s) PROVE s[i] \in T
        <5>1. CASE i = 1
          BY <2>2, <3>5, <5>1
        <5>2. CASE i # 1
          <6>1. i \in 2..(Len(t) + 1) /\ i - 1 \in 1..Len(t) /\ s[i] = t[i - 1]
            BY <3>3, <3>5, <5>2
          <6> QED BY <3>2, <6>1, ListOf
        <5> QED BY <5>1, <5>2
      <4>2. ASSUME NEW x \in T PROVE \E i \in 1..Len(s) : x = s[i]
        <5>1. CASE x = k + 1
          <6>1. 1 \in 1..Len(s)
            BY <3>3, <3>5
          <6> QED BY <3>5, <5>1, <6>1
        <5>2. CASE x # k + 1
          <6>1. PICK i \in 1..Len(t) : x = t[i]
            BY <3>2, <5>2, ListOf
          <6>2. i + 1 \in 2..(Len(t) + 1) /\ i + 1 \in 1..Len(s) /\ (i + 1) - 1 = i
            BY <3>3, <3>5
          <6>3. s[i + 1] = t[i]
            BY <3>5, <6>2
          <6> QED BY <6>1, <6>2, <6>3
        <5> QED BY <5>1, <5>2
      <4> QED BY <4>1, <4>2
    <3>8. \A i, j \in 1..Len(s) : i < j => s[i] > s[j]
      BY <3>6
    <3>9. Lists(s, T)
      BY <3>5, <3>7, <3>8 DEF Lists
    <3> QED BY <3>9
  <2> QED BY <2>1, <2>2
<1>3. Listed = Nat
  <2>1. Listed \in SUBSET Nat
    OBVIOUS
  <2> HIDE DEF Listed
  <2> QED BY <1>1, <1>2, <2>1, NatSetInduction
<1>4. PICK s : Lists(s, S)
  BY <1>3
<1>5. NewestFirst(S) = s
  BY <1>4, NewestFirstIs
<1> QED BY <1>4, <1>5

(* The first k commits of a list are those not older than its k-th. *)
LEMMA FirstOfList ==
    ASSUME NEW s, NEW S, Lists(s, S), NEW k \in 1..Len(s)
    PROVE  Lists(SubSeq(s, 1, k), {x \in S : x >= s[k]}) /\ s[k] \in S
<1>1. /\ Len(s) \in Nat /\ s \in Seq(Nat)
      /\ (\A i \in 1..Len(s) : s[i] \in Nat /\ s[i] \in S)
      /\ \A x \in S : \E i \in 1..Len(s) : x = s[i]
  BY ListOf DEF Lists
<1>2. PICK t : t = SubSeq(s, 1, k)
  OBVIOUS
<1>3. t \in Seq(Nat) /\ Len(t) = k /\ \A i \in 1..k : t[i] = s[i]
  BY <1>1, <1>2
<1>4. k \in Nat /\ 1..k \subseteq 1..Len(s)
  BY <1>1
<1>5. \A i, j \in 1..k : i < j => t[i] > t[j]
  BY <1>3, <1>4 DEF Lists
<1>6. ASSUME NEW j \in 1..Len(s) PROVE s[j] >= s[k] <=> j <= k
  <2>1. PICK x, y : x = s[j] /\ y = s[k] /\ x \in Nat /\ y \in Nat
    BY <1>1
  <2>2. (j < k => x > y) /\ (k < j => y > x) /\ (k = j => x = y)
    BY <2>1 DEF Lists
  <2>3. x >= y <=> j <= k
    BY <1>1, <2>1, <2>2
  <2> QED BY <2>1, <2>3
<1>7. 1..k = {j \in 1..Len(s) : j <= k}
  BY <1>1
<1>8. {t[i] : i \in 1..k} = {x \in S : x >= s[k]}
  <2>1. ASSUME NEW i \in 1..k PROVE t[i] \in S /\ t[i] >= s[k]
    BY <1>1, <1>3, <1>4, <1>6, <1>7
  <2>2. ASSUME NEW x \in S, x >= s[k] PROVE \E i \in 1..k : x = t[i]
    <3>1. PICK i \in 1..Len(s) : x = s[i]
      BY <1>1
    <3>2. i \in 1..k
      BY <1>6, <1>7, <2>2, <3>1
    <3> QED BY <1>3, <3>1, <3>2
  <2> QED BY <2>1, <2>2
<1>9. Lists(t, {x \in S : x >= s[k]})
  BY <1>3, <1>5, <1>8 DEF Lists
<1> QED BY <1>1, <1>2, <1>9

(* Older commits listed after newer ones make one list. *)
LEMMA ListsJoin ==
    ASSUME NEW s, NEW S, Lists(s, S), NEW t, NEW T, Lists(t, T), \A x \in S, y \in T : x > y
    PROVE  Lists(s \o t, S \cup T)
<1>1. /\ Len(s) \in Nat /\ s \in Seq(Nat) /\ (\A i \in 1..Len(s) : s[i] \in Nat /\ s[i] \in S)
      /\ \A x \in S : \E i \in 1..Len(s) : x = s[i]
  BY ListOf DEF Lists
<1>2. /\ Len(t) \in Nat /\ t \in Seq(Nat) /\ (\A i \in 1..Len(t) : t[i] \in Nat /\ t[i] \in T)
      /\ \A x \in T : \E i \in 1..Len(t) : x = t[i]
  BY ListOf DEF Lists
<1>3. PICK m, k, u : m = Len(s) /\ k = Len(t) /\ u = s \o t
  OBVIOUS
<1>4. /\ u \in Seq(Nat) /\ Len(u) = m + k /\ (\A i \in 1..m : u[i] = s[i])
      /\ \A i \in (m + 1)..(m + k) : u[i] = t[i - m]
  BY <1>1, <1>2, <1>3
<1>5. ASSUME NEW i \in 1..(m + k) PROVE i \in 1..m \/ (i \in (m + 1)..(m + k) /\ i - m \in 1..k)
  BY <1>1, <1>2, <1>3
<1>6. ASSUME NEW i \in 1..(m + k), NEW j \in 1..(m + k), i < j PROVE u[i] > u[j]
  <2>1. CASE i \in 1..m /\ j \in 1..m
    <3>1. s[i] > s[j]
      BY <1>3, <1>6, <2>1 DEF Lists
    <3> QED BY <1>4, <2>1, <3>1
  <2>2. CASE i \in 1..m /\ j \in (m + 1)..(m + k) /\ j - m \in 1..k
    <3>1. s[i] \in S /\ t[j - m] \in T
      BY <1>1, <1>2, <1>3, <2>2
    <3>2. s[i] > t[j - m]
      BY <3>1
    <3> QED BY <1>4, <2>2, <3>2
  <2>3. CASE i \in (m + 1)..(m + k) /\ i - m \in 1..k /\ j \in (m + 1)..(m + k) /\ j - m \in 1..k
    <3>1. i - m < j - m
      BY <1>1, <1>2, <1>3, <1>6
    <3>2. t[i - m] > t[j - m]
      BY <1>3, <2>3, <3>1 DEF Lists
    <3> QED BY <1>4, <2>3, <3>2
  <2>4. ~(i \in (m + 1)..(m + k) /\ j \in 1..m)
    BY <1>1, <1>2, <1>3, <1>6
  <2> QED BY <1>5, <2>1, <2>2, <2>3, <2>4
<1>7. {u[i] : i \in 1..(m + k)} = S \cup T
  <2>1. ASSUME NEW i \in 1..(m + k) PROVE u[i] \in S \cup T
    BY <1>1, <1>2, <1>3, <1>4, <1>5
  <2>2. ASSUME NEW x \in S PROVE \E i \in 1..(m + k) : x = u[i]
    <3>1. PICK i \in 1..m : x = s[i]
      BY <1>1, <1>3
    <3>2. i \in 1..(m + k) /\ u[i] = x
      BY <1>1, <1>2, <1>3, <1>4, <3>1
    <3> QED BY <3>2
  <2>3. ASSUME NEW x \in T PROVE \E i \in 1..(m + k) : x = u[i]
    <3>1. PICK i \in 1..k : x = t[i]
      BY <1>2, <1>3
    <3>2. i + m \in 1..(m + k) /\ i + m \in (m + 1)..(m + k) /\ (i + m) - m = i
      BY <1>1, <1>2, <1>3
    <3>3. u[i + m] = x
      BY <1>4, <3>1, <3>2
    <3> QED BY <3>2, <3>3
  <2> QED BY <2>1, <2>2, <2>3
<1> QED BY <1>3, <1>4, <1>6, <1>7 DEF Lists

-----------------------------------------------------------------------------
(* The commits of F down to b, and those before b. *)
DownTo(F, b) == {x \in F : x >= b}
Before(F, b) == {x \in F : x < b}

WalkRecs == [at : {"idle", "walking", "done"}, via : {"rest", "mcp"}, limit : Nat, before : Nat, seen : Seq(Nat), from : Nat,
     cut : BOOLEAN]

(* The walks that list the whole history. *)
ListsAll(w, ps) == LinearIn(ps, w.from) /\ (w.via = "rest" => w.limit < ServiceCap)

(* What a walk has listed: everything down to its cursor. *)
CutListed(t, F) == t = << >> \/ \E b \in F : Lists(t, DownTo(F, b))

ListedSoFar(w, ps) ==
    IF w.at = "done"
    THEN /\ ~w.cut => Lists(w.seen, AncestorsIn(ps)[w.from])
         /\ w.cut => CutListed(w.seen, AncestorsIn(ps)[w.from])
    ELSE /\ w.before \in AncestorsIn(ps)[w.from]
         /\ Lists(w.seen, DownTo(AncestorsIn(ps)[w.from], w.before))

WalkFits(w, ps) ==
    /\ w.before \in 0..Len(ps) /\ w.from \in 0..Len(ps)
    /\ w.at # "idle" => w.limit >= 1 /\ (w.via = "mcp" => w.limit < ServiceCap)
    /\ w.at = "idle" => w.before = 0
    /\ w.at = "walking" /\ w.before = 0 => w.seen = << >>
    /\ w.before # 0 \/ w.at = "done" => w.from # 0 /\ (ListsAll(w, ps) => ListedSoFar(w, ps))

(* The patches sent add up to no more than the budget. *)
DiffFits(d) ==
    /\ \E n \in Nat : d.sizes \in [1..n -> Nat] /\ d.sent \in SUBSET (1..n)
    /\ \E g : SumRule(g, d.sizes, DOMAIN d.sizes) /\ g[d.sent] <= DiffBudget
    /\ d.truncated <=> \E i \in DOMAIN d.sizes : i \notin d.sent

HistoryInv ==
    /\ GraphOK(parents) /\ main \in 1..Len(parents) /\ side \in 1..Len(parents)
    /\ walk \in [Readers -> WalkRecs]
    /\ \A r \in Readers : WalkFits(walk[r], parents)
    /\ DiffFits(diff)

(* What a page tells of the list it is taken from: all of it, or its first commits up to
   the cursor. *)
TakenFrom(a, s, all) ==
    \/ a.nextBefore = 0 /\ a.page \in Seq(Nat) /\ (all => a.page = s)
    \/ \E k \in 1..Len(s) : a.page = SubSeq(s, 1, k) /\ a.nextBefore = s[k]

(* A list cut after its first k commits. *)
LEMMA CutFacts ==
    ASSUME NEW s \in Seq(Nat), NEW m \in Nat
    PROVE  LET c == SubSeq(s, 1, IF Len(s) < m THEN Len(s) ELSE m) IN
           /\ c \in Seq(Nat) /\ Len(c) = IF Len(s) < m THEN Len(s) ELSE m
           /\ (Len(s) <= m => c = s)
           /\ \A k \in 0..Len(c) : SubSeq(c, 1, k) = SubSeq(s, 1, k)
           /\ \A k \in 1..Len(c) : c[k] = s[k]
<1> DEFINE n == IF Len(s) < m THEN Len(s) ELSE m
           c == SubSeq(s, 1, n)
<1>1. Len(s) \in Nat /\ n \in Nat /\ n <= Len(s) /\ (Len(s) <= m => n = Len(s))
  OBVIOUS
<1> HIDE DEF n
<1>2. c = [i \in 1..n |-> s[i]] /\ c \in Seq(Nat) /\ Len(c) = n
  BY <1>1
<1>3. Len(s) <= m => c = s
  BY <1>1
<1>4. ASSUME NEW k \in 0..n PROVE SubSeq(c, 1, k) = SubSeq(s, 1, k)
  <2>1. SubSeq(c, 1, k) = [i \in 1..k |-> c[i]] /\ SubSeq(s, 1, k) = [i \in 1..k |-> s[i]]
    BY <1>1, <1>2
  <2>2. \A i \in 1..k : c[i] = s[i]
    BY <1>1, <1>2
  <2> QED BY <2>1, <2>2
<1>5. \A k \in 1..n : c[k] = s[k]
  BY <1>1, <1>2
<1> HIDE DEF c
<1> QED BY <1>2, <1>3, <1>4, <1>5 DEF c, n

(* A REST page. *)
LEMMA RestPage ==
    ASSUME HistoryAssumption, NEW b, NEW x, NEW limit \in Nat, limit >= 1,
           NEW s \in Seq(Nat), s = NewestFirst(Ancestors[Revision(b, x)]),
           NEW failed, ~failed, NEW a, a = RestGetLog(b, x, limit, failed)
    PROVE  TakenFrom(a, s, limit < ServiceCap)
<1>0. ServiceCap \in Nat \ {0}
  BY DEF HistoryAssumption
<1> DEFINE m == Clamp(limit + 1)
           c == SubSeq(s, 1, IF Len(s) < m THEN Len(s) ELSE m)
<1>1. m \in Nat /\ (limit < ServiceCap => m = limit + 1) /\ (limit >= ServiceCap => m <= limit)
  BY <1>0 DEF Clamp
<1>2. GetLog(b, x, limit + 1, failed) = c
  BY DEF GetLog
<1> HIDE DEF m
<1>3. /\ c \in Seq(Nat) /\ Len(c) = IF Len(s) < m THEN Len(s) ELSE m
      /\ (Len(s) <= m => c = s)
      /\ (\A k \in 0..Len(c) : SubSeq(c, 1, k) = SubSeq(s, 1, k))
      /\ \A k \in 1..Len(c) : c[k] = s[k]
  BY <1>1, CutFacts
<1> HIDE DEF c
<1>4. Len(s) \in Nat /\ Len(c) \in Nat
  BY <1>3
<1>5. CASE Len(c) > limit
  <2>1. a = [page |-> SubSeq(c, 1, limit), nextBefore |-> c[limit]]
    BY <1>2, <1>5 DEF RestGetLog
  <2>2. limit \in 1..Len(s) /\ limit \in 1..Len(c)
    BY <1>1, <1>3, <1>4, <1>5
  <2>3. SubSeq(c, 1, limit) = SubSeq(s, 1, limit) /\ c[limit] = s[limit]
    BY <1>3, <1>4, <2>2
  <2> QED BY <2>1, <2>2, <2>3 DEF TakenFrom
<1>6. CASE ~(Len(c) > limit)
  <2>1. a = [page |-> c, nextBefore |-> 0]
    BY <1>2, <1>6 DEF RestGetLog
  <2>2. limit < ServiceCap => Len(s) <= m
    BY <1>1, <1>3, <1>4, <1>6
  <2> QED BY <1>3, <2>1, <2>2 DEF TakenFrom
<1> QED BY <1>5, <1>6

(* A page over MCP. *)
LEMMA McpPage ==
    ASSUME HistoryAssumption, NEW b, NEW x, NEW limit \in Nat, limit >= 1, limit < ServiceCap,
           NEW s \in Seq(Nat), s = NewestFirst(Ancestors[Revision(b, x)]),
           NEW failed, ~failed, NEW a, a = McpGetLog(b, x, limit, failed)
    PROVE  TakenFrom(a, s, TRUE)
<1>0. ServiceCap \in Nat \ {0}
  BY DEF HistoryAssumption
<1> DEFINE c == SubSeq(s, 1, IF Len(s) < limit THEN Len(s) ELSE limit)
<1>1. Clamp(limit) = limit
  BY <1>0 DEF Clamp
<1>2. GetLog(b, x, limit, failed) = c
  BY <1>1 DEF GetLog
<1>3. /\ c \in Seq(Nat) /\ Len(c) = IF Len(s) < limit THEN Len(s) ELSE limit
      /\ (Len(s) <= limit => c = s)
      /\ (\A k \in 0..Len(c) : SubSeq(c, 1, k) = SubSeq(s, 1, k))
      /\ \A k \in 1..Len(c) : c[k] = s[k]
  BY CutFacts
<1> HIDE DEF c
<1>4. Len(s) \in Nat /\ Len(c) \in Nat
  BY <1>3
<1>5. CASE Len(c) = limit
  <2>1. a = [page |-> c, nextBefore |-> c[limit]]
    BY <1>2, <1>5 DEF McpGetLog, Last
  <2>2. limit \in 1..Len(s) /\ limit \in 1..Len(c)
    BY <1>3, <1>4, <1>5
  <2>3. c = SubSeq(s, 1, limit) /\ c[limit] = s[limit]
    BY <1>3, <1>4, <1>5, <2>2 DEF c
  <2> QED BY <2>1, <2>2, <2>3 DEF TakenFrom
<1>6. CASE Len(c) # limit
  <2>1. a = [page |-> c, nextBefore |-> 0]
    BY <1>2, <1>6 DEF McpGetLog
  <2>2. c = s
    BY <1>3, <1>4, <1>6
  <2> QED BY <1>3, <2>1, <2>2 DEF TakenFrom
<1> QED BY <1>5, <1>6

(* A page taken of what is older than the cursor continues what was listed before it. *)
LEMMA PageExtends ==
    ASSUME NEW F \in SUBSET Nat, NEW b \in Nat, NEW t, Lists(t, DownTo(F, b)), NEW s, Lists(s, Before(F, b))
    PROVE  /\ Lists(t \o s, F)
           /\ \A k \in 1..Len(s) : s[k] \in F /\ Lists(t \o SubSeq(s, 1, k), DownTo(F, s[k]))
<1> DEFINE A == DownTo(F, b)
           S == Before(F, b)
<1>0. \A x \in F : x \in Nat /\ (x >= b \/ x < b)
  OBVIOUS
<1>1. A \cup S = F /\ \A x \in A, y \in S : x > y
  <2>1. A \cup S = F
    BY <1>0, Zenon DEF A, S, DownTo, Before
  <2>2. ASSUME NEW x \in A, NEW y \in S PROVE x > y
    <3>1. x \in Nat /\ y \in Nat /\ x >= b /\ y < b
      BY <1>0 DEF A, S, DownTo, Before
    <3> QED BY <3>1
  <2> QED BY <2>1, <2>2
<1>2. Lists(t, A) /\ Lists(s, S)
  OBVIOUS
<1> HIDE DEF A, S
<1>3. Lists(t \o s, F)
  <2>1. Lists(t \o s, A \cup S)
    BY <1>1, <1>2, ListsJoin
  <2> QED BY <1>1, <2>1
<1>4. ASSUME NEW k \in 1..Len(s)
      PROVE  s[k] \in F /\ Lists(t \o SubSeq(s, 1, k), DownTo(F, s[k]))
  <2> DEFINE T == {x \in S : x >= s[k]}
  <2>1. Lists(SubSeq(s, 1, k), T) /\ s[k] \in S
    BY <1>2, FirstOfList
  <2>2. A \cup T = DownTo(F, s[k]) /\ \A x \in A, y \in T : x > y
    <3>1. s[k] \in Nat /\ s[k] < b
      BY <1>0, <2>1 DEF S, Before
    <3>2. A \cup T \subseteq DownTo(F, s[k])
      <4>1. \A x \in F : x >= b => x >= s[k]
        BY <1>0, <3>1
      <4> QED BY <4>1 DEF A, S, DownTo, Before
    <3>3. DownTo(F, s[k]) \subseteq A \cup T
      BY <1>0, Zenon DEF A, S, DownTo, Before
    <3>4. T \subseteq S
      OBVIOUS
    <3> QED BY <1>1, <3>2, <3>3, <3>4
  <2> HIDE DEF T
  <2>3. Lists(t \o SubSeq(s, 1, k), A \cup T)
    BY <1>2, <2>1, <2>2, ListsJoin
  <2>4. s[k] \in F
    BY <2>1 DEF S, Before
  <2> QED BY <2>2, <2>3, <2>4
<1> QED BY <1>3, <1>4

(* Ancestry of the history as it is. *)
LEMMA AncestorsAre == Ancestors = AncestorsIn(parents)
BY DEF Ancestors, AncestorsIn, AncRule

(* And where it is linear. *)
LEMMA LinearAre == ASSUME NEW c PROVE Linear(c) <=> LinearIn(parents, c)
BY AncestorsAre DEF Linear, LinearIn

(* A walk stays as it fits when commits are added. *)
LEMMA WalkStays ==
    ASSUME NEW ps, GraphOK(ps), NEW qs, GraphOK(qs), Len(ps) <= Len(qs), \A c \in 1..Len(ps) : qs[c] = ps[c],
           NEW w \in WalkRecs, WalkFits(w, ps)
    PROVE  WalkFits(w, qs)
<1>1. Len(ps) \in Nat /\ Len(qs) \in Nat
  BY ParentsAreOlder
<1>2. w.before \in 0..Len(qs) /\ w.from \in 0..Len(qs)
  BY <1>1 DEF WalkFits
<1>3. ASSUME w.before # 0 \/ w.at = "done", ListsAll(w, qs) PROVE ListedSoFar(w, qs)
  <2>1. w.from \in 1..Len(ps)
    BY <1>1, <1>3 DEF WalkFits
  <2>2. AncestorsIn(qs)[w.from] = AncestorsIn(ps)[w.from] /\ (LinearIn(qs, w.from) => LinearIn(ps, w.from))
    BY <2>1, AncestryStays
  <2>3. ListsAll(w, ps)
    BY <1>3, <2>2 DEF ListsAll
  <2>4. ListedSoFar(w, ps)
    BY <1>3, <2>3 DEF WalkFits
  <2> QED BY <2>2, <2>4 DEF ListedSoFar
<1> QED BY <1>2, <1>3 DEF WalkFits

(* Adding a commit whose parents are there. *)
LEMMA CommitFits ==
    ASSUME HistoryInv, NEW p \in Seq(Nat), \A i \in 1..Len(p) : p[i] \in 1..Len(parents),
           parents' = Append(parents, p), UNCHANGED <<walk, diff>>,
           main' \in 1..(Len(parents) + 1), side' \in 1..(Len(parents) + 1)
    PROVE  HistoryInv'
<1>1. PICK ps : ps = parents
  OBVIOUS
<1>2. PICK qs : qs = Append(ps, p)
  OBVIOUS
<1>3. GraphOK(ps) /\ ps \in Seq(Seq(Nat)) /\ Len(ps) \in Nat
  BY <1>1 DEF HistoryInv, GraphOK
<1>4. \A i \in 1..Len(p) : p[i] \in 1..Len(ps)
  BY <1>1
<1>5. qs \in Seq(Seq(Nat)) /\ Len(qs) = Len(ps) + 1 /\ (\A c \in 1..Len(ps) : qs[c] = ps[c]) /\ qs[Len(ps) + 1] = p
  <2>1. ASSUME NEW S, NEW s \in Seq(S), NEW e \in S
        PROVE  Append(s, e) \in Seq(S) /\ Len(Append(s, e)) = Len(s) + 1
               /\ (\A c \in 1..Len(s) : Append(s, e)[c] = s[c]) /\ Append(s, e)[Len(s) + 1] = e
    OBVIOUS
  <2> QED BY <1>2, <1>3, <2>1
<1>6. GraphOK(qs)
  <2>1. ASSUME NEW c \in 1..Len(qs), NEW i \in 1..Len(qs[c]) PROVE qs[c][i] \in 1..(c - 1)
    <3>1. CASE c \in 1..Len(ps)
      <4>1. i \in 1..Len(ps[c]) /\ qs[c][i] = ps[c][i]
        BY <1>5, <2>1, <3>1
      <4> QED BY <1>3, <3>1, <4>1 DEF GraphOK
    <3>2. CASE c = Len(ps) + 1
      <4>1. i \in 1..Len(p) /\ qs[c][i] = p[i]
        BY <1>5, <2>1, <3>2
      <4>2. c - 1 = Len(ps)
        BY <1>3, <3>2
      <4> QED BY <1>4, <4>1, <4>2
    <3>3. c \in 1..Len(ps) \/ c = Len(ps) + 1
      BY <1>3, <1>5, <2>1
    <3> QED BY <3>1, <3>2, <3>3
  <2> QED BY <1>5, <2>1 DEF GraphOK
<1>7. parents' = qs /\ main' \in 1..Len(qs) /\ side' \in 1..Len(qs)
  BY <1>1, <1>2, <1>5
<1>8. Len(ps) <= Len(qs)
  BY <1>3, <1>5
<1>9. ASSUME NEW r \in Readers PROVE WalkFits(walk[r], qs)
  <2>1. walk[r] \in WalkRecs /\ WalkFits(walk[r], ps)
    BY <1>1 DEF HistoryInv
  <2> QED BY <1>3, <1>5, <1>6, <1>8, <2>1, WalkStays
<1>10. walk' \in [Readers -> WalkRecs] /\ DiffFits(diff')
  BY DEF HistoryInv
<1>11. \A r \in Readers : WalkFits(walk'[r], parents')
  BY <1>7, <1>9
<1> QED BY <1>6, <1>7, <1>10, <1>11 DEF HistoryInv

(* Commits keep the walks. *)
LEMMA CommitsKeepWalks ==
    ASSUME HistoryInv, Commit \/ CommitOnSide \/ MergeSide
    PROVE  HistoryInv'
<1>1. Len(parents) \in Nat /\ main \in 1..Len(parents) /\ side \in 1..Len(parents)
  BY ParentsAreOlder DEF HistoryInv
<1>2. CASE Commit
  <2>1. <<main>> \in Seq(Nat) /\ \A i \in 1..Len(<<main>>) : <<main>>[i] \in 1..Len(parents)
    BY <1>1
  <2>2. main' \in 1..(Len(parents) + 1) /\ side' \in 1..(Len(parents) + 1)
    BY <1>1, <1>2 DEF Commit
  <2> QED BY <1>2, <2>1, <2>2, CommitFits DEF Commit
<1>3. CASE CommitOnSide
  <2>1. <<side>> \in Seq(Nat) /\ \A i \in 1..Len(<<side>>) : <<side>>[i] \in 1..Len(parents)
    BY <1>1
  <2>2. main' \in 1..(Len(parents) + 1) /\ side' \in 1..(Len(parents) + 1)
    BY <1>1, <1>3 DEF CommitOnSide
  <2> QED BY <1>3, <2>1, <2>2, CommitFits DEF CommitOnSide
<1>4. CASE MergeSide
  <2>1. <<main, side>> \in Seq(Nat) /\ \A i \in 1..Len(<<main, side>>) : <<main, side>>[i] \in 1..Len(parents)
    BY <1>1
  <2>2. main' \in 1..(Len(parents) + 1) /\ side' \in 1..(Len(parents) + 1)
    BY <1>1, <1>4 DEF MergeSide
  <2> QED BY <1>4, <2>1, <2>2, CommitFits DEF MergeSide
<1> QED BY <1>2, <1>3, <1>4

(* The sum the model checker computes is the sum of what was sent. *)
LEMMA DiffIsWithin == ASSUME DiffFits(diff) PROVE DiffWithinBudget
<1>1. PICK n \in Nat : diff.sizes \in [1..n -> Nat] /\ diff.sent \in SUBSET (1..n)
  BY DEF DiffFits
<1>2. PICK sizes, sent : sizes = diff.sizes /\ sent = diff.sent
  OBVIOUS
<1>3. PICK g : SumRule(g, sizes, 1..n) /\ g[sent] <= DiffBudget
  BY <1>1, <1>2 DEF DiffFits
<1>4. IsFiniteSet(sent) /\ sizes \in [1..n -> Nat] /\ sent \in SUBSET (1..n)
  <2>1. IsFiniteSet(1..n)
    BY FS_Interval
  <2> QED BY <1>1, <1>2, <2>1, FS_Subset
<1> DEFINE v == [i \in sent |-> sizes[i]]
<1>5. v \in [sent -> Nat] /\ \A i \in sent : v[i] = sizes[i]
  BY <1>4
<1> HIDE DEF v
<1>6. PICK h : SumRule(h, v, sent)
  BY <1>4, <1>5, SumExists
<1>7. SumRule(h, sizes, sent)
  <2>1. \A s \in SUBSET sent : RuleAt(h, v, s) = RuleAt(h, sizes, s)
    BY <1>5, AnyOfSet DEF RuleAt
  <2> QED BY <1>6, <2>1 DEF SumRule
<1> DEFINE c == CHOOSE f : f = [s \in SUBSET sent |-> IF s = {} THEN 0 ELSE sizes[CHOOSE x \in s : TRUE] + f[s \ {CHOOSE x \in s : TRUE}]]
<1>8. FoldSet(LAMBDA i, k : diff.sizes[i] + k, 0, diff.sent) = c[sent]
  BY <1>2 DEF FoldSet, MapThenFoldSet
<1>9. SumRule(c, sizes, sent)
  BY <1>7 DEF SumRule, RuleAt, AnyOf
<1> HIDE DEF c
<1>10. c[sent] = g[sent]
  <2>1. PICK k, z, N, U : k = c /\ z = sizes /\ N = 1..n /\ U = sent
    OBVIOUS
  <2>2. \A x \in U : z[x] = sizes[x] /\ z[x] \in Nat
    BY <1>4, <2>1
  <2>3. SumRule(k, z, sent) /\ SumRule(g, sizes, N)
    BY <1>3, <1>9, <2>1
  <2>4. U \subseteq N /\ U \subseteq sent /\ IsFiniteSet(U)
    BY <1>4, <2>1
  <2>5. k[U] = g[U]
    BY ONLY <2>2, <2>3, <2>4, SumsAgree
  <2> QED BY <2>1, <2>5
<1>11. FoldSet(LAMBDA i, k : diff.sizes[i] + k, 0, diff.sent) <= DiffBudget
  BY <1>3, <1>8, <1>10
<1> QED BY <1>11 DEF DiffWithinBudget, DiffFits

(* How many bytes are left after i patches. *)
SentRule(f, sizes) ==
    f = [i \in 0..Len(sizes) |->
          IF i = 0 THEN [files |-> {}, left |-> DiffBudget]
          ELSE IF sizes[i] <= f[i - 1].left
               THEN [files |-> f[i - 1].files \cup {i}, left |-> f[i - 1].left - sizes[i]]
               ELSE f[i - 1]]

(* The patches sent are defined. *)
LEMMA SentExists ==
    ASSUME HistoryAssumption, NEW n \in Nat, NEW sizes \in [1..n -> Nat]
    PROVE  /\ Len(sizes) = n
           /\ \E f : SentRule(f, sizes) /\ PatchesSent(sizes) = f[n].files
<1>0. DiffBudget \in Nat
  BY DEF HistoryAssumption
<1>1. Len(sizes) = n
  OBVIOUS
<1> DEFINE Recs == [at : Nat, files : SUBSET Nat, left : Int]
           After(x) == IF x.at + 1 \notin 1..n THEN x
                       ELSE IF sizes[x.at + 1] <= x.left
                            THEN [at |-> x.at + 1, files |-> x.files \cup {x.at + 1}, left |-> x.left - sizes[x.at + 1]]
                            ELSE [at |-> x.at + 1, files |-> x.files, left |-> x.left]
           succ == [x \in Recs |-> After(x)]
           start == [at |-> 0, files |-> {}, left |-> DiffBudget]
<1>2. start \in Recs
  BY <1>0
<1>3. ASSUME NEW x \in Recs PROVE After(x) \in Recs
  <2>1. x.at \in Nat /\ x.files \in SUBSET Nat /\ x.left \in Int
    OBVIOUS
  <2>2. x.at + 1 \in Nat /\ x.files \cup {x.at + 1} \in SUBSET Nat
    BY <2>1
  <2>3. x.at + 1 \in 1..n => x.left - sizes[x.at + 1] \in Int
    BY <2>1
  <2> QED BY <2>1, <2>2, <2>3
<1>4. succ \in [Recs -> Recs] /\ \A x \in Recs : succ[x] = After(x)
  BY <1>3
<1> HIDE DEF succ, start, Recs, After
<1>5. PICK g \in [Nat -> Recs] : Iterates(g, start, succ)
  BY <1>2, <1>4, SequenceExists
<1>6. g[0] = start /\ \A i \in Nat : g[i + 1] = After(g[i])
  <2>1. g[0] = start /\ \A i \in Nat : g[i + 1] = succ[g[i]]
    BY <1>5 DEF Iterates
  <2>2. \A i \in Nat : g[i] \in Recs
    BY <1>5
  <2> QED BY <1>4, <2>1, <2>2
<1> DEFINE T == {i \in Nat : i <= n => g[i].at = i}
<1>7. T = Nat
  <2>1. 0 \in T
    BY <1>6 DEF start
  <2>2. ASSUME NEW i \in T PROVE i + 1 \in T
    <3>1. ASSUME i + 1 <= n PROVE g[i + 1].at = i + 1
      <4>1. g[i].at = i /\ i + 1 \in 1..n
        BY <3>1
      <4>2. g[i + 1] = After(g[i]) /\ g[i].at + 1 = i + 1
        BY <1>6, <4>1
      <4> QED BY <4>1, <4>2 DEF After
    <3> QED BY <3>1
  <2>3. T \in SUBSET Nat
    OBVIOUS
  <2> HIDE DEF T
  <2> QED BY <2>1, <2>2, <2>3, NatSetInduction
<1> DEFINE Row(i) == [files |-> g[i].files, left |-> g[i].left]
           f == [i \in 0..n |-> Row(i)]
<1>8. ASSUME NEW i \in 0..n
      PROVE  f[i] = IF i = 0 THEN [files |-> {}, left |-> DiffBudget]
                    ELSE IF sizes[i] <= f[i - 1].left
                         THEN [files |-> f[i - 1].files \cup {i}, left |-> f[i - 1].left - sizes[i]]
                         ELSE f[i - 1]
  <2>1. CASE i = 0
    <3>1. g[0].files = {} /\ g[0].left = DiffBudget
      BY <1>6 DEF start
    <3>2. f[i] = Row(0)
      BY <2>1
    <3> QED BY <2>1, <3>1, <3>2
  <2>2. CASE i # 0
    <3>1. i - 1 \in Nat /\ i - 1 \in 0..n /\ (i - 1) + 1 = i /\ i \in 1..n /\ i - 1 <= n
      BY <2>2
    <3>2. g[i - 1].at = i - 1
      BY <1>7, <3>1
    <3>3. g[i] = After(g[i - 1])
      BY <1>6, <3>1
    <3>4. f[i] = Row(i) /\ f[i - 1] = Row(i - 1)
      BY <3>1
    <3>5. g[i].files = (IF sizes[i] <= g[i - 1].left THEN g[i - 1].files \cup {i} ELSE g[i - 1].files)
          /\ g[i].left = (IF sizes[i] <= g[i - 1].left THEN g[i - 1].left - sizes[i] ELSE g[i - 1].left)
      BY <3>1, <3>2, <3>3 DEF After
    <3>6. PICK y : y = f[i - 1]
      OBVIOUS
    <3>7. y.files = g[i - 1].files /\ y.left = g[i - 1].left /\ y = [files |-> y.files, left |-> y.left]
      <4> HIDE DEF f
      <4>1. y = [files |-> g[i - 1].files, left |-> g[i - 1].left]
        BY <3>4, <3>6
      <4> QED BY <4>1
    <3>8. f[i] = IF sizes[i] <= y.left THEN [files |-> y.files \cup {i}, left |-> y.left - sizes[i]] ELSE y
      <4> HIDE DEF f
      <4>1. CASE sizes[i] <= y.left
        BY <3>4, <3>5, <3>7, <4>1
      <4>2. CASE ~(sizes[i] <= y.left)
        BY <3>4, <3>5, <3>7, <4>2
      <4> QED BY <4>1, <4>2
    <3> HIDE DEF f
    <3> QED BY <2>2, <3>6, <3>8
  <2> QED BY <2>1, <2>2
<1>9. SentRule(f, sizes)
  BY <1>1, <1>8 DEF SentRule
<1> HIDE DEF f
<1> DEFINE c == CHOOSE h : SentRule(h, sizes)
<1>10. SentRule(c, sizes)
  BY <1>9
<1>11. PatchesSent(sizes) = c[n].files
  BY <1>1 DEF PatchesSent, SentRule
<1> QED BY <1>1, <1>10, <1>11

(* The patches sent fit the budget together. *)
LEMMA SentFits ==
    ASSUME HistoryAssumption, NEW n \in Nat, NEW sizes \in [1..n -> Nat]
    PROVE  /\ PatchesSent(sizes) \in SUBSET (1..n)
           /\ \E g : SumRule(g, sizes, 1..n) /\ g[PatchesSent(sizes)] <= DiffBudget
<1>0. DiffBudget \in Nat
  BY DEF HistoryAssumption
<1>1. PICK f : Len(sizes) = n /\ SentRule(f, sizes) /\ PatchesSent(sizes) = f[n].files
  BY SentExists
<1>2. IsFiniteSet(1..n)
  BY FS_Interval
<1>3. PICK g : SumRule(g, sizes, 1..n)
  BY <1>2, SumExists
<1>4. g[{}] = 0
  BY <1>3 DEF SumRule, RuleAt
<1>5. f[0] = [files |-> {}, left |-> DiffBudget]
  BY <1>1 DEF SentRule
<1>6. \A i \in 1..n : f[i] = IF sizes[i] <= f[i - 1].left
                             THEN [files |-> f[i - 1].files \cup {i}, left |-> f[i - 1].left - sizes[i]]
                             ELSE f[i - 1]
  <2>1. \A i \in 1..n : i \in 0..Len(sizes) /\ i # 0
    BY <1>1
  <2> QED BY <1>1, <2>1 DEF SentRule
<1> DEFINE Good(i) == /\ f[i].files \in SUBSET (1..i) /\ f[i].left \in Nat
                      /\ g[f[i].files] + f[i].left = DiffBudget /\ g[f[i].files] \in Nat
           T == {i \in Nat : i <= n => Good(i)}
<1>7. 0 \in T
  <2>1. f[0].files = {} /\ f[0].left = DiffBudget
    BY <1>5
  <2>2. Good(0)
    BY <1>0, <1>4, <2>1
  <2> QED BY <2>2
<1>8. ASSUME NEW i \in T, i + 1 <= n PROVE Good(i + 1)
  <2>1. i \in Nat /\ Good(i) /\ i + 1 \in 1..n /\ (i + 1) - 1 = i
    BY <1>8
  <2>2. f[i + 1] = IF sizes[i + 1] <= f[i].left
                   THEN [files |-> f[i].files \cup {i + 1}, left |-> f[i].left - sizes[i + 1]]
                   ELSE f[i]
    BY <1>6, <2>1
  <2>3. PICK a, l, z, u : a = f[i].files /\ l = f[i].left /\ z = sizes[i + 1] /\ u = a \cup {i + 1}
    OBVIOUS
  <2>4. a \in SUBSET (1..i) /\ l \in Nat /\ g[a] + l = DiffBudget /\ g[a] \in Nat /\ z \in Nat
    BY <2>1, <2>3
  <2>5. u \in SUBSET (1..(i + 1)) /\ u \in SUBSET (1..n) /\ u \ {i + 1} = a /\ i + 1 \in u /\ a \in SUBSET (1..(i + 1))
    BY <2>1, <2>3, <2>4
  <2>6. g[u] = z + g[a]
    <3>1. TakesFirst(g, sizes, u, i + 1)
      BY <1>2, <1>3, <2>5, SumTakesAny
    <3> QED BY <2>3, <2>5, <3>1 DEF TakesFirst
  <2>7. CASE z <= l
    <3>1. f[i + 1].files = u /\ f[i + 1].left = l - z
      BY <2>2, <2>3, <2>7
    <3>2. l - z \in Nat /\ g[u] \in Nat /\ g[u] + (l - z) = DiffBudget
      BY <2>4, <2>6, <2>7
    <3> QED BY <2>5, <3>1, <3>2
  <2>8. CASE ~(z <= l)
    <3>1. f[i + 1] = f[i]
      BY <2>2, <2>3, <2>8
    <3> QED BY <2>3, <2>4, <2>5, <3>1
  <2> QED BY <2>7, <2>8
<1>9. n \in T
  <2>1. \A i \in T : i + 1 \in T
    <3> SUFFICES ASSUME NEW i \in T PROVE i + 1 \in T
      OBVIOUS
    <3>1. i + 1 \in Nat
      OBVIOUS
    <3> QED BY <1>8, <3>1
  <2>2. T \in SUBSET Nat
    OBVIOUS
  <2> HIDE DEF T
  <2> QED BY <1>7, <2>1, <2>2, NatSetInduction
<1>10. Good(n)
  BY <1>9
<1>11. f[n].files \in SUBSET (1..n) /\ g[f[n].files] <= DiffBudget
  BY <1>0, <1>10
<1> QED BY <1>1, <1>3, <1>11

(* The commits a page is taken from: all of the branch, or what is older than the
   cursor of a walk that lists everything. *)
LEMMA PageSource ==
    ASSUME HistoryInv, NEW r \in Readers, walk[r].at = "walking",
           NEW F, F = AncestorsIn(parents)[IF walk[r].before = 0 THEN main ELSE walk[r].from],
           NEW S, S = Ancestors[Revision(main, walk[r].before)]
    PROVE  /\ F \in SUBSET (1..Len(parents)) /\ S \in SUBSET (1..Len(parents))
           /\ walk[r].before = 0 => S = F
           /\ walk[r].before # 0 /\ ListsAll(walk[r], parents) => S = Before(F, walk[r].before)
<1>1. PICK ps, w : ps = parents /\ w = walk[r]
  OBVIOUS
<1>2. GraphOK(ps) /\ main \in 1..Len(ps) /\ w \in WalkRecs /\ WalkFits(w, ps) /\ w.at = "walking"
  BY <1>1 DEF HistoryInv
<1>3. /\ Len(ps) \in Nat
      /\ \A c \in 1..Len(ps) : ps[c] \in Seq(Nat) /\ Range(ps[c]) = {ps[c][i] : i \in 1..Len(ps[c])} /\ Range(ps[c]) \subseteq 1..Len(ps)
  BY <1>2, ParentsAreOlder
<1>4. AncestorsIn(ps)[0] = {} /\ \A c \in 1..Len(ps) : AncestorsIn(ps)[c] \subseteq 1..Len(ps)
  <2>1. AncestorsIn(ps)[0] = {} /\ \A c \in 1..Len(ps) : AncestorsIn(ps)[c] \subseteq 1..c
    BY <1>2, AncestryFacts
  <2>2. \A c \in 1..Len(ps) : 1..c \subseteq 1..Len(ps)
    BY <1>3
  <2> QED BY <2>1, <2>2
<1>5. w.before \in 0..Len(ps) /\ w.from \in 0..Len(ps) /\ (w.before # 0 => w.from \in 1..Len(ps))
  BY <1>2, <1>3 DEF WalkFits
<1>6. S = AncestorsIn(ps)[IF w.before = 0 THEN main ELSE IF ps[w.before] = << >> THEN 0 ELSE Head(ps[w.before])]
  BY <1>1, AncestorsAre DEF Revision
<1>7. F = AncestorsIn(ps)[IF w.before = 0 THEN main ELSE w.from]
  BY <1>1
<1>8. CASE w.before = 0
  BY <1>1, <1>2, <1>4, <1>6, <1>7, <1>8
<1>9. CASE w.before # 0
  <2>1. w.before \in 1..Len(ps) /\ w.from \in 1..Len(ps)
    BY <1>3, <1>5, <1>9
  <2>2. ps[w.before] # << >> => Head(ps[w.before]) \in 1..Len(ps)
    <3>1. PICK q : q = ps[w.before]
      OBVIOUS
    <3>2. q \in Seq(Nat) /\ {q[i] : i \in 1..Len(q)} \subseteq 1..Len(ps)
      BY <1>3, <2>1, <3>1
    <3>3. q # << >> => 1 \in 1..Len(q) /\ Head(q) = q[1]
      BY <3>2
    <3> QED BY <3>1, <3>2, <3>3
  <2>3. F = AncestorsIn(ps)[w.from]
        /\ S = IF ps[w.before] = << >> THEN {} ELSE AncestorsIn(ps)[Head(ps[w.before])]
    BY <1>4, <1>6, <1>7, <1>9
  <2>4. F \in SUBSET (1..Len(ps)) /\ S \in SUBSET (1..Len(ps))
    BY <1>4, <2>1, <2>2, <2>3
  <2>5. ASSUME ListsAll(w, ps) PROVE S = Before(F, w.before)
    <3>1. w.before \in AncestorsIn(ps)[w.from]
      BY <1>2, <1>9, <2>5 DEF WalkFits, ListedSoFar
    <3>2. LinearIn(ps, w.from)
      BY <2>5 DEF ListsAll
    <3> QED BY <1>2, <2>1, <2>3, <3>1, <3>2, LinearIsChain DEF Before
  <2> QED BY <1>1, <1>9, <2>4, <2>5
<1> QED BY <1>8, <1>9

(* A page keeps the walk. *)
LEMMA PageFits ==
    ASSUME HistoryAssumption, HistoryInv, NEW r \in Readers, NEW failed \in BOOLEAN, NextPage(r, failed)
    PROVE  HistoryInv'
<1> DEFINE answer == IF walk[r].via = "rest" THEN RestGetLog(main, walk[r].before, walk[r].limit, failed)
                     ELSE McpGetLog(main, walk[r].before, walk[r].limit, failed)
<1>1. PICK ps, w, a : ps = parents /\ w = walk[r] /\ a = answer
  OBVIOUS
<1>2. PICK v : v = [w EXCEPT !.seen = @ \o a.page, !.before = a.nextBefore,
                             !.from = IF w.before = 0 THEN main ELSE @,
                             !.at = IF a.nextBefore = 0 THEN "done" ELSE "walking", !.cut = failed]
  OBVIOUS
<1>3. w.at = "walking" /\ walk' = [walk EXCEPT ![r] = v] /\ UNCHANGED <<parents, main, side, diff>>
  BY <1>1, <1>2 DEF NextPage
<1>4. GraphOK(ps) /\ Len(ps) \in Nat /\ main \in 1..Len(ps) /\ w \in WalkRecs /\ WalkFits(w, ps)
  BY <1>1, ParentsAreOlder DEF HistoryInv
<1>5. PICK from, before : from = (IF w.before = 0 THEN main ELSE w.from) /\ before = w.before
  OBVIOUS
<1>6. PICK F, S : F = AncestorsIn(ps)[from] /\ S = Ancestors[Revision(main, before)]
  OBVIOUS
<1>7. /\ F \in SUBSET (1..Len(ps)) /\ S \in SUBSET (1..Len(ps))
      /\ before = 0 => S = F
      /\ before # 0 /\ ListsAll(w, ps) => S = Before(F, before)
  BY <1>1, <1>3, <1>5, <1>6, PageSource
<1>8. PICK s : s = NewestFirst(S)
  OBVIOUS
<1>9. Lists(s, S) /\ s \in Seq(Nat) /\ \A k \in 1..Len(s) : s[k] \in S /\ s[k] \in 1..Len(ps)
  <2>1. Lists(s, S)
    BY <1>4, <1>7, <1>8, ListExists
  <2> QED BY <1>7, <2>1, ListOf DEF Lists
<1>10. w.limit \in Nat /\ w.limit >= 1 /\ (w.via = "mcp" => w.limit < ServiceCap) /\ w.via \in {"rest", "mcp"}
  BY <1>3, <1>4 DEF WalkFits, WalkRecs
<1> DEFINE all == w.via = "rest" => w.limit < ServiceCap
<1>11. ~failed => TakenFrom(a, s, all)
  <2> SUFFICES ASSUME ~failed PROVE TakenFrom(a, s, all)
    OBVIOUS
  <2>1. s = NewestFirst(Ancestors[Revision(main, w.before)])
    BY <1>5, <1>6, <1>8
  <2>2. CASE w.via = "rest"
    <3>1. a = RestGetLog(main, w.before, w.limit, failed)
      BY <1>1, <2>2
    <3>2. TakenFrom(a, s, w.limit < ServiceCap)
      BY <1>9, <1>10, <2>1, <3>1, RestPage
    <3> QED BY <2>2, <3>2 DEF TakenFrom
  <2>3. CASE w.via = "mcp"
    <3>1. a = McpGetLog(main, w.before, w.limit, failed)
      BY <1>1, <2>3
    <3>2. TakenFrom(a, s, TRUE)
      BY <1>9, <1>10, <2>1, <2>3, <3>1, McpPage
    <3> QED BY <2>3, <3>2 DEF TakenFrom
  <2> QED BY <1>10, <2>2, <2>3
<1>21. failed => a.page = << >> /\ a.nextBefore = 0
  <2> SUFFICES ASSUME failed PROVE a.page = << >> /\ a.nextBefore = 0
    OBVIOUS
  <2>1. PICK n : n = w.limit /\ n \in Nat /\ n >= 1
    BY <1>10
  <2>2. ~(Len(<< >>) > n) /\ Len(<< >>) # n
    BY <2>1
  <2>3. CASE w.via = "rest"
    <3>1. a = RestGetLog(main, w.before, n, failed)
      BY <1>1, <2>1, <2>3
    <3>2. a = [page |-> << >>, nextBefore |-> 0]
      BY <2>2, <3>1 DEF RestGetLog, GetLog
    <3> QED BY <3>2
  <2>4. CASE w.via # "rest"
    <3>1. a = McpGetLog(main, w.before, n, failed)
      BY <1>1, <2>1, <2>4
    <3>2. a = [page |-> << >>, nextBefore |-> 0]
      BY <2>2, <3>1 DEF McpGetLog, GetLog
    <3> QED BY <3>2
  <2> QED BY <2>3, <2>4
<1> HIDE DEF answer
<1>12. a.page \in Seq(Nat) /\ a.nextBefore \in 0..Len(ps)
  <2>1. ASSUME NEW k \in 1..Len(s) PROVE SubSeq(s, 1, k) \in Seq(Nat)
    BY <1>9
  <2>2. \A k \in 1..Len(s) : s[k] \in 0..Len(ps)
    BY <1>4, <1>9
  <2>3. 0 \in 0..Len(ps)
    BY <1>4
  <2>4. << >> \in Seq(Nat)
    OBVIOUS
  <2>5. CASE failed
    BY <1>21, <2>3, <2>4, <2>5
  <2> QED BY <1>11, <2>1, <2>2, <2>3, <2>5 DEF TakenFrom
<1>13. /\ v.at = (IF a.nextBefore = 0 THEN "done" ELSE "walking") /\ v.via = w.via /\ v.limit = w.limit
       /\ v.before = a.nextBefore /\ v.seen = w.seen \o a.page /\ v.from = from /\ v.cut = failed
  BY <1>2, <1>4, <1>5 DEF WalkRecs
<1>14. from \in 1..Len(ps) /\ before \in 0..Len(ps)
  BY <1>4, <1>5 DEF WalkFits
<1>15. v \in WalkRecs
  <2>1. w.seen \in Seq(Nat) /\ w.from \in Nat
    BY <1>4 DEF WalkRecs
  <2>2. w.seen \o a.page \in Seq(Nat)
    BY <1>12, <2>1
  <2>3. from \in Nat /\ a.nextBefore \in Nat
    BY <1>4, <1>12, <1>14
  <2> QED BY <1>2, <1>4, <1>5, <2>2, <2>3 DEF WalkRecs
<1>16. ASSUME ListsAll(v, ps) PROVE ListedSoFar(v, ps)
  <2>1. all /\ LinearIn(ps, from)
    BY <1>13, <1>16 DEF ListsAll
  <2>6. CASE failed
    <3>1. v.at = "done" /\ v.cut /\ v.seen = w.seen /\ AncestorsIn(ps)[v.from] = F
      <4>1. w.seen \in Seq(Nat)
        BY <1>4 DEF WalkRecs
      <4>2. w.seen \o << >> = w.seen
        BY <4>1
      <4> QED BY <1>6, <1>13, <1>21, <2>6, <4>2
    <3>2. CutListed(w.seen, F)
      <4>1. CASE before = 0
        BY <1>3, <1>4, <1>5, <4>1 DEF WalkFits, CutListed
      <4>2. CASE before # 0
        <5>1. ListsAll(w, ps)
          BY <1>5, <2>1, <4>2 DEF ListsAll
        <5>2. before \in F /\ Lists(w.seen, DownTo(F, before))
          BY <1>3, <1>4, <1>5, <1>6, <4>2, <5>1 DEF WalkFits, ListedSoFar
        <5> QED BY <5>2 DEF CutListed
      <4> QED BY <4>1, <4>2
    <3> QED BY <3>1, <3>2 DEF ListedSoFar
  <2>7. SUFFICES ASSUME ~failed PROVE ListedSoFar(v, ps)
    BY <2>6
  <2>2. PICK b \in Nat : Lists(w.seen, DownTo(F, b)) /\ S = Before(F, b)
    <3>1. CASE before = 0
      <4>1. w.seen = << >>
        BY <1>3, <1>4, <1>5, <3>1 DEF WalkFits
      <4>2. DownTo(F, Len(ps) + 1) = {} /\ Before(F, Len(ps) + 1) = F
        <5>1. \A x \in F : x \in Nat /\ x < Len(ps) + 1 /\ ~(x >= Len(ps) + 1)
          BY <1>4, <1>7
        <5> QED BY <5>1 DEF DownTo, Before
      <4>3. Lists(<< >>, {})
        BY DEF Lists
      <4>4. Len(ps) + 1 \in Nat
        BY <1>4
      <4>5. Lists(w.seen, DownTo(F, Len(ps) + 1)) /\ S = Before(F, Len(ps) + 1)
        BY <1>7, <3>1, <4>1, <4>2, <4>3
      <4> QED BY <4>4, <4>5
    <3>2. CASE before # 0
      <4>1. ListsAll(w, ps)
        BY <1>5, <2>1, <3>2 DEF ListsAll
      <4>2. Lists(w.seen, DownTo(F, before))
        BY <1>3, <1>4, <1>5, <1>6, <3>2, <4>1 DEF WalkFits, ListedSoFar
      <4>3. before \in Nat
        BY <1>4, <1>14
      <4> QED BY <1>7, <3>2, <4>1, <4>2, <4>3
    <3> QED BY <3>1, <3>2
  <2>3. /\ Lists(w.seen \o s, F)
        /\ \A k \in 1..Len(s) : s[k] \in F /\ Lists(w.seen \o SubSeq(s, 1, k), DownTo(F, s[k]))
    <3>1. F \in SUBSET Nat
      BY <1>4, <1>7
    <3>2. b \in Nat
      OBVIOUS
    <3>3. PICK t : t = w.seen
      OBVIOUS
    <3>4. Lists(t, DownTo(F, b)) /\ Lists(s, Before(F, b))
      BY <1>9, <2>2, <3>3
    <3>5. /\ Lists(t \o s, F)
          /\ \A k \in 1..Len(s) : s[k] \in F /\ Lists(t \o SubSeq(s, 1, k), DownTo(F, s[k]))
      BY ONLY <3>1, <3>2, <3>4, PageExtends
    <3> QED BY <3>3, <3>5
  <2>4. CASE a.nextBefore = 0
    <3>1. a.page = s
      <4>1. ~ \E k \in 1..Len(s) : a.nextBefore = s[k]
        BY <1>4, <1>9, <2>4
      <4> QED BY <1>11, <2>1, <2>7, <4>1 DEF TakenFrom
    <3> QED BY <1>6, <1>13, <2>3, <2>4, <2>7, <3>1 DEF ListedSoFar
  <2>5. CASE a.nextBefore # 0
    <3>1. PICK k \in 1..Len(s) : a.page = SubSeq(s, 1, k) /\ a.nextBefore = s[k]
      BY <1>11, <2>5, <2>7 DEF TakenFrom
    <3>2. v.at = "walking" /\ v.before = s[k] /\ v.seen = w.seen \o SubSeq(s, 1, k) /\ AncestorsIn(ps)[v.from] = F
      BY <1>6, <1>13, <2>5, <3>1
    <3>3. s[k] \in F /\ Lists(w.seen \o SubSeq(s, 1, k), DownTo(F, s[k]))
      BY <2>3, <3>1
    <3> QED BY <3>2, <3>3 DEF ListedSoFar
  <2> QED BY <2>4, <2>5
<1>17. WalkFits(v, ps)
  <2>1. v.before \in 0..Len(ps) /\ v.from \in 0..Len(ps) /\ v.from # 0
    BY <1>4, <1>12, <1>13, <1>14
  <2>2. v.at # "idle" /\ ~(v.at = "walking" /\ v.before = 0)
    BY <1>13
  <2>3. v.limit >= 1 /\ (v.via = "mcp" => v.limit < ServiceCap)
    BY <1>10, <1>13
  <2> QED BY <1>16, <2>1, <2>2, <2>3 DEF WalkFits
<1>18. walk' \in [Readers -> WalkRecs] /\ \A q \in Readers : walk'[q] = IF q = r THEN v ELSE walk[q]
  BY <1>3, <1>15 DEF HistoryInv
<1>19. \A q \in Readers : WalkFits(walk'[q], parents')
  BY <1>1, <1>3, <1>17, <1>18 DEF HistoryInv
<1>20. GraphOK(parents') /\ main' \in 1..Len(parents') /\ side' \in 1..Len(parents') /\ DiffFits(diff')
  BY <1>3 DEF HistoryInv
<1> QED BY <1>18, <1>19, <1>20 DEF HistoryInv

(* A walk starts at the tip with a limit that is accepted. *)
LEMMA StartFits ==
    ASSUME HistoryAssumption, HistoryInv, NEW r \in Readers, NEW via \in {"rest", "mcp"}, NEW asked \in AskedLimits,
           StartWalk(r, via, asked)
    PROVE  HistoryInv'
<1>1. PICK limit : limit = IF via = "rest" THEN RestLimit(asked) ELSE asked
  OBVIOUS
<1>2. asked \in Int /\ RestCap \in Nat \ {0} /\ McpCap \in Nat \ {0} /\ RestDefault \in 1..RestCap /\ ServiceCap \in Nat /\ McpCap < ServiceCap
  BY DEF HistoryAssumption
<1>3. limit \in Nat /\ limit >= 1 /\ (via = "mcp" => limit < ServiceCap)
  BY <1>1, <1>2 DEF RestLimit, StartWalk, McpLimitOk
<1>4. PICK u : u = NoWalk
  OBVIOUS
<1>5. u \in WalkRecs /\ u.before = 0 /\ u.seen = << >> /\ u.from = 0
  BY <1>4 DEF NoWalk, WalkRecs
<1>6. PICK v : v = [u EXCEPT !.at = "walking", !.via = via, !.limit = limit]
  OBVIOUS
<1>12. v \in WalkRecs /\ v.at = "walking" /\ v.via = via /\ v.limit = limit /\ v.before = 0 /\ v.seen = << >> /\ v.from = 0
  BY <1>3, <1>5, <1>6 DEF WalkRecs
<1>13. walk' = [walk EXCEPT ![r] = v] /\ UNCHANGED <<parents, main, side, diff>>
  BY <1>1, <1>4, <1>6 DEF StartWalk
<1>7. Len(parents) \in Nat
  BY ParentsAreOlder DEF HistoryInv
<1>8. WalkFits(v, parents)
  BY <1>3, <1>7, <1>12 DEF WalkFits
<1>9. walk' \in [Readers -> WalkRecs] /\ \A q \in Readers : walk'[q] = IF q = r THEN v ELSE walk[q]
  BY <1>12, <1>13 DEF HistoryInv
<1>10. \A q \in Readers : WalkFits(walk'[q], parents')
  BY <1>8, <1>9, <1>13 DEF HistoryInv
<1>11. GraphOK(parents') /\ main' \in 1..Len(parents') /\ side' \in 1..Len(parents') /\ DiffFits(diff')
  BY <1>13 DEF HistoryInv
<1> QED BY <1>9, <1>10, <1>11 DEF HistoryInv

(* A diff answered fits its budget. *)
LEMMA DiffStepFits ==
    ASSUME HistoryAssumption, HistoryInv, NEW n \in Nat, NEW sizes \in [1..n -> PatchSizes], GetDiff(sizes)
    PROVE  HistoryInv'
<1>1. sizes \in [1..n -> Nat] /\ DOMAIN sizes = 1..n
  BY DEF HistoryAssumption
<1>2. PICK sent : sent = PatchesSent(sizes)
  OBVIOUS
<1>3. PICK d : d = [sizes |-> sizes, sent |-> sent, truncated |-> sent # DOMAIN sizes]
  OBVIOUS
<1>4. diff' = d /\ UNCHANGED <<parents, main, side, walk>>
  BY <1>2, <1>3 DEF GetDiff
<1>5. sent \in SUBSET (1..n) /\ \E g : SumRule(g, sizes, 1..n) /\ g[sent] <= DiffBudget
  BY <1>1, <1>2, SentFits
<1>6. (sent # 1..n) <=> \E i \in 1..n : i \notin sent
  BY <1>5
<1>7. DiffFits(d)
  BY <1>1, <1>3, <1>5, <1>6 DEF DiffFits
<1>8. \A r \in Readers : WalkFits(walk'[r], parents')
  BY <1>4 DEF HistoryInv
<1> QED BY <1>4, <1>7, <1>8 DEF HistoryInv

(* History starts with one commit and no reader. *)
LEMMA HistoryStarts == ASSUME HistoryAssumption, HistoryInit PROVE HistoryInv
<1>1. GraphOK(parents) /\ main \in 1..Len(parents) /\ side \in 1..Len(parents)
  BY DEF HistoryInit, GraphOK
<1>2. NoWalk \in WalkRecs /\ WalkFits(NoWalk, parents)
  BY DEF HistoryInit, NoWalk, WalkRecs, WalkFits
<1>3. walk \in [Readers -> WalkRecs] /\ \A r \in Readers : WalkFits(walk[r], parents)
  BY <1>2 DEF HistoryInit
<1>4. DiffFits(diff)
  <2>1. DiffBudget \in Nat
    BY DEF HistoryAssumption
  <2>2. << >> \in [1..0 -> Nat] /\ 1..0 = {} /\ DOMAIN << >> = {}
    OBVIOUS
  <2>3. PICK g : SumRule(g, << >>, {})
    BY <2>2, FS_EmptySet, SumExists
  <2>4. g[{}] = 0
    BY <2>3 DEF SumRule, RuleAt
  <2>5. diff.sizes = << >> /\ diff.sent = {} /\ diff.truncated = FALSE
    BY DEF HistoryInit
  <2>6. 0 <= DiffBudget
    BY <2>1
  <2> QED BY <2>2, <2>3, <2>4, <2>5, <2>6 DEF DiffFits
<1> QED BY <1>1, <1>3, <1>4 DEF HistoryInv

(* A walk that was cut short has listed the commits from its oldest on. *)
LEMMA CutIsListed ==
    ASSUME NEW t, NEW F \in SUBSET Nat, CutListed(t, F)
    PROVE  NewestFirst({c \in F : \E i \in DOMAIN t : t[i] <= c}) = t
<1> DEFINE G == {c \in F : \E i \in DOMAIN t : t[i] <= c}
<1>3. F \subseteq Nat
  OBVIOUS
<1>1. CASE t = << >>
  <2>1. G = {}
    BY <1>1
  <2>2. Lists(t, {})
    BY <1>1 DEF Lists
  <2> HIDE DEF G
  <2> QED BY <2>1, <2>2, NewestFirstIs DEF G
<1>2. ASSUME NEW b \in F, Lists(t, DownTo(F, b)) PROVE NewestFirst(G) = t
  <2>1. /\ DOMAIN t = 1..Len(t) /\ \A i \in 1..Len(t) : t[i] \in Nat /\ t[i] \in DownTo(F, b)
        /\ DownTo(F, b) \subseteq Nat /\ \A x \in DownTo(F, b) : \E i \in 1..Len(t) : x = t[i]
    BY <1>2, ListOf
  <2>2. G = DownTo(F, b)
    <3>1. b \in Nat
      BY <1>3
    <3>2. ASSUME NEW c \in G PROVE c \in DownTo(F, b)
      <4>1. PICK i \in 1..Len(t) : t[i] <= c
        BY <2>1
      <4>2. PICK x : x = t[i] /\ x \in Nat /\ x >= b
        BY <2>1 DEF DownTo
      <4>3. c \in Nat /\ c \in F
        BY <1>3
      <4> QED BY <3>1, <4>1, <4>2, <4>3 DEF DownTo
    <3>3. ASSUME NEW c \in DownTo(F, b) PROVE c \in G
      <4>1. c \in F /\ c \in Nat
        BY <1>3 DEF DownTo
      <4>2. PICK i \in 1..Len(t) : c = t[i]
        BY <2>1
      <4> QED BY <2>1, <4>1, <4>2
    <3> HIDE DEF G
    <3> QED BY <3>2, <3>3
  <2> HIDE DEF G
  <2> QED BY <1>2, <2>2, NewestFirstIs
<1> QED BY <1>1, <1>2 DEF CutListed

(* The invariant entails what the readers are promised. *)
LEMMA HistoryIsTold == ASSUME HistoryInv PROVE ReadsAreComplete
<1>1. DiffWithinBudget
  BY DiffIsWithin DEF HistoryInv
<1>2. ASSUME NEW r \in Readers, walk[r].at = "done", Linear(walk[r].from), walk[r].via = "rest" => walk[r].limit < ServiceCap
      PROVE  /\ ~walk[r].cut => walk[r].seen = NewestFirst(Ancestors[walk[r].from])
             /\ walk[r].cut => walk[r].seen = NewestFirst({c \in Ancestors[walk[r].from] :
                                                \E i \in DOMAIN walk[r].seen : walk[r].seen[i] <= c})
  <2>1. PICK w : w = walk[r]
    OBVIOUS
  <2>2. WalkFits(w, parents) /\ w.at = "done"
    BY <1>2, <2>1 DEF HistoryInv
  <2>3. ListsAll(w, parents)
    BY <1>2, <2>1, LinearAre DEF ListsAll
  <2>4. PICK F : F = AncestorsIn(parents)[w.from]
    OBVIOUS
  <2>5. (~w.cut => Lists(w.seen, F)) /\ (w.cut => CutListed(w.seen, F))
    BY <2>2, <2>3, <2>4 DEF WalkFits, ListedSoFar
  <2>6. ~w.cut => NewestFirst(F) = w.seen
    BY <2>5, NewestFirstIs
  <2>8. F \in SUBSET Nat
    <3>1. GraphOK(parents) /\ Len(parents) \in Nat /\ w.from \in 1..Len(parents)
      BY <2>2, ParentsAreOlder DEF HistoryInv, WalkFits
    <3>2. F \subseteq 1..w.from
      BY <2>4, <3>1, AncestryFacts
    <3> QED BY <3>1, <3>2
  <2>7. w.cut => NewestFirst({c \in F : \E i \in DOMAIN w.seen : w.seen[i] <= c}) = w.seen
    BY <2>5, <2>8, CutIsListed
  <2> QED BY <2>1, <2>4, <2>6, <2>7, AncestorsAre
<1>3. PagesListHistory
  BY <1>2 DEF PagesListHistory
<1> QED BY <1>1, <1>3 DEF ReadsAreComplete

(* Every step keeps the invariant. *)
LEMMA HistoryKept == ASSUME HistoryAssumption, HistoryInv, [HistoryNext]_historyVars PROVE HistoryInv'
<1>1. CASE Commit \/ CommitOnSide \/ MergeSide
  BY <1>1, CommitsKeepWalks
<1>2. CASE \E r \in Readers, via \in {"rest", "mcp"}, asked \in AskedLimits : StartWalk(r, via, asked)
  BY <1>2, StartFits
<1>3. CASE \E r \in Readers, failed \in BOOLEAN : NextPage(r, failed)
  BY <1>3, PageFits
<1>4. CASE \E n \in 0..MaxDiffFiles : \E sizes \in [1..n -> PatchSizes] : GetDiff(sizes)
  <2>1. PICK n \in 0..MaxDiffFiles : \E sizes \in [1..n -> PatchSizes] : GetDiff(sizes)
    BY <1>4
  <2>2. n \in Nat
    BY DEF HistoryAssumption
  <2> QED BY <2>1, <2>2, DiffStepFits
<1>5. CASE UNCHANGED historyVars
  <2>1. UNCHANGED <<parents, main, side, walk, diff>>
    BY <1>5 DEF historyVars
  <2> QED BY <2>1 DEF HistoryInv
<1> QED BY <1>1, <1>2, <1>3, <1>4, <1>5 DEF HistoryNext

(* A walk over the pages of a linear history (gitService.GetLog behind the REST handler
   and the MCP tool) lists every commit once and newest first whatever is committed
   between the pages, or, when git failed on a page, the newest of them without a gap;
   and the patches of a diff fit the byte budget together. *)
THEOREM ReadsTellAll == HistorySpec => []ReadsAreComplete
<1>1. HistoryInit => HistoryInv
  BY HistoryStarts, HistoryAssumption
<1>2. HistoryInv /\ [HistoryNext]_historyVars => HistoryInv'
  BY HistoryKept, HistoryAssumption
<1>3. HistoryInv => ReadsAreComplete
  BY HistoryIsTold
<1> QED BY <1>1, <1>2, <1>3, PTL DEF HistorySpec
=============================================================================
