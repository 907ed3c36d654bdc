----------------------------- MODULE MirrorSync -----------------------------
(***************************************************************************)
(* One site's published branch and its mirror at GitHub.  A save pushes    *)
(* after it has released the write lock, "sync now" pushes under the read  *)
(* lock, a webhook delivery fetches and fast-forwards under the write      *)
(* lock.  Deliveries may be lost, late or repeated: one may arrive at any  *)
(* time.  A branch tip is represented by its history, the set of commits   *)
(* reachable from it: histories are equal when the tips are, and one is    *)
(* inside the other when its tip is an ancestor.                           *)
(***************************************************************************)
EXTENDS Naturals, FiniteSets

CONSTANTS
    Pushers,         \* requests in flight that may push
    Repos,           \* repositories at GitHub
    NoRepo,          \* no mirror configured
    EnvMirror,       \* KOTOJI_GITHUB_ENABLED and a token in the environment
    MaxMirrorCommits,
    MaxMirrorFaults

ASSUME MirrorAssumption ==
    /\ NoRepo \notin Repos /\ EnvMirror \in BOOLEAN
    /\ MaxMirrorCommits \in Nat /\ MaxMirrorFaults \in Nat

VARIABLES
    local,       \* history of refs/heads/published, {} when there is no such branch
    tracking,    \* history of refs/remotes/origin/published, the lease of a push
    origin,      \* the git remote "origin"
    column,      \* sites.github_repo, as it was typed
    dbMirror,    \* the admin's setting: "unset", "on" or "off"
    github,      \* github[r]: history of r's published branch
    push,        \* push[p]: where a push is and what it has read
    fetch,       \* the delivery under the write lock: its stage and what it fetched
    made,        \* commits made so far
    seen,        \* commits some fetch has brought
    overwritten, \* commits a push of ours removed from a repository
    unmerged,    \* fetched commits a delivery answered "updated" for without having them
    mirrorFaults

mirrorVars == <<local, tracking, origin, column, dbMirror, github, push, fetch, made, seen,
                overwritten, unmerged, mirrorFaults>>

Commits == 1 .. MaxMirrorCommits

(* What validateRemoteURL lets through: a GitHub repository in short or in URL form. *)
Forms == {"owner/repo", "url"}
Unlinked == [repo |-> NoRepo, form |-> "owner/repo"]

NoPush == [at |-> "idle", repo |-> NoRepo, advertised |-> {}, sent |-> {}]
NoFetch == [at |-> "idle", tip |-> {}]

MirrorInit ==
    /\ local = {} /\ tracking = {} /\ origin = NoRepo /\ column = Unlinked
    /\ dbMirror = "unset" /\ github = [r \in Repos |-> {}]
    /\ push = [p \in Pushers |-> NoPush] /\ fetch = NoFetch
    /\ made = 0 /\ seen = {} /\ overwritten = {} /\ unmerged = {} /\ mirrorFaults = 0

Fault == mirrorFaults < MaxMirrorFaults /\ mirrorFaults' = mirrorFaults + 1
NoFault == UNCHANGED mirrorFaults

(* MirrorPush holds the read lock for the length of its push. *)
Reading == \E p \in Pushers : push[p].at \in {"synced", "syncing", "synctrack"}
WriteLockFree == fetch.at = "idle" /\ ~Reading

-----------------------------------------------------------------------------
(* A save, publish, import or rollback moves the branch forward under the write
   lock; its push comes after the unlock. *)
Save(p) ==
    /\ push[p].at = "idle" /\ WriteLockFree /\ made < MaxMirrorCommits
    /\ made' = made + 1
    /\ local' = local \cup {made + 1}
    /\ push' = [push EXCEPT ![p].at = "saved"]
    /\ UNCHANGED <<tracking, origin, column, dbMirror, github, fetch, seen, overwritten, unmerged, mirrorFaults>>

(* The effective switch: the setting over the environment; a failing read of the
   settings leaves the environment's. *)
MirrorEnabled == IF dbMirror = "unset" THEN EnvMirror ELSE dbMirror = "on"

BestEffortMirror(p) ==
    /\ push[p].at = "saved"
    /\ \E enabled \in BOOLEAN :
          /\ \/ enabled = MirrorEnabled /\ NoFault
             \/ enabled = EnvMirror /\ Fault
          /\ push' = [push EXCEPT ![p].at = IF enabled /\ origin # NoRepo THEN "push" ELSE "idle"]
    /\ UNCHANGED <<local, tracking, origin, column, dbMirror, github, fetch, made, seen, overwritten, unmerged>>

(* The sync-now endpoint asks for the column first; then MirrorPush. *)
MirrorPush(p) ==
    /\ push[p].at = "idle" /\ fetch.at = "idle"
    /\ column # Unlinked
    /\ push' = [push EXCEPT ![p].at = "synced"]
    /\ UNCHANGED <<local, tracking, origin, column, dbMirror, github, fetch, made, seen, overwritten, unmerged, mirrorFaults>>

(* git push, step 1: connect to origin, which lists its branches. *)
PushConnect(p) ==
    /\ push[p].at \in {"push", "synced"}
    /\ push' = [push EXCEPT ![p] =
          IF origin = NoRepo THEN NoPush
          ELSE [NoPush EXCEPT !.at = IF push[p].at = "synced" THEN "syncing" ELSE "pushing",
                              !.repo = origin, !.advertised = github[origin]]]
    /\ UNCHANGED <<local, tracking, origin, column, dbMirror, github, fetch, made, seen, overwritten, unmerged, mirrorFaults>>

LeaseHolds(p) == tracking = push[p].advertised

Tracked(p) == IF push[p].at = "syncing" THEN "synctrack" ELSE "track"

(* git push, step 2: send the local tip if the lease holds; the remote takes it only
   when its branch is still as advertised.  A fault cuts the connection before or
   after the remote has taken it. *)
PushSend(p) ==
    /\ push[p].at \in {"pushing", "syncing"}
    /\ LET r == push[p].repo
           upToDate == local = push[p].advertised
           accepted == ~upToDate /\ LeaseHolds(p) /\ github[r] = push[p].advertised
       IN  \/ /\ local # {} /\ (accepted \/ upToDate)
              /\ \/ NoFault /\ push' = [push EXCEPT ![p] = [@ EXCEPT !.at = Tracked(p), !.sent = local]]
                 \/ Fault /\ push' = [push EXCEPT ![p] = NoPush]
              /\ github' = [github EXCEPT ![r] = IF accepted THEN local ELSE @]
              /\ overwritten' = IF accepted THEN overwritten \cup (github[r] \ local) ELSE overwritten
           \/ /\ \/ ~(local # {} /\ (accepted \/ upToDate)) /\ NoFault
                 \/ Fault
              /\ push' = [push EXCEPT ![p] = NoPush]
              /\ UNCHANGED <<github, overwritten>>
    /\ UNCHANGED <<local, tracking, origin, column, dbMirror, fetch, made, seen, unmerged>>

(* git push, step 3: note what the remote has now, whatever came in between. *)
PushTrack(p) ==
    /\ push[p].at \in {"track", "synctrack"}
    /\ tracking' = push[p].sent
    /\ push' = [push EXCEPT ![p] = NoPush]
    /\ UNCHANGED <<local, origin, column, dbMirror, github, fetch, made, seen, overwritten, unmerged, mirrorFaults>>

-----------------------------------------------------------------------------
Fetchable == origin \in {r \in Repos : github[r] # {}}

(* A delivery for repository r, signed and about the published branch (any other is
   answered without effect): the site is looked up by "owner/repo" in the column, the
   fetch goes to origin. *)
Webhook(r) ==
    /\ column = [repo |-> r, form |-> "owner/repo"] /\ WriteLockFree
    /\ \/ /\ Fetchable /\ NoFault
          /\ tracking' = github[origin]
          /\ seen' = seen \cup github[origin]
          /\ fetch' = [at |-> "fetched", tip |-> github[origin]]
       \/ ~Fetchable /\ NoFault /\ UNCHANGED <<tracking, seen, fetch>>
       \/ Fault /\ UNCHANGED <<tracking, seen, fetch>>
    /\ UNCHANGED <<local, origin, column, dbMirror, github, push, made, overwritten, unmerged>>

AnyTip(tip) == TRUE  \* mutant
FastForward(tip) == local \subseteq tip

(* The rest of FetchAndUpdate reads the tracking ref again: create the branch, find
   nothing new, fast-forward, or refuse.  A fault fails the update. *)
FetchAndUpdate ==
    /\ fetch.at = "fetched"
    /\ fetch' = NoFetch
    /\ \/ /\ FastForward(tracking) /\ NoFault
          /\ local' = tracking
          /\ unmerged' = unmerged \cup (fetch.tip \ tracking)
       \/ ~FastForward(tracking) /\ NoFault /\ UNCHANGED <<local, unmerged>>
       \/ Fault /\ UNCHANGED <<local, unmerged>>
    /\ UNCHANGED <<tracking, origin, column, dbMirror, github, push, made, seen, overwritten>>

-----------------------------------------------------------------------------
(* SetRemote writes git's configuration, where the two forms are one, then the column;
   the second may fail.  set-url keeps the tracking ref, remote remove drops it. *)
SetRemote(link) ==
    /\ WriteLockFree /\ link # column
    /\ origin' = link.repo
    /\ tracking' = IF link = Unlinked THEN {} ELSE tracking
    /\ \/ column' = link /\ NoFault
       \/ UNCHANGED column /\ Fault
    /\ UNCHANGED <<local, dbMirror, github, push, fetch, made, seen, overwritten, unmerged>>

AdminPutGitHub(v) ==
    /\ dbMirror # v
    /\ dbMirror' = v
    /\ UNCHANGED <<local, tracking, origin, column, github, push, fetch, made, seen, overwritten, unmerged, mirrorFaults>>

(* A commit made at GitHub, a merged pull request say. *)
GitHubCommit(r) ==
    /\ made < MaxMirrorCommits
    /\ made' = made + 1
    /\ github' = [github EXCEPT ![r] = @ \cup {made + 1}]
    /\ UNCHANGED <<local, tracking, origin, column, dbMirror, push, fetch, seen, overwritten, unmerged, mirrorFaults>>

MirrorNext ==
    \/ \E p \in Pushers :
          Save(p) \/ BestEffortMirror(p) \/ MirrorPush(p) \/ PushConnect(p) \/ PushSend(p) \/ PushTrack(p)
    \/ \E r \in Repos : Webhook(r) \/ GitHubCommit(r)
    \/ FetchAndUpdate
    \/ \E link \in [repo : Repos, form : Forms] \cup {Unlinked} : SetRemote(link)
    \/ \E v \in {"on", "off"} : AdminPutGitHub(v)

MirrorSpec == MirrorInit /\ [][MirrorNext]_mirrorVars

-----------------------------------------------------------------------------
(* A push of ours never removes a commit from GitHub that no fetch has brought here,
   however unlocked pushes, deliveries, changed remotes and cut connections
   interleave: what --force-with-lease is for. *)
NoUnseenOverwrite == overwritten \subseteq seen

(* A delivery fast-forwards the live branch and never takes a published commit off
   it, although it compares with a tracking ref that pushes move meanwhile. *)
LocalOnlyAdvances == [][local \subseteq local']_mirrorVars

(* Pushing and fetching lose nothing unseen, on either side of the mirror. *)
NothingUnseenLost == []NoUnseenOverwrite /\ LocalOnlyAdvances

(* "fetch origin, fast-forward the local branch [...] Non-FF is rejected and flagged
   (ErrPublishConflict)": a delivery answered "updated" has brought what it fetched
   into the local branch. *)
UpdatedHasFetched == unmerged = {}
=============================================================================
