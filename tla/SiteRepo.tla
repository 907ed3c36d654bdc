------------------------------ MODULE SiteRepo ------------------------------
(***************************************************************************)
(* One site's git repository as site.gitService drives it: the branch      *)
(* refs, the single shared HEAD / index / worktree, the served trees that  *)
(* live INSIDE the worktree (served/{branch}), the published pointer of    *)
(* the sites row and the GitHub mirror's published branch.                 *)
(*                                                                         *)
(* A mutating call is a critical section under withWriteLock, cut into the *)
(* git commands it runs, because a command may fail, time out or be killed *)
(* between any two of them and the code never cleans up what the earlier   *)
(* ones left in the index and the worktree.  `cur' is the section in       *)
(* progress; that there is at most one is the lock's contract, which       *)
(* module SiteLock examines.  What runs outside the lock interleaves here: *)
(* refreshServed after the unlock, ServedTree, DeleteSite, GitHub pushes.  *)
(***************************************************************************)
EXTENDS Integers, FiniteSets

CONSTANTS
    Draft, Published,   \* the two logical branches the service manages
    Feature,            \* the names CreateBranch may introduce
    Paths,              \* site files
    Contents,           \* file contents
    Absent,             \* "no such entry"
    Seed,               \* content of the placeholder index.html
    Home,               \* the path initRepo seeds
    MaxCommits,         \* bound on commit objects
    Ops,                \* the operations an instance exercises
    MaxFaults           \* bound on failed, killed or timed-out commands

Branches == {Draft, Published} \cup Feature
Working  == Branches \ {Published}

ASSUME BranchAssumption ==
    /\ Draft # Published
    /\ {Draft, Published} \cap Feature = {}
ASSUME EntryAssumption ==
    /\ Paths \cap Branches = {}
    /\ Home \in Paths /\ Seed \in Contents
    /\ Absent \notin Contents /\ Absent \notin Nat
    /\ Contents \cap Nat = {}
ASSUME BoundAssumption == MaxCommits \in Nat \ {0} /\ MaxFaults \in Nat

NoCommit == 0
Commits  == 1..MaxCommits

(* A tree maps every site file to its content, and every branch b (standing
   for the directory served/b, which no .gitignore or info/exclude hides) to
   the commit whose export it holds. *)
Entries == Paths \cup Branches
Values  == Contents \cup Nat \cup {Absent}
Trees   == [Entries -> Values]

WriteOps == {"WriteFile", "DeleteFile", "Commit", "ImportZip", "Rollback"}
Requests == [op : WriteOps \cup {"Publish", "Fetch", "External", "Init"},
             branch : Branches, base : Nat, path : Paths,
             content : Contents, target : Nat]

VARIABLES
    n,          \* commit objects 1..n exist
    tree,       \* tree[c]: the commit's tree
    anc,        \* anc[c]: the commits reachable from c, c included
    made,       \* made[c]: [parent, on, req] - first parent, branch, request
    refs,       \* refs[b]: tip of refs/heads/b or NoCommit
    head,       \* the branch HEAD names
    index,      \* the one index
    wt,         \* the worktree's site files
    served,     \* served[b]: commit exported under served/b, or Absent
    cur,        \* critical section in progress: [stage, req, sha]
    refreshing, \* branches whose refreshServed runs after the unlock
    acked,      \* what callers were told succeeded: [on, sha, base, op]
    pointer,    \* sites.published_commit_sha
    origin,     \* GitHub's published branch
    live,       \* sites.deleted_at IS NULL
    indexLock,  \* a killed git left .git/index.lock behind
    faults

repo == <<n, tree, anc, made>>
area == <<index, wt, served>>
env  == <<origin, live>>
vars == <<repo, refs, head, area, cur, refreshing, acked, pointer, env,
          indexLock, faults>>

Request(op, b, base, p, c, t) ==
    [op |-> op, branch |-> b, base |-> base, path |-> p, content |-> c, target |-> t]
NoRequest == Request("Init", Draft, NoCommit, Home, Seed, NoCommit)
Free == [stage |-> "free", req |-> NoRequest, sha |-> NoCommit]

Stages == {"free", "out", "edited", "loaded", "written", "staged", "committed",
           "moved", "synced"}

(* The whole worktree: site files and the served directories among them. *)
Worktree == [e \in Entries |-> IF e \in Paths THEN wt[e] ELSE served[e]]

Tip(b)   == refs[b]
HeadTree == tree[refs[head]]

-----------------------------------------------------------------------------
(***************************************************************************)
(* git commands (external: the behaviour of the git binary the code runs). *)
(***************************************************************************)

(* `git checkout': an entry moves to the target unless HEAD and target agree
   on it or the index already holds the target's version; it refuses to
   overwrite a staged or worktree change. *)
KeepsEntry(h, t, i) == h = t \/ i = t
EntryCanSwitch(h, t, i, w) ==
    \/ h = t
    \/ i = t /\ (t # Absent \/ w = Absent)
    \/ i = h /\ w \in {h, Absent}

CanCheckout(b) ==
    \A e \in Entries :
        EntryCanSwitch(HeadTree[e], tree[refs[b]][e], index[e], Worktree[e])

SwitchEntry(b, e, old) ==
    IF KeepsEntry(HeadTree[e], tree[refs[b]][e], index[e])
    THEN old ELSE tree[refs[b]][e]

(* `git commit': one new commit on the branch HEAD names. *)
NewCommit(parents, t, m) ==
    /\ n < MaxCommits
    /\ n' = n + 1
    /\ tree' = [c \in 1..n+1 |-> IF c = n+1 THEN t ELSE tree[c]]
    /\ anc'  = [c \in 1..n+1 |->
                  IF c = n+1 THEN {n+1} \cup UNION {anc[p] : p \in parents}
                  ELSE anc[c]]
    /\ made' = [c \in 1..n+1 |-> IF c = n+1 THEN m ELSE made[c]]

(* `git merge' of theirs into ours over one best common ancestor. *)
MergeBases(a, b) ==
    {c \in anc[a] \cap anc[b] :
        \A d \in anc[a] \cap anc[b] : c \in anc[d] => d = c}
Conflicts(o, t, b) == {e \in Entries : o[e] # t[e] /\ o[e] # b[e] /\ t[e] # b[e]}
Merged(o, t, b) == [e \in Entries |-> IF o[e] = b[e] THEN t[e] ELSE o[e]]

-----------------------------------------------------------------------------
(***************************************************************************)
(* CreateSite / initRepo leave the seeded draft branch behind.             *)
(***************************************************************************)
SeedTree == [e \in Entries |-> IF e = Home THEN Seed ELSE Absent]

Init ==
    /\ n = 1
    /\ tree = [c \in 1..1 |-> SeedTree]
    /\ anc = [c \in 1..1 |-> {1}]
    /\ made = [c \in 1..1 |-> [parent |-> NoCommit, on |-> Draft, req |-> NoRequest]]
    /\ refs = [b \in Branches |-> IF b = Draft THEN 1 ELSE NoCommit]
    /\ head = Draft
    /\ index = SeedTree
    /\ wt = [p \in Paths |-> SeedTree[p]]
    /\ served = [b \in Branches |-> Absent]
    /\ cur = Free
    /\ refreshing = {}
    /\ acked = {}
    /\ pointer = NoCommit
    /\ origin = NoCommit
    /\ live = TRUE
    /\ indexLock = FALSE
    /\ faults = 0

-----------------------------------------------------------------------------
(***************************************************************************)
(* The critical sections of WriteFile, DeleteFile, Commit, ImportZip and   *)
(* Rollback.  A rejected request (conflict, missing branch, published)     *)
(* changes nothing and is no step.                                         *)
(***************************************************************************)
Enter(stage, q) == cur' = [stage |-> stage, req |-> q, sha |-> NoCommit]
Move(stage)     == cur' = [cur EXCEPT !.stage = stage]

(* checkBaseSHA: the branch exists and its tip is the base the caller sent. *)
BaseIgnored(q) == Tip(q.branch) # NoCommit          \* mutant: no comparison
BaseMatches(q) == Tip(q.branch) # NoCommit /\ q.base = Tip(q.branch)

(* refuseProtectedBranch, requireSite, checkBaseSHA, the ancestor check of
   Rollback, then checkoutBranch, which does nothing when HEAD is the branch. *)
CheckoutForWrite(q) ==
    /\ cur = Free /\ live
    /\ q.op \in WriteOps /\ q.branch # Published
    /\ BaseMatches(q)
    /\ q.op = "Rollback" => q.target \in anc[Tip(q.branch)]
    /\ n < MaxCommits
    /\ \/ q.branch = head /\ UNCHANGED area
       \/ /\ q.branch # head /\ ~indexLock /\ CanCheckout(q.branch)
          /\ index'  = [e \in Entries  |-> SwitchEntry(q.branch, e, index[e])]
          /\ wt'     = [p \in Paths    |-> SwitchEntry(q.branch, p, wt[p])]
          /\ served' = [b \in Branches |-> SwitchEntry(q.branch, b, served[b])]
    /\ head' = q.branch
    /\ Enter("out", q)
    /\ UNCHANGED <<repo, refs, refreshing, acked, pointer, env, indexLock, faults>>

(* ImportZip skips both the base check and the checkout when the branch does
   not exist, and goes on with whatever HEAD names. *)
ImportWithoutBranch(q) ==
    /\ cur = Free /\ live
    /\ q.op = "ImportZip" /\ q.branch # Published
    /\ Tip(q.branch) = NoCommit
    /\ n < MaxCommits
    /\ Enter("out", q)
    /\ UNCHANGED <<repo, refs, head, area, refreshing, acked, pointer, env,
                   indexLock, faults>>

(* A `git checkout' killed half way: some files are already rewritten, the new
   index and HEAD are not, and index.lock stays. *)
CheckoutKilled(q) ==
    /\ cur = Free /\ live /\ faults < MaxFaults
    /\ q.op \in WriteOps /\ q.branch \notin {Published, head}
    /\ BaseMatches(q)
    /\ ~indexLock /\ CanCheckout(q.branch)
    /\ \E done \in SUBSET {e \in Entries : HeadTree[e] # tree[Tip(q.branch)][e]} :
          /\ wt' = [p \in Paths |->
                      IF p \in done THEN SwitchEntry(q.branch, p, wt[p]) ELSE wt[p]]
          /\ served' = [b \in Branches |->
                      IF b \in done THEN SwitchEntry(q.branch, b, served[b]) ELSE served[b]]
    /\ indexLock' = TRUE
    /\ faults' = faults + 1
    /\ UNCHANGED <<repo, refs, head, index, cur, refreshing, acked, pointer, env>>

(* The files of an uploaded archive. *)
Archive(q) == [p \in Paths |-> IF p = q.path THEN q.content ELSE Absent]

(* os.WriteFile of the blob, or replaceWorktree: wipe all but served/. *)
EditWorktree ==
    /\ cur.stage = "out"
    /\ \/ cur.req.op = "WriteFile"
          /\ wt' = [wt EXCEPT ![cur.req.path] = cur.req.content]
       \/ cur.req.op = "ImportZip" /\ wt' = Archive(cur.req)
    /\ Move("edited")
    /\ UNCHANGED <<repo, refs, head, index, served, refreshing, acked, pointer,
                   env, indexLock, faults>>

(* `git add -- path' *)
StagedEverything == Worktree                        \* mutant: `git add -A'
StagedPath == [index EXCEPT ![cur.req.path] = wt[cur.req.path]]

AddPath ==
    /\ cur.stage = "edited" /\ cur.req.op = "WriteFile" /\ ~indexLock
    /\ index' = StagedPath
    /\ Move("staged")
    /\ UNCHANGED <<repo, refs, head, wt, served, refreshing, acked, pointer, env,
                   indexLock, faults>>

(* `git add -A': everything in the worktree, the served directories too.
   Commit runs it when `git status' shows any difference. *)
AddAll ==
    /\ ~indexLock
    /\ \/ cur.stage = "edited" /\ cur.req.op = "ImportZip"
       \/ /\ cur.stage = "out" /\ cur.req.op = "Commit"
          /\ index # HeadTree \/ Worktree # index
    /\ index' = Worktree
    /\ Move("staged")
    /\ UNCHANGED <<repo, refs, head, wt, served, refreshing, acked, pointer, env,
                   indexLock, faults>>

(* `git rm -- path', which refuses a path with pending changes. *)
RemovePath ==
    LET p == cur.req.path IN
    /\ cur.stage = "out" /\ cur.req.op = "DeleteFile" /\ ~indexLock
    /\ index[p] # Absent
    /\ wt[p] = Absent \/ (wt[p] = index[p] /\ index[p] = HeadTree[p])
    /\ index' = [index EXCEPT ![p] = Absent]
    /\ wt' = [wt EXCEPT ![p] = Absent]
    /\ Move("staged")
    /\ UNCHANGED <<repo, refs, head, served, refreshing, acked, pointer, env,
                   indexLock, faults>>

(* Rollback: `read-tree', `checkout-index -a -f', `clean -fd'. *)
ReadTree ==
    /\ cur.stage = "out" /\ cur.req.op = "Rollback" /\ ~indexLock
    /\ index' = tree[cur.req.target]
    /\ Move("loaded")
    /\ UNCHANGED <<repo, refs, head, wt, served, refreshing, acked, pointer, env,
                   indexLock, faults>>

WrittenFromIndex ==
    [p \in Paths |-> IF index[p] # Absent THEN index[p] ELSE wt[p]]

CheckoutIndex ==
    /\ cur.stage = "loaded"
    /\ wt' = WrittenFromIndex
    /\ served' = [b \in Branches |-> IF index[b] # Absent THEN index[b] ELSE served[b]]
    /\ Move("written")
    /\ UNCHANGED <<repo, refs, head, index, refreshing, acked, pointer, env,
                   indexLock, faults>>

Clean ==
    /\ cur.stage = "written"
    /\ wt' = [p \in Paths |-> IF index[p] = Absent THEN Absent ELSE wt[p]]
    /\ served' = [b \in Branches |-> IF index[b] = Absent THEN Absent ELSE served[b]]
    /\ Move("staged")
    /\ UNCHANGED <<repo, refs, head, index, refreshing, acked, pointer, env,
                   indexLock, faults>>

(* commitStaged: `git commit' puts the index on the branch HEAD names. *)
CommitParents == {refs[head]}

CommitStaged ==
    /\ cur.stage = "staged" /\ ~indexLock
    /\ index # HeadTree
    /\ NewCommit(CommitParents, index,
                 [parent |-> refs[head], on |-> head, req |-> cur.req])
    /\ refs' = [refs EXCEPT ![head] = n + 1]
    /\ Move("committed")
    /\ UNCHANGED <<head, area, refreshing, acked, pointer, env, indexLock, faults>>

(* commitStaged reads the branch back: rev-parse fails when it is not there, as
   after an ImportZip to a branch that did not exist. *)
ReadBackIgnored(q) == TRUE                          \* mutant: the error is dropped
ReadBack(q) == Tip(q.branch) # NoCommit

(* The call returns the tip it read; the lock is released and refreshServed is
   still to run. *)
Acknowledge ==
    /\ cur.stage = "committed" /\ ReadBack(cur.req)
    /\ acked' = acked \cup {[on |-> cur.req.branch, sha |-> Tip(cur.req.branch),
                             base |-> cur.req.base, op |-> cur.req.op]}
    /\ refreshing' = refreshing \cup {cur.req.branch}
    /\ cur' = Free
    /\ UNCHANGED <<repo, refs, head, area, pointer, env, indexLock, faults>>

(* The call returns an error and unlocks; nothing is undone.  Without a fault
   that is: quota exceeded or a command that refuses (out), a failed `add' on a
   stale index.lock, "nothing to commit", a branch that is not there to read. *)
RefusedUnlessLocked ==  \* mutant: waits for a stale index.lock to go away
    /\ ~indexLock
    /\ \/ cur.stage = "out"
       \/ cur.stage = "staged" /\ index = HeadTree
       \/ cur.stage = "committed" /\ ~ReadBack(cur.req)

Refused ==
    \/ cur.stage = "out"
    \/ indexLock
    \/ cur.stage = "staged" /\ index = HeadTree
    \/ cur.stage = "committed" /\ ~ReadBack(cur.req)

GiveUp ==
    /\ cur # Free /\ cur.stage \notin {"moved", "synced"}
    /\ Refused
    /\ cur' = Free
    /\ UNCHANGED <<repo, refs, head, area, refreshing, acked, pointer, env,
                   indexLock, faults>>

(* A cancelled request, a git timeout or a crash ends the section anywhere; a
   killed command that writes the index may leave index.lock behind. *)
Fault ==
    /\ cur # Free /\ faults < MaxFaults
    /\ faults' = faults + 1
    /\ cur' = Free
    /\ indexLock' \in {indexLock,
                       indexLock \/ cur.stage \in {"out", "edited", "staged"}}
    /\ UNCHANGED <<repo, refs, head, area, refreshing, acked, pointer, env>>

-----------------------------------------------------------------------------
(***************************************************************************)
(* Branch management.                                                      *)
(***************************************************************************)
LocalCommits == {c \in 1..n : \/ made[c].req.op # "External"
                              \/ \E b \in Branches : refs[b] # NoCommit /\ c \in anc[refs[b]]}

(* The start point is one rev-parse resolves.  The sites row is read before the
   lock, so the site may be deleted by now. *)
CreateBranch(b, from) ==
    /\ cur = Free
    /\ b \in Feature /\ refs[b] = NoCommit
    /\ from \in LocalCommits
    /\ refs' = [refs EXCEPT ![b] = from]
    /\ UNCHANGED <<repo, head, area, cur, refreshing, acked, pointer, env,
                   indexLock, faults>>

(* git refuses to delete the branch HEAD names. *)
DeletableAnyway(b) == b \in Feature /\ refs[b] # NoCommit  \* mutant: HEAD's too
Deletable(b) == b \in Feature /\ refs[b] # NoCommit /\ b # head

DeleteBranch(b) ==
    /\ cur = Free
    /\ Deletable(b)
    /\ refs' = [refs EXCEPT ![b] = NoCommit]
    /\ served' = [served EXCEPT ![b] = Absent]
    /\ acked' = {a \in acked : a.on # b}
    /\ UNCHANGED <<repo, head, index, wt, cur, refreshing, pointer, env, indexLock,
                   faults>>

-----------------------------------------------------------------------------
(***************************************************************************)
(* Publish: the source tip is compared with the caller's, then published   *)
(* is created, fast-forwarded or merged into; finishPublish refreshes the  *)
(* served tree and writes the pointer.                                     *)
(***************************************************************************)
Acked(q) == acked' = acked \cup {[on |-> Published, sha |-> q.base,
                                  base |-> q.base, op |-> "Publish"]}
Moved(q, sha) == cur' = [stage |-> "moved", req |-> q, sha |-> sha]
PublishGuard(q) ==
    /\ cur = Free /\ live
    /\ q.op = "Publish" /\ q.branch # Published
    /\ BaseMatches(q)

PublishNoOp(q) ==
    /\ PublishGuard(q) /\ Tip(Published) = q.base
    /\ Acked(q)
    /\ UNCHANGED <<repo, refs, head, area, cur, refreshing, pointer, env, indexLock,
                   faults>>

(* `merge-base --is-ancestor published to' *)
AlwaysForward(to) == TRUE                           \* mutant: a forced update
PublishedIsAncestorOf(to) == Tip(Published) \in anc[to]

PublishForward(q) ==
    /\ PublishGuard(q) /\ Tip(Published) # q.base
    /\ Tip(Published) = NoCommit \/ PublishedIsAncestorOf(q.base)
    /\ refs' = [refs EXCEPT ![Published] = q.base]
    /\ Moved(q, q.base)
    /\ UNCHANGED <<repo, head, area, refreshing, acked, pointer, env, indexLock,
                   faults>>

(* mergeIntoPublished: `git merge --no-ff' of the source tip. *)
SquashParents(q) == {Tip(Published)}                \* mutant: a squash merge
MergeParents(q) == {Tip(Published), q.base}

PublishMerge(q) ==
    /\ PublishGuard(q)
    /\ Tip(Published) # NoCommit /\ ~PublishedIsAncestorOf(q.base)
    /\ \E b \in MergeBases(Tip(Published), q.base) :
          LET ours == tree[Tip(Published)]
              theirs == tree[q.base]
          IN  /\ Conflicts(ours, theirs, tree[b]) = {}
              /\ \/ /\ q.base \notin anc[Tip(Published)]
                    /\ NewCommit(MergeParents(q), Merged(ours, theirs, tree[b]),
                                 [parent |-> Tip(Published), on |-> Published, req |-> q])
                    /\ refs' = [refs EXCEPT ![Published] = n + 1]
                    /\ Moved(q, n + 1)
                 \/ /\ q.base \in anc[Tip(Published)]  \* "Already up to date"
                    /\ Moved(q, Tip(Published))
                    /\ UNCHANGED <<repo, refs>>
    /\ UNCHANGED <<head, area, refreshing, acked, pointer, env, indexLock, faults>>

FinishPublish ==
    /\ cur.stage = "moved" /\ cur.req.op = "Publish"
    /\ served' \in {served, [served EXCEPT ![Published] = Tip(Published)]}
    /\ pointer' = cur.sha
    /\ Acked(cur.req)
    /\ cur' = Free
    /\ UNCHANGED <<repo, refs, head, index, wt, refreshing, env, indexLock, faults>>

-----------------------------------------------------------------------------
(***************************************************************************)
(* FetchAndUpdate, called by the push webhook for the published branch.    *)
(***************************************************************************)
FetchRequest == Request("Fetch", Published, NoCommit, Home, Seed, NoCommit)

(* First sync: the branch is created; the pointer is not written. *)
FetchCreate ==
    /\ cur = Free /\ origin # NoCommit /\ Tip(Published) = NoCommit
    /\ refs' = [refs EXCEPT ![Published] = origin]
    /\ cur' = [stage |-> "synced", req |-> FetchRequest, sha |-> origin]
    /\ UNCHANGED <<repo, head, area, refreshing, acked, pointer, env, indexLock,
                   faults>>

FetchForward ==
    /\ cur = Free /\ origin # NoCommit /\ Tip(Published) # NoCommit
    /\ Tip(Published) # origin /\ PublishedIsAncestorOf(origin)
    /\ refs' = [refs EXCEPT ![Published] = origin]
    /\ Moved(FetchRequest, origin)
    /\ UNCHANGED <<repo, head, area, refreshing, acked, pointer, env, indexLock,
                   faults>>

FinishFetch ==
    /\ \/ cur.stage = "synced" /\ UNCHANGED pointer
       \/ cur.stage = "moved" /\ cur.req.op = "Fetch" /\ pointer' = cur.sha
    /\ served' \in {served, [served EXCEPT ![Published] = Tip(Published)]}
    /\ cur' = Free
    /\ UNCHANGED <<repo, refs, head, index, wt, refreshing, acked, env, indexLock,
                   faults>>

-----------------------------------------------------------------------------
(***************************************************************************)
(* Outside the lock.                                                       *)
(***************************************************************************)

(* refreshServed after the unlock; best effort, and the branch may be gone. *)
RefreshServed(b) ==
    /\ b \in refreshing
    /\ served' \in {served, IF Tip(b) = NoCommit THEN served
                            ELSE [served EXCEPT ![b] = Tip(b)]}
    /\ refreshing' = refreshing \ {b}
    /\ UNCHANGED <<repo, refs, head, index, wt, cur, acked, pointer, env, indexLock,
                   faults>>

(* The data plane asks for a tree (under the read lock). *)
ServedTree(b) ==
    /\ cur = Free /\ live /\ Tip(b) # NoCommit /\ served[b] # Tip(b)
    /\ served' = [served EXCEPT ![b] = Tip(b)]
    /\ UNCHANGED <<repo, refs, head, index, wt, cur, refreshing, acked, pointer, env,
                   indexLock, faults>>

DeleteSite ==
    /\ live
    /\ live' = FALSE
    /\ UNCHANGED <<repo, refs, head, area, cur, refreshing, acked, pointer, origin,
                   indexLock, faults>>

(* Someone pushes published at GitHub: a commit we know, or one new change on top
   of any commit (a push or a force-push). *)
GitHubPush(from) ==
    /\ from \in 1..n
    /\ \/ origin # from /\ origin' = from /\ UNCHANGED repo
       \/ \E p \in Paths, c \in Contents :
            /\ n + 1 < MaxCommits /\ c # tree[from][p]
            /\ NewCommit({from}, [tree[from] EXCEPT ![p] = c],
                  [parent |-> from, on |-> Published,
                   req |-> Request("External", Published, NoCommit, Home, Seed, NoCommit)])
            /\ origin' = n + 1
    /\ UNCHANGED <<refs, head, area, cur, refreshing, acked, pointer, live, indexLock,
                   faults>>

-----------------------------------------------------------------------------
(* The fields an operation does not use have a fixed value. *)
Canonical(q) ==
    /\ q.op \notin {"WriteFile", "DeleteFile", "ImportZip"} => q.path = Home
    /\ q.op \notin {"WriteFile", "ImportZip"} => q.content = Seed
    /\ q.op # "Rollback" => q.target = NoCommit

(* The steps of the section in progress. *)
SectionStep ==
    \/ EditWorktree \/ AddPath \/ AddAll \/ RemovePath
    \/ ReadTree \/ CheckoutIndex \/ Clean
    \/ CommitStaged \/ Acknowledge \/ GiveUp
    \/ FinishPublish \/ FinishFetch

(* What a client's request may start. *)
ClientStep(q) ==
    \/ CheckoutForWrite(q) \/ CheckoutKilled(q) \/ ImportWithoutBranch(q)
    \/ PublishNoOp(q) \/ PublishForward(q) \/ PublishMerge(q)

BranchStep ==
    \/ \E b \in Branches : DeleteBranch(b)
    \/ \E b \in Branches, from \in 1..n : CreateBranch(b, from)

GitHubStep ==
    \/ FetchCreate
    \/ FetchForward
    \/ \E from \in 1..n : GitHubPush(from)

Next ==
    \/ /\ cur = Free
       /\ \E op \in Ops \cap (WriteOps \cup {"Publish"}), b \in Branches, base \in 0..n,
             p \in Paths, c \in Contents, t \in 0..n :
             /\ Canonical(Request(op, b, base, p, c, t))
             /\ ClientStep(Request(op, b, base, p, c, t))
    \/ SectionStep
    \/ Fault
    \/ \E b \in Branches : RefreshServed(b)
    \/ "ServedTree" \in Ops /\ \E b \in Branches : ServedTree(b)
    \/ "Branch" \in Ops /\ BranchStep
    \/ "GitHub" \in Ops /\ GitHubStep
    \/ "DeleteSite" \in Ops /\ DeleteSite

Spec == Init /\ [][Next]_vars

(* A goroutine that holds the lock keeps running: every git command ends
   (gitRunner bounds it by a timeout) and Go schedules the rest. *)
FairSpec == Spec /\ WF_vars(SectionStep)

-----------------------------------------------------------------------------
(***************************************************************************)
(* Properties.                                                             *)
(***************************************************************************)
Acks == [on : Branches, sha : 1..n, base : Nat, op : WriteOps \cup {"Publish"}]

(* Every variable keeps its shape; refs, pointer and origin name existing commits
   or none, and whoever was told of a commit was told of one that exists. *)
TypeOK ==
    /\ n \in Nat \ {0}
    /\ tree \in [1..n -> Trees]
    /\ anc \in [1..n -> SUBSET (1..n)]
    /\ made \in [1..n -> [parent : 0..n, on : Branches, req : Requests]]
    /\ refs \in [Branches -> 0..n]
    /\ head \in Branches
    /\ index \in Trees
    /\ wt \in [Paths -> Values]
    /\ served \in [Branches -> Values]
    /\ cur \in [stage : Stages, req : Requests, sha : 0..n]
    /\ refreshing \in SUBSET Branches
    /\ acked \in SUBSET Acks
    /\ pointer \in 0..n
    /\ origin \in 0..n
    /\ live \in BOOLEAN
    /\ indexLock \in BOOLEAN
    /\ faults \in Nat

(* No operation rewrites history: whatever moves a branch (commits, Rollback,
   Publish's fast-forward or merge, FetchAndUpdate) moves it to a descendant of
   its old tip, "fast-forward, else a merge commit", "NOT a history-rewriting
   reset", "never force-applied". *)
HistoryPreserved ==
    [][\A b \in Branches :
          refs[b] # NoCommit /\ refs'[b] # NoCommit => refs[b] \in anc'[refs'[b]]]_vars

(* The optimistic lock of checkBaseSHA: a write the caller was told succeeded is
   a commit on the branch it named whose parent is the base SHA it sent, so no
   acknowledged write ever silently lands on top of one its author had not seen. *)
AckedOnItsBase ==
    \A a \in acked : a.op \in WriteOps =>
        made[a.sha].parent = a.base /\ made[a.sha].on = a.on

(* What was acknowledged stays reachable: a written commit from its branch, a
   published source tip from published, as long as the branch exists, whatever
   later writes, rollbacks, merges, webhooks and failed calls do. *)
AckedNeverLost ==
    \A a \in acked : refs[a.on] # NoCommit /\ a.sha \in anc[refs[a.on]]

(* HEAD is always an existing working branch.  FetchAndUpdate and Publish move
   refs/heads/published by update-ref without touching index and worktree, which
   is only sound because no write ever leaves published checked out. *)
HeadIsWorkingBranch == head \in Working /\ refs[head] # NoCommit

(* sites.published_commit_sha never runs ahead of the published branch nor names
   a commit outside its history (finishPublish writes it after the ref move). *)
PointerInPublishedHistory ==
    pointer # NoCommit =>
        refs[Published] # NoCommit /\ pointer \in anc[refs[Published]]

(* While no command fails, index and site files are exactly the tip of HEAD's
   branch whenever the lock is free: each request starts from a clean area. *)
CleanBetweenRequests ==
    faults = 0 /\ cur = Free =>
        /\ index = HeadTree
        /\ \A p \in Paths : wt[p] = HeadTree[p]

(* What a request of each kind asks of its commit. *)
AsAsked(q, t) ==
    /\ q.op = "WriteFile"  => t[q.path] = q.content
    /\ q.op = "DeleteFile" => t[q.path] = Absent
    /\ q.op = "ImportZip"  => \A p \in Paths : t[p] = Archive(q)[p]
    /\ q.op = "Rollback"   => t = tree[q.target]

(* Whatever failed calls left in index and worktree, every commit holds what its
   own request asked for: the written file, no deleted one, an archive's site files
   and no others (the served directories aside), the whole tree rolled back to. *)
CommitsAsAsked == \A c \in 1..n : AsAsked(made[c].req, tree[c])

(* WriteFile and DeleteFile change nothing but their path, and Commit, which takes
   what the worktree holds, no site file at all. *)
NothingElseChanged ==
    \A c \in 1..n :
        LET q == made[c].req  before == tree[made[c].parent] IN
        /\ q.op \in {"WriteFile", "DeleteFile"} =>
              \A e \in Entries : e # q.path => tree[c][e] = before[e]
        /\ q.op = "Commit" => \A p \in Paths : tree[c][p] = before[p]

(* Every commit of a write holds what its request asked for, whatever failed before
   it; and until a first command fails or is killed it holds nothing else, and index
   and worktree are clean between requests.  (After a failure it may: see
   WritesOneFile.) *)
CommitsKeepToRequests ==
    /\ CommitsAsAsked
    /\ CleanBetweenRequests
    /\ faults = 0 => NothingElseChanged

(* The section in progress always ends and frees the site for other writers,
   also when index.lock makes its next command fail. *)
LockIsReleased == []<>(cur = Free)

(***************************************************************************)
(* The inductive strengthening behind the invariants above (the theorems   *)
(* are in SiteRepoProofs).                                                 *)
(***************************************************************************)

(* Reachability is reflexive and transitive. *)
AncestryOK ==
    \A c \in 1..n : c \in anc[c] /\ \A d \in anc[c] : anc[d] \subseteq anc[c]

(* What the section in progress relies on: HEAD is the branch it checked and
   its tip still the base, or an ImportZip found no branch; a rollback target
   exists; after the commit or the ref move the new tip is what was asked for. *)
SectionOK ==
    LET q == cur.req IN
    /\ cur.stage \in {"out", "edited", "loaded", "written", "staged"} =>
          /\ q.op \in WriteOps /\ q.branch # Published
          /\ \/ head = q.branch /\ refs[head] = q.base
             \/ refs[q.branch] = NoCommit
          /\ q.op = "Rollback" => q.target \in 1..n
    /\ cur.stage = "committed" =>
          /\ q.op \in WriteOps
          /\ refs[q.branch] # NoCommit =>
                /\ made[refs[q.branch]].parent = q.base
                /\ made[refs[q.branch]].on = q.branch
    /\ cur.stage \in {"moved", "synced"} =>
          refs[Published] # NoCommit /\ cur.sha = refs[Published]
    /\ cur.stage = "moved" /\ q.op = "Publish" => q.base \in anc[refs[Published]]

IndInv ==
    /\ TypeOK /\ AncestryOK /\ HeadIsWorkingBranch /\ SectionOK
    /\ AckedOnItsBase /\ AckedNeverLost /\ PointerInPublishedHistory

(***************************************************************************)
(* Statements of the documentation that the code does not keep.            *)
(***************************************************************************)

(* WriteFile "creates/overwrites one file and [...] commits it", DeleteFile "removes
   one file and commits": no site file but the one named differs from the base the
   caller saw, also after another caller's write failed half way. *)
WritesOneFile ==
    \A c \in 1..n : made[c].req.op \in {"WriteFile", "DeleteFile"} =>
        \A p \in Paths : p # made[c].req.path => tree[c][p] = tree[made[c].parent][p]

(* ImportZip: "extracts an uploaded archive into branch as ONE commit,
   REPLACING the tree": the commit holds the archive's files and nothing else. *)
ImportReplacesTree ==
    \A c \in 1..n : made[c].req.op = "ImportZip" =>
        tree[c] = [e \in Entries |->
                     IF e = made[c].req.path THEN made[c].req.content ELSE Absent]
=============================================================================
