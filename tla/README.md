# TLA+ models of kotoji

kotoji hosts static sites. Every site is one git repository on disk plus one row
in PostgreSQL; people and agents edit it over a REST API and MCP, publish it, and
visitors get it from an exported tree. This directory holds TLA+ models of the
parts that carry state across requests, the TLC configurations that check them on
small instances, and TLAPS proofs of their safety properties for every instance.

    tlc -config SiteRepo_writes.cfg MCSiteRepo     # a run of PROJECT.json
    tlapm SiteRepoProofs.tla                       # a module of proofs

Paths below are relative to `src/backend/internal/`.

## 1. Inventory

| Component | State | Operations | What makes it correct |
|---|---|---|---|
| Site repository (`site/git_service.go`, `git_helpers.go`, `gitrunner.go`) | refs, the ONE HEAD / index / worktree of the repository, served trees inside that worktree | WriteFile, DeleteFile, Commit, ImportZip, Rollback, CreateBranch, DeleteBranch, Publish | a write lands on the base its author saw; what was acknowledged stays reachable; history is never rewritten; a commit holds what was asked and nothing else |
| Per-site lock (`site/lock.go`, `withWriteLock`, `withReadLock`) | an RWMutex per process, a flock on `.git/kotoji.lock` | Lock, Unlock, RLock, RUnlock | one writer over all processes; nobody waits for ever |
| Served trees (`ensureServed`, `refreshServed`, `ServedTree`) | `served/{branch}`, a sidecar with its commit, temporary directories | export, swap, serve | bytes are never older than the commit they are labelled with; the export heals |
| Archive import and quota (`site/zip.go`, `enforceQuota`) | the worktree, the object store | validate entry by entry, wipe, write, commit | memory and disk stay bounded; of the site's files an acknowledged import leaves the archive's alone (its commit also takes the served export along) |
| Lifecycle and reaper (`CreateSite`, `DeleteSite`, `ops/ops.go`, `ops/scheduler.go`) | the sites row, the site directory, the bundles | create, soft delete, bundle, remove, purge | live sites are left alone; bundle, then removal, then purge; every deleted site ends |
| Server process (`cmd/kotojid`, `app/app.go`) | goroutines, the error channel, the pool | boot, serve, drain, close | it stops when told, and in order |
| Consistency check and gc (`ops/ops.go`) | lock files | unlink, report | does not disturb writers |
| Handles and redirects (`site/git_service.go`, `db/store.go`) | unique handles, redirect rows | create, rename, delete | a name a site was known by leads to it |
| Members and settings (`api/members.go`, `api/sites.go`) | membership rows, the site's settings | add, change role, remove, PATCH | a site keeps an owner |
| Access control (`api/`, `mcpserver/`) | roles, account flags, publish mode, tokens | the site handlers and the MCP tools | nobody acts beyond rights held while the request ran |
| History and diff reads (`GetLog`, `api/`, `mcpserver/tools.go`) | a client's cursor | log, next page, diff | what is told is complete or says that it is not |
| GitHub mirror and webhook (`site/mirror.go`, `webhook/github.go`, `bestEffortMirror`) | GitHub's branches, the remote-tracking refs, the column | push, sync now, fetch, SetRemote | nothing unseen is overwritten; fast-forward only |
| Accounts and sessions (`auth/handlers.go`, `auth/session.go`, `api/admin.go`) | setup hash, users, sessions | Setup, login, logout, flags | setup cannot lock everybody out; authority is granted |
| Lockout (`auth/lockout.go`) | failures per source | check, compare, record, sweep | guesses are bounded although they overlap |
| Redirect login (`auth/handlers.go`, `auth/singleuse.go`) | login-state cookies, a bounded single-use set | LoginStart, Callback | a state is honoured once, at the limit too |
| Instance settings (`domaincfg/`, `oidccfg/`, `api/admin_*.go`) | rows, caches, the OIDC client | save, resolve, build | a save applies at once; OIDC is not opened to everybody |
| Rate limiting (`ratelimit/`, `mcpserver/limits.go`) | token buckets | allow, evict, cancel | bounded rate per key, and the key is the client where the topology allows it |
| Names (`resolve/`, `site/handle.go`) | none | resolve, build a preview name | one name per branch, and it leads there |
| Pages (`serve/static.go`) | visitors' copies, the cache version | conditional request, purge | a 304 never keeps an old page where tags are compared, nor where dates can tell |
| Preview access (`serve/authz.go`) | grants and cookies in browsers | grant, exchange, view | access goes back to a member's grant and lapses unless it is renewed |
| Preview tree cache (`serve/treeprovider.go`) | TTL and LRU map of trees | get, store, evict | not modelled: never constructed |
| Certificate decision (`tlsedge/decision.go`) | a cache with two lifetimes | Allow | follows the sites that exist |
| Store, configuration, encoding, headers, frontend | none of their own across requests, or library state | | see section 8 |

How they interact. A mutating request takes the site's write lock (mutex, then
flock), runs several git commands in the shared worktree, releases the lock, and
then refreshes the served tree and pushes the mirror; Publish and FetchAndUpdate
refresh inside the lock. Visitors take only the read lock of their own process.
Rows (sites, handles, members, users, sessions, settings) are read and written in
separate queries that no lock covers, so a handler acts on what a query told it
earlier. The caches in memory (settings, OIDC client, lockout, single-use set,
buckets, certificate decisions) have a mutex each, held for less than
the operation that uses them, and often a clock that was read before it. The reaper
works on directories and rows without the site lock, in the server's scheduler and in
the `kotoji-ops` command at the same time.

What is hard to test in it, and what `PROJECT.json` lists line by line as hazards:
commands that fail or are killed between two steps that nobody rolls back; a
worktree shared by all branches; refreshes and pushes after the unlock; visitors that
swap the same directory; webhooks late, repeated or out of order; two reapers; crashes
between disk and database; a lock file unlinked while it is held; checks that another
request overtakes before the write; caches filled from reads that a save overtakes;
times read before a mutex; limits and lifetimes at their last unit.

## 2. Modules

| Module | Models | Run by |
|---|---|---|
| `SiteRepo` | one site's repository, its pointer and the mirror's published branch | `MCSiteRepo`, proofs in `SiteRepoProofs` |
| `SectionLock` | abstract: what the lock promises | instantiated by `SiteLock` |
| `SiteLock` | RWMutex and flock in several processes | `MCSiteLock`, `MCSiteSections`, `SiteLockProofs` |
| `ServedExport` | the export of one branch, file-system step by step | `MCSiteSections`, `ServedExportProofs` |
| `SiteLifecycle` | row, directory and bundle of each site, several reapers | `MCSiteLifecycle`, `SiteLifecycleProofs` |
| `AppLifecycle` | the server process from boot to exit | `MCSiteLifecycle`, `SiteLifecycleProofs` |
| `LoginLockout`, `OidcLogin`, `Accounts`, `InstanceSettings` | sign-in, accounts, settings | `MCAuth`, `AuthProofs` |
| `SiteRegistry`, `SiteAccess`, `SiteMembers`, `HistoryReads`, `MirrorSync` | the control plane around the repository | `MCControlPlane`, `ControlPlaneProofs` |
| `RateLimits`, `PageCaching`, `HostResolve`, `PreviewAccess`, `TlsGate`, `ZipImport` | the data plane, and uploads | `MCDataPlane`, `DataPlaneProofs` |
| `NatFacts` | no code: induction, recursive functions and sums, for the proofs | extended by the modules above |

They compose by contract. `SiteRepo` has one section in progress (`cur`), `ServedExport`
one set of lock holders and `ZipImport` one import at a time in the lock, because
`SectionLock` says so; `SiteLock` is checked and proved to implement `SectionLock`.
`SiteRepo` takes an export as one step; `ServedExport` opens that step up, and
`PageCaching` builds on its theorem that bytes are never older than their label.
`SiteRepo` treats `live` as a flag; `SiteLifecycle` says what happens to it, and
`SiteRegistry` what happens to the name. `SiteRepo` knows of GitHub only that
published may have moved there; `MirrorSync` has both sides and the tracking ref.

The modules that `MCAuth`, `MCControlPlane`, `MCDataPlane`, `MCSiteLifecycle` and
`MCSiteSections` extend share no variables. A variable `focus`, chosen in the initial
state, says which of them a behaviour runs; the others stand still. So one run checks
all of them and their state spaces add up instead of multiplying. The composition would
say nothing more: the parts meet in the database and the repository, and where they do,
both sides are in the same module.

Operators marked `mutant` change one definition the way a slip in the code would; they
are used by no action and serve the mutants of `PROJECT.json`.

### SiteRepo

A commit is a number, `tree`, `anc` and `made` give its tree, ancestors and the
request that made it. A tree maps site files to contents and, because
`served/{branch}` lies in the worktree and nothing ignores it, every branch to the
commit exported there. `refs`, `head`, `index`, `wt` and `served` are what git
keeps; `acked` records what callers were told succeeded.

A write is cut into its git commands: `CheckoutForWrite` (site lookup,
`checkBaseSHA`, `checkoutBranch`), `EditWorktree`, `AddPath` / `AddAll` /
`RemovePath`, or `ReadTree` / `CheckoutIndex` / `Clean`, then `CommitStaged` and
`Acknowledge`. `GiveUp` is an error return; `Fault` is a cancelled request, a
timeout or a crash at any point, which undoes nothing and may leave `index.lock`
behind (it also stands for a failed `SetPublished`, which the code ignores or
returns after the ref has moved); `CheckoutKilled` is a checkout cut half way.
Publish is `PublishNoOp`, `PublishForward` or `PublishMerge`, then
`FinishPublish`. The merge happens in a temporary worktree and leaves the shared
area alone. FetchAndUpdate is `FetchCreate` or `FetchForward`, then
`FinishFetch`; a refused or no-op fetch is no step. Behaviour of git itself
(checkout's refusal rules, merge over one merge base) is marked external.

`GitHubPush` is any push or force-push of published at GitHub, our own mirror
pushes among them. `gcRepo` may prune commits; `LocalCommits` keeps all of ours,
which only gives CreateBranch more starting points. A rejected request changes
nothing and is no step.

### SiteLock

`Announce`, `Drained`, `Unlock` follow sync.RWMutex: a writer announces itself, which
holds back new readers, waits for the readers it found, and on leaving lets in all
readers that queued. `OpenLockFile` and `Flock` are the two system calls of
`acquireFileLock`, inodes included, since the name may stand for another file by the
time the lock is granted; `LockFails` is their error return. `Crash` drops a process's
mutex and flocks. `Consistency` unlinks the file; `Spec` has it at any time,
`UncheckedSpec` leaves it out. A write to a site whose `.git` the reaper has removed
skips the flock; it then has no repository to work on and fails, and is left out.

### ServedExport

`ensureServed` for one branch: `CheckSidecar`, `Export` (into a private
directory), `StartRemove` / `EndRemove` (RemoveAll, which takes files away one by
one; `victim` tells whether the directory it works on is still the one at `dst`),
`Rename` (fails on a directory in place). `underLock`, fixed in the initial state, is
TRUE for published and FALSE for branches refreshed after the unlock.

### SiteLifecycle

`InsertRow`, `InitRepo`, `FirstCommit`, `InitFails`, `UndoRow` are CreateSite;
`ReapList`, `ReapStat`, `Bundle` / `BundleFails`, `StartRemove` / `EndRemove`,
`HardDeleteSite`, `ReapError`, `EndPass` are one pass of Ops.Reap. The site
directory is `.git` (none, partial, whole) and the rest; `cut` records that a creation or
removal was cut short. `GraceElapses` waits for
a CreateSite in progress: the grace period is days, a request seconds. Two reapers
that write a bundle of the same name within the same second are not modelled.

### AppLifecycle

kotojid's main goroutine boots step by step (each may fail), starts a goroutine per
plain server, the TLS engine and the scheduler, waits for a signal or the first error,
cancels the engine, which drains on a budget of its own, shuts the servers down one
after the other on another, stops the scheduler, and closes the pool, which waits for
queries under way. The engine serves `:443` before it binds `:80`; when that fails it
abandons `:443` without a drain (`rolledBack`). `touchedDead` records a reaper pass that
used the pool after it was closed.

### Sign-in and settings

`LoginLockout`: the gate, the slow comparison and the recording are three steps; the
clock each uses was read before the mutex. `overrun` counts wrong guesses
recorded during a lock since the gate last opened. `OidcLogin` counts time in ticks, because
the cookie's expiry is compared in whole seconds and the store's to the nanosecond; a
restart empties the store. `Accounts` has Setup (check, account, credential), the tail
of every login (find or create the user, allow-lists, promotion, session), requests that
touch their session after somebody may have logged it out, and the administrators'
read-modify-write of flags, with a failing query and a restart; `restored` records a
change that wrote back a flag another change had decided since it was read.
`InstanceSettings` has the cache fill key by key under the cache's lock, the save (check
against the resolved settings, commit, invalidate), environment pins and the client
built for a key, with the access lists it was built with, which the key leaves out;
`setting` says whether the behaviour is about the domain or about OIDC.

### Control plane

`SiteRegistry`: HandleIsTaken and the write that follows are separate steps;
`staleWrite` records a write on a check that another request had invalidated, and `bore`
every handle a site was acknowledged under. `SiteAccess` has the handlers of
`/api/sites` and the eleven MCP tools, `list_sites` included, by the right each asks
for; the queries of one request are separate steps, between which roles, flags, publish
mode and tokens change, and the query of the membership may fail (`unread`). `entitled`
and `direct` of a call record whether its user had the right, and the site the publish
mode, at some moment since the request was authenticated. `SiteMembers` has the four
edits of members and settings. `HistoryReads` pages through a branch that grows and is
merged into; a commit is its position in git log's order; a page on which git fails is
answered empty (`cut`); and it has the byte budget of a diff. `MirrorSync` represents a
tip by its history. A push is connect, send and track; it takes no lock after a save,
the read lock in "sync now"; `seen` is what any fetch has brought here, `overwritten`
what a push of ours has removed at GitHub.

### Data plane and uploads

`RateLimits`: buckets as integer units, keyed by the session cookie (which nobody verifies
at that point) or by the address `ClientIP` derives with one trusted hop from
X-Forwarded-For, X-Real-IP or the connection, behind any number of proxies; `overtaken` is
the time by which a key's requests were counted out of order (a bucket of
golang.org/x/time/rate lets that much more through); and the reservation that is
cancelled. `PageCaching`: an answer reads cache version, commit and bytes in three steps; a
commit bears any date, as one fetched from GitHub may; visitors send tags or dates alone.
`HostResolve` is the one module with names spelled out, because its property is about
spelling: a name is a short sequence over letters, an upper-case letter, hyphen, dot and
two reserved words, every name up to `MaxNameLen` is asked for, and every handle and
branch up to `MaxLabel` gets a preview name. `PreviewAccess`: the role check and the
signature are two steps; a signed value may be exchanged any number of times, and `root`
is the request for a grant its chain began with. `TlsGate`: a lookup is two queries, each
slow and able to fail, between which a site may take back a name that was its redirect;
entries carry the time before the lookup. `ZipImport`: an entry is a name, a declared and
an actual size; `replaceWorktree` writes file by file and fails where a file and a folder
have one name; `export` is the commit whose export lies under `served/` in the worktree,
`carried` the one that went into the last commit.

## 3. Runs

| Run | Checks | Shows |
|---|---|---|
| `SiteRepo_writes` | TypeOK, AckedOnItsBase, HeadIsWorkingBranch, CommitsKeepToRequests, LockIsReleased | the five writes, branches and DeleteSite with one failure |
| `SiteRepo_publish` | AckedNeverLost, PointerInPublishedHistory, HistoryPreserved | publishes, visits and the webhook against force-pushes, one failure |
| `SiteRepo_import_tree` | ImportReplacesTree, violated | finding 1 |
| `SiteRepo_leftover` | WritesOneFile, violated | finding 2 |
| `SiteLock_exclusive` | CrossProcessExclusion, NobodyStarves, ImplementsSectionLock | two processes, one crash, no unlink |
| `SiteLock_unlinked` | CrossProcessExclusion, violated | finding 3 |
| `SiteSections` | InProcessExclusion; NeverOlderThanLabel, ServedRecovers | the lock with unlinks at any time; the export of both kinds of branch, two visitors, two writers, a failure and a crash |
| `SiteLifecycle_reap` | LiveSiteIsWhole, BundledBeforeRemoved, PurgedRowHasNoRepo, DeletedIsPurged; OrderlyStop, StopsWhenTold | two sites, two reapers, a failure and a crash; the server process |
| `Auth` | OverrunBounded, LockoutStands; SingleUseHolds; CredentialHasAccount, AuthorityIsGranted; SettingsInForce, GateLostOnlyOnStaleView | sign-in, accounts and settings |
| `ControlPlane` | FormerHandlesLead; ActsWithinRights; OwnerlessOnlyByRace; ReadsAreComplete; NothingUnseenLost | names, rights, members, reads, mirror |
| `MirrorSync_race` | UpdatedHasFetched, violated | finding 4 |
| `DataPlane` | AdmissionsBounded; RevalidationSound; NamesAgree; PreviewsStayPrivate; DecisionFollowsSites; ImportWithinLimits, ImportedExactly | limits, pages, names, previews, certificates, uploads |

Distinct states: `SiteRepo_writes` 149 k, `SiteRepo_publish` 430 k, `SiteLock_exclusive`
2 k, `SiteSections` 293 k, `SiteLifecycle_reap` 512 k, `Auth` 3.0 M, `ControlPlane` 4.2
M, `DataPlane` 4.3 M; none takes more than about four minutes with two workers.

A property that is a conjunction (CommitsKeepToRequests, NobodyStarves, OrderlyStop,
LockoutStands, SingleUseHolds, AuthorityIsGranted, SettingsInForce, ReadsAreComplete,
NothingUnseenLost, AdmissionsBounded, RevalidationSound, NamesAgree, PreviewsStayPrivate,
DecisionFollowsSites, ImportWithinLimits) states two or three promises about one
mechanism; each conjunct is named and explained where it is defined.

Some properties are weaker than one would wish, on purpose: they say exactly how far the
code goes wrong and that it goes no further.

- CommitsKeepToRequests: a commit always holds what its request asked for; that it
  changes nothing besides is said until a first command fails (finding 2).
- PurgedRowHasNoRepo: `.git` is gone for certain; of the rest of the directory something
  may remain where another reaper is at it, or a creation or removal was cut short at a
  moment without `.git`.
- OrderlyStop: but for requests on `:443` when `:80` could not be bound.
- OverrunBounded allows the guesses that were past the gate; SingleUseHolds the cookie's
  last second.
- AuthorityIsGranted: an administrator's flag is what was last decided about it, unless a
  change of the other flag wrote back an older value.
- SettingsInForce: but for a cached failed read, and for a client built from settings
  read before an invalidation.
- OwnerlessOnlyByRace, GateLostOnlyOnStaleView and FormerHandlesLead: until a check was
  overtaken or failed.
- ActsWithinRights: a request whose membership could not be read is bound only to an
  administrator's flag.
- ReadsAreComplete: not at the REST API's largest page, not for merged histories, and
  after a failure of git the walk is a gapless beginning only.
- AdmissionsBounded: per key, plus the time by which requests overtook each other; that
  the key is the client's address holds without a session cookie and in the documented
  topology (no proxy and no trust, or one trusted proxy).
- RevalidationSound: a visitor that sends dates alone keeps an older page where one
  published since is dated no later, and is not reached by a purge.
- PreviewsStayPrivate: access begins with a member's grant and lapses if it is not
  renewed; it may be renewed without end.
- DecisionFollowsSites: a name taken back from a redirect may be refused for the
  negative lifetime.
- ImportWithinLimits: the quota is outgrown by one accepted write at most.
- ImportedExactly is about the site's files; the commit carries the export as well
  (finding 1).

Every property of a passing run has a mutant in `PROJECT.json`: an
operator that changes one definition the way a slip in the code would (no base
comparison, `git add -A` for `git add -- path`, a squash for a merge, LOCK_SH for LOCK_EX,
credential before account, an entry stamped after its lookup, ...), and under it TLC
finds the property violated.

### Bounds

`MaxCommits` 3 or 4 (the seed, and writes or pushes that diverge and meet again),
`MaxFaults` 1 (one failure, then any number of good requests over what it left),
draft, published and one feature branch with their three served directories. The writes
have two site files with one content and absence each, so that a leftover of one file can
enter a commit of the other; the publishes one file with two contents, so that merges
conflict. Diverged histories, merges with and
without conflicts, "already up to date" and refused fetches all occur. The lock
has two processes, three writers and two readers, so that a writer waits behind a
writer, a reader behind a writer and a process behind a process; three inodes
allow two unlinks in a row. ServedExport has three commits, two visitors and two
writers: one serves while the other swaps and a refresh comes late. SiteLifecycle has
two sites and two reapers, so that a pass goes on after an error and both work on the
same site. AppLifecycle has two plain servers, the engine and one request.

Elsewhere two concurrent requests of each kind are enough for one to overtake the other
between any two steps, and one failing query or restart for every step to be the one
that fails. Clocks run a little past the longest lifetime plus the slowest step: lockout
7 ticks for a longest lock of 3 and a TTL of 4; login states 5 half-seconds for a
lifetime of 2; certificates 6 for lifetimes 3 and 2; buckets 5 for a TTL of 3; previews
3 for a grant of 1 and a cookie of 2. Limits are small enough to be hit: one live login
state, bursts of 1, two rate-limit keys in use, two commit dates, pages of at most 3
commits out of 5, labels of 5 characters, archives of one byte with up to two entries, a
quota of 3. ZipImport has one upload at a time among WriteFiles: imports meet in the
lock one after the other. SiteAccess has one user, one request and one token against
every change an administrator or owner can make between its queries. Accounts has the
operator and one other user, two setups, two changes of flags, one login and one
session. PreviewAccess has one person, who gains and loses roles on two sites with two
branches each: nothing compares two people but the role each has. `RequestSymmetry`
permutes setups, and attempts, callbacks, changes of flags and saves of settings, which
no definition tells apart.

`CHECK_DEADLOCK FALSE` is set where a run may end because a bound is used up
(commits, inodes, clocks, sites that are all purged, an exited process).

### Fairness

- `SiteRepo`: the section in progress goes on (WF on its steps). Every git command
  has a deadline (`gitrunner.go`) and Go runs a goroutine that is ready.
- `SiteLock`: WF on the steps of a goroutine that holds something; SF on getting the
  mutex and the flock. Go's mutex hands over to a starving waiter, and the kernel
  queues flock waiters.
- `ServedExport`: WF on steps of goroutines and on visits: the property is about a
  site that has visitors.
- `SiteLifecycle`: WF on each reaper (the scheduler ticks for ever), on a CreateSite
  in progress and on time. No fairness on requests, failures or crashes.
- `AppLifecycle`: WF on main's steps, the ends of the budgets, the engine, the scheduler,
  each server's goroutine and the return of queries (they have contexts with
  deadlines). None on signals, failures or the handlers' own work: a handler may hang.
- The other modules state safety only and assume no fairness.

## 4. Findings

Each has a run with a counterexample; the quotes are in `PROJECT.json`.

1. ImportZip's `git add -A` commits `served/{branch}`, which lies in the worktree, so
   the imported commit is more than the archive (`zip.go:90`).
2. A WriteFile or DeleteFile that fails after `git add` leaves its change staged; the next
   write, of another file, commits it (`git_service.go:741`).
3. The consistency check unlinks `kotoji.lock` without taking it, after which two
   processes can be in the section (`ops.go:332`).
4. A push outside the lock moves the tracking ref between a webhook's fetch and its
   comparison; the delivery answers "updated" although what it fetched diverged
   (`mirror.go:117`).

Met while modelling, without a run of their own. Repository and mirror:

- ImportZip to a branch that does not exist skips base check and checkout and commits
  on whatever branch HEAD names (`zip.go:66`).
- Any error of `git bundle`, not only "no refs", is logged and the repository is
  removed (`ops.go:246`).
- "never a row purged with its repo still on disk" (`ops.go:189`): a pass looks for `.git`
  alone, so after a removal that was cut short once `.git` was gone the row is purged
  and the rest of the directory stays.
- A Publish retried after its ref move takes the no-op path and never writes the
  pointer (`git_service.go:900`), nor does the first sync of FetchAndUpdate
  (`mirror.go:114`).
- Two visitors that build the same export make one of them fail (`git_helpers.go:275`); a
  crash in RemoveAll can leave a partial tree with a sidecar that later calls trust
  (`git_helpers.go:274`), which is why ServedRecovers asks for a complete tree only
  before a crash.
- A stale `index.lock` is never removed; the consistency check reports soft-deleted sites
  as orphans (`ops.go:340`); a failed CreateSite keeps its handle until the reaper comes,
  and for good if its SoftDeleteSite, whose error is ignored, fails too: the row stays live
  without a repository (`git_service.go:336`).
- A fetch that finds a diverged branch still moves the tracking ref, which is the lease:
  the next push overwrites what was fetched and refused. NothingUnseenLost is about
  commits that were never fetched.
- SetRemote whose database write fails leaves `origin` and the column apart; a database
  error makes `mirrorEnabled` fall back to the environment; `github_repo` is stored as
  typed, so a link in URL form never matches the webhook's lookup; "MirrorPush
  no-ops branches that do not exist" (`api/sites.go:240`) is not what it does.
- "so a partial write is impossible" (`zip.go:48`): entries `a` and `a/b` pass validation
  and fail after the wipe. The quota "never under-counts the post-commit footprint"
  (`zip.go:81`): content lands in the worktree and in the object store and is charged
  once. CreateSite from an archive is not charged at all. Nothing refuses a name of the
  site's own below `served/`; the wipe keeps such a file (`zip.go:255`).

Control plane:

- "the second sees the hash written by the first and gets 409" (`auth/handlers.go:648`):
  two setups may both pass the check; the later credential wins.
- "so a site never becomes ownerless" (`api/members.go:116`): two owners may demote each
  other, a failing check is ignored, and addMember makes none.
- updateSite and the change of flags ("a partial PATCH only changes the supplied fields",
  `api/admin.go:211`) write back what they read, so one of two concurrent changes is lost:
  a change of the create flag can restore an administrator's flag withdrawn meanwhile.
- "A store error is treated as "no access" (fail-closed)" (`api/authz.go:130`): an
  administrator becomes owner, also where a membership row would have given a lesser
  role (line 114: "A real membership row wins").
- `docs/contracts/mcp.md:279` and `:357` put `list_sites` under the scope `read`; the tool
  asks for none (`mcpserver/tools.go:93`).
- GetLog answers any failure of git with an empty page and no error, where the comment
  has "a bad Before cursor" in mind (`git_service.go:1073`).
- The OIDC client is built with the allowed e-mails, allowed domains and administrators'
  e-mails (`auth/oidc.go:127`), which its cache key leaves out (`oidccfg/build.go:32`): a
  login that read its settings before a save stores a client with the old lists after
  the save's InvalidateProvider, until the next one.
- "live handle and the redirect set never both claim newHandle" (`db/store.go:226`):
  a creation whose check was overtaken can take a name that became a redirect.
- The REST API asks for limit + 1 commits to see whether there are more, and the service
  clamps it (`git_service.go:1033`): at the largest page the end is announced too early.
  The cursor `before^` follows the first parent (`git_service.go:1060`): commits that
  came in by a merge may be skipped.
- hasScope's comment "enforced at issuance" (`mcpserver/registry.go:153`) does not
  hold: a token may be issued with `write` and without `read`. An administrator's token
  cannot create sites unless he also has the create flag.
- A failed read is cached as "unset", not only "for THIS resolve"
  (`domaincfg/domaincfg.go:197`), until the next save; so is a failed OIDC discovery. With
  split RUN_MODE processes the other process's caches are never dropped.
- An error of the engine's drain is lost when a signal made the process stop. When `:80`
  cannot be bound, `:443` has been served already and its listener is closed without a
  Shutdown (`tlsedge/engine.go:262`).

Data plane:

- CachingTreeProvider is not wired (`app.go:473` builds the plain provider). Its comments
  say "by (siteID, branch, commitSHA)" and "when fresh and the underlying commit is
  unchanged" (`serve/treeprovider.go:160`, `:200`); its key is handle and branch, and an
  entry within its TTL is served whatever the branch's commit is.
- "all clients refetch fresh content on their next revalidation" (`api/publish.go:75`;
  `serve/treeprovider.go:46` and `api/deps.go:46` alike): a purge changes ETags only. A
  client that sends If-Modified-Since alone gets a 304; it also keeps an old page when
  the commit published since bears an earlier or the same date.
- The "one-time" grant (`serve/authz.go:35`, `:146`, `:200`, `api/preview.go:15`,
  `docs/contracts/routing-and-serving.md:726`) is exchanged as often as it is presented
  until it expires, and a preview cookie has the same form, so access can be renewed.
  The bearer arm of the preview check (`serve/authz.go:237`) is never configured
  (`app.go:478`).
- The API limiter keys on the session cookie's value before anybody has verified it
  (`app.go:429`). The count of trusted proxies is always 1 (`ratelimit.go:172`); behind
  two, or behind one that sets X-Real-IP only, the key is what that header or hop says.
- The existence check of a certificate asks for the live handle and then for the redirect
  (`app.go:646`); a site that takes its old name back in between is found by neither, and
  "unknown" is cached for the negative lifetime.
- "so we don't consume future capacity" (`mcpserver/limits.go:155`): a reservation is
  given back only as far as later ones allow.
- A handle and a branch that are each valid may not fit one label together; the control
  plane hands out the preview name all the same.
- The caches of the certificate decision and of the MCP limiter are never pruned.

## 5. Proofs

All for every value of the constants: any number of branches, files, commits,
processes, visitors, sites, requests, failures and crashes, any limit, rate and lifetime
that the assumptions named at the end of this section allow. Every inductive invariant
was checked with TLC on the instances of section 3 before it was proved (where it speaks
of a sum or an ancestry that exists, in the form TLC computes).

**SiteRepoProofs**: TypeCorrect, OptimisticLock (AckedOnItsBase), Durability
(AckedNeverLost), HeadStaysOnWorkingBranch, PointerSound
(PointerInPublishedHistory), NoHistoryRewrite (HistoryPreserved),
CommitsAreAsRequested (CommitsKeepToRequests). None is inductive
alone. `IndInv` adds `AncestryOK` (reachability is reflexive and transitive, so that
"reachable from the old tip" carries over to a descendant) and `SectionOK`: between
checkout and commit HEAD is the requested branch and its tip still the checked base
(or ImportZip found no branch), after the commit the tip's parent is that base, and
after a ref move the section's commit is published's tip. `NewCommitOK` and
`RefMove` are the two lemmas everything else cites: a new commit changes nothing
about old ones, and a ref that moves to a descendant keeps all acknowledged commits
reachable. NoHistoryRewrite follows from IndInv action by action. The proof uses
BranchAssumption, EntryAssumption and BoundAssumption; it does not depend on what
`git checkout` does to index and worktree, only that it keeps their shape.
CommitsAreAsRequested needs more. `AskedInv` says, whatever has failed before, what index
and worktree hold of the request in progress at each stage of its section
(`RequestArea`), so that the commit made from the index holds what was asked for;
`ExactInv` says, as long as nothing has failed, that they hold nothing beside it
(`SectionArea`).

**SiteLockProofs**: InProcess (with unlinks), CrossProcess and Implements
(refinement of SectionLock) from `UncheckedSpec`. `IndInv` says who holds the
mutex at which step, that a section's process has no readers, and that a section
holds the flock of its own descriptor. Without unlinks `OneInode` adds that there is
one inode, hence one flock. Finding 3 is the counterexample without the assumption.

**ServedExportProofs**: LabelSound (NeverOlderThanLabel), which speaks of branches with
`underLock`. The strengthening for them: whoever works on the export holds the lock and
exports the present tip. It fails for a refresh after the unlock, and so does the
property.

**SiteLifecycleProofs**: LifecycleInvariant, LiveSitesAreSafe, BundleComesFirst,
PurgeComesLast. The strengthening: what a reaper lists or works on is past grace,
removal comes after a bundle or its failure, purge after removal, and no row past
grace has a CreateSite in progress; a directory without `.git` has nothing else in it
unless a reaper is removing it or it is among those cut short. ProcessStopsInOrder
(OrderlyStop): the pool is open while the scheduler runs, requests arrive only after boot,
and a server that `main` is done with has no request left unless its budget ran out or the
engine abandoned `:443`.

**ControlPlaneProofs**
- MirrorLosesNothing (NothingUnseenLost). What the tracking ref names was fetched or is
  local, and so is what a push is about to write into it; a lease taken on it can
  therefore only remove what somebody here has seen.
- LastOwnerIsGuarded (OwnerlessOnlyByRace). A sole-owner check still marked as standing is
  right about the members as they are now; every change of an owner withdraws the others'
  marks.
- RequestsActWithinRights (ActsWithinRights). What a request carries from one query to
  the next is covered by rights noted since it was authenticated, and the notes are up to
  date with roles, flags and publish mode (`CallFits`); where the membership could not be
  read, by the administrator's flag alone.
- LinksKeepWorking (FormerHandlesLead). Until a write on an overtaken check: handles are
  unique, no live handle is a redirect, every former handle is its site's handle or a
  redirect to it, and a check nobody overtook still holds.
- ReadsTellAll (ReadsAreComplete). Every commit's parents are older, so `Ancestors` is
  defined and a later commit changes nobody's ancestry; where a history is linear, what
  is older than a commit is the history of its parent. A walk has therefore listed the
  history it began with down to its cursor, and the next page goes on right after it
  (`WalkFits`); a page on which git failed ends it there. For the diff, the patches sent
  and the bytes left add up to the budget.

**AuthProofs**
- CredentialNeverAlone and AuthorityOnlyGranted (Accounts). Rows are never removed and
  appointments never forgotten, so what a request read before its write still entitles
  it (`ReqFits`); and every row's administrator's flag is the last decision about it, or
  a change that had read an older one is marked in `restored`.
- OverrunIsBounded and the action property LockoutEndures (LoginLockout). For each source,
  either no lock is running and nothing was overrun, or the overrun and the attempts past
  the gate are together fewer than all attempts; the backoff never shrinks from one
  failure to the next, which is proved of the recursive function `Doubled`.
- SingleUse (OidcLogin). A state let through stays in the store up to its cookie's last
  second: neither the sweep nor making room drops an entry that is not over (`Trims`).
- SettingsTakeForce and GateLostOnlyWhenStale (InstanceSettings). Nothing older than the
  last answered save is stored, cached or being read into the cache, except a failed
  read (`CacheHolds`), and the client kept was built from it or marked as built late; a
  save not overtaken was checked against what is stored (`SaveFits`).

**DataPlaneProofs**
- PreviewsArePrivate: a signed value carries site and branch of its root, the root's person
  had a role on that site when asking, and the value expires within its own lifetime of
  its making. The number of exchanges is not bounded, and no bound is claimed.
- DecisionsFollowSites: a cache entry, and an answer on its way into the cache, tells what
  was the case at a moment not longer ago than the entry may live; between the two
  queries, that the first found no live site stays true or the name was taken back.
- CopiesAreRevalidated: a visitor's copy is one of the published pages under its own
  validator, and a request in progress holds a label no older than its start.
- AdmissionsAreBounded: for each key, tokens left plus tokens spent are at most burst
  plus time plus what was counted out of order (`BucketFits`); an evicted bucket would
  have been full, which is where `BucketTTL >= Burst * Period + MaxStall` is used. For a
  token's calls the reservations about to be cancelled are added.
- NamesDoAgree: the first `--` of a label splits handle from branch, because the rules
  allow no other reading. This is about names as sequences of characters, for every limit
  on labels and every length of the names asked for.
- ImportsStayWithinLimits and the action property ImportsAreExact (ZipImport). While an
  import writes, the worktree is what its first entries stand for, and its bytes plus
  those still to be written are at most what was charged to the quota (`UploadFits`). The
  wipe leaves nothing but the export, which the commit carries.

**NatFacts** has what the others need of numbers and of finite sets: induction stated for
a set of numbers (the library's induction theorems take an operator as parameter, which
the provers cannot instantiate; a set they can), that recursive equations on numbers
and the folds over finite sets define a function, and that a sum over a finite set may be
taken in any order, which is what `BytesOf` and `ZipEntriesBytes` rest on.

Assumptions on constants, each named in the module that declares them: limits and
lifetimes are natural numbers, those that divide or must leave room are not 0; requests
that the code counts (attempts, tool calls) are finitely many; distinct kinds of
requests are distinct; a certificate's negative lifetime is not longer than its positive
one; a bucket is dropped only when idle for longer than it takes to fill; the control
plane's label has no `--`; the plain servers are the control plane's and the data
plane's (`main.go:124`); the quota has room for the placeholder page. TLC evaluates all
of them in the runs.

## 6. Model-checked only

LockIsReleased, NobodyStarves, ServedRecovers, DeletedIsPurged and StopsWhenTold are
liveness under fairness, outside the prover's reach. Type correctness is stated as a theorem
of its own only for SiteRepo; elsewhere it is part of the inductive invariant.

## 7. Plan

Done: models and runs of all parts that keep state across requests, and a theorem for
every safety property the runs check. Next: what is left of the components that
`PROJECT.json` marks "partly".

## 8. Not modelled

- Encoding and routing of the REST API, error bodies, CSRF tokens and cookie attributes,
  security headers: functions of one request.
- The preview tree cache (CachingTreeProvider): the server never constructs it.
- Which file of a tree a path names, MIME types, base-href: pure functions under table
  tests. PageCaching takes the page as given.
- Cryptography (signatures of grants, cookies, deliveries and ID tokens, bcrypt,
  encryption at rest) is taken as sound; the identity provider and GitHub are external
  and only what the code can observe of them is modelled; so are ACME and
  golang.org/x/time/rate.
- Configuration parsing, generated types and migrations, logs and metrics, the seed
  command, the in-memory fake, the frontend and deployment files.
- ListFiles, ReadFile, ExportZip and Status change nothing. `git gc --auto` removes no
  reachable object.
- Two reapers that write a bundle of the same name within one second.
