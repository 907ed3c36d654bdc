--------------------------- MODULE SiteLifecycle ---------------------------
(***************************************************************************)
(* From CreateSite to the reaper: the sites row, the site directory under  *)
(* /data/sites and the bundle in the backup directory.  They live in three *)
(* places that no transaction joins, so every step may be the last one     *)
(* before a crash, and the reaper runs in the server's scheduler and, at   *)
(* the same time, in a kotoji-ops an operator or cron starts.              *)
(***************************************************************************)
EXTENDS Naturals

CONSTANTS
    Sites,       \* the UUIDs the database hands out
    Reapers,     \* processes that run Ops.Reap
    Server,      \* the one among them that also serves CreateSite
    None,
    MaxFaults,   \* bound on failing commands, disk and database errors
    MaxCrashes

ASSUME ReaperAssumption == Server \in Reapers /\ None \notin Sites
ASSUME BoundAssumption == MaxFaults \in Nat /\ MaxCrashes \in Nat

VARIABLES
    row,        \* row[s]: the sites row
    create,     \* create[s]: how far CreateSite got
    git,        \* git[s]: the site's .git directory
    rest,       \* rest[s]: whether anything else is in the site directory
    backup,     \* backup[s]: whether a bundle with every ref exists
    unbundled,  \* sites for which `git bundle' failed
    cut,        \* sites left with a directory but no .git by work that was cut short
    pc, work,   \* where each reaper is, and on which site
    todo,       \* todo[r]: what is left of the list r's pass read
    faults, crashes

disk == <<git, rest, backup, unbundled, cut>>
pass == <<pc, work, todo>>
vars == <<row, create, disk, pass, faults, crashes>>

Rows    == {"none", "live", "deleted", "past", "purged"}
Creates == {"none", "init", "cleaned", "ok", "failed", "dead"}
PCs     == {"idle", "pass", "bundle", "remove", "removing", "purge"}

Init ==
    /\ row = [s \in Sites |-> "none"]
    /\ create = [s \in Sites |-> "none"]
    /\ git = [s \in Sites |-> "none"]
    /\ rest = [s \in Sites |-> FALSE]
    /\ backup = [s \in Sites |-> FALSE]
    /\ unbundled = {} /\ cut = {}
    /\ pc = [r \in Reapers |-> "idle"]
    /\ work = [r \in Reapers |-> None]
    /\ todo = [r \in Reapers |-> {}]
    /\ faults = 0 /\ crashes = 0

Fail == faults < MaxFaults /\ faults' = faults + 1

(* Work on the directory of these sites stops here and nobody goes on with it. *)
CutShort(S) == cut' = cut \cup {s \in S : git'[s] = "none" /\ rest'[s]}

-----------------------------------------------------------------------------
(* CreateSite: the row first, because the database makes the UUID, then initRepo. *)
InsertRow(s) ==
    /\ row[s] = "none"
    /\ row' = [row EXCEPT ![s] = "live"]
    /\ create' = [create EXCEPT ![s] = "init"]
    /\ UNCHANGED <<disk, pass, faults, crashes>>

(* mkdir, then `git init' and the seed files; then the first commit makes a history. *)
MakeDir(s) ==
    /\ create[s] = "init" /\ ~rest[s]
    /\ rest' = [rest EXCEPT ![s] = TRUE]
    /\ UNCHANGED <<row, create, git, backup, unbundled, cut, pass, faults, crashes>>

InitRepo(s) ==
    /\ create[s] = "init" /\ git[s] = "none" /\ rest[s]
    /\ git' = [git EXCEPT ![s] = "partial"]
    /\ UNCHANGED <<row, create, rest, backup, unbundled, cut, pass, faults, crashes>>

FirstCommit(s) ==
    /\ create[s] = "init" /\ git[s] = "partial"
    /\ git' = [git EXCEPT ![s] = "whole"]
    /\ create' = [create EXCEPT ![s] = "ok"]
    /\ UNCHANGED <<row, rest, backup, unbundled, cut, pass, faults, crashes>>

(* initRepo failed: RemoveAll(repoDir), whose own error is ignored, then
   SoftDeleteSite, best effort. *)
InitFails(s) ==
    /\ create[s] = "init" /\ Fail
    /\ \/ git' = [git EXCEPT ![s] = "none"] /\ rest' \in {rest, [rest EXCEPT ![s] = FALSE]}
       \/ UNCHANGED <<git, rest>>
    /\ create' = [create EXCEPT ![s] = "cleaned"]
    /\ CutShort({s})
    /\ UNCHANGED <<row, backup, unbundled, pass, crashes>>

SoftDeleted(s) == [row EXCEPT ![s] = IF @ = "live" THEN "deleted" ELSE @]

UndoRow(s) ==
    /\ create[s] = "cleaned"
    /\ \/ row' = SoftDeleted(s) /\ UNCHANGED faults
       \/ Fail /\ UNCHANGED row
    /\ create' = [create EXCEPT ![s] = "failed"]
    /\ UNCHANGED <<disk, pass, crashes>>

DeleteSite(s) ==
    /\ row[s] = "live"
    /\ row' = SoftDeleted(s)
    /\ UNCHANGED <<create, disk, pass, faults, crashes>>

(* The grace period (30 days) is over; a CreateSite of the site ended long ago. *)
GraceElapses(s) ==
    /\ row[s] = "deleted" /\ create[s] \notin {"init", "cleaned"}
    /\ row' = [row EXCEPT ![s] = "past"]
    /\ UNCHANGED <<create, disk, pass, faults, crashes>>

-----------------------------------------------------------------------------
(* Ops.Reap *)
Goto(r, l) == pc' = [pc EXCEPT ![r] = l]

OnDisk ==               \* mutant: walks the sites directory, not the deleted rows
    {s \in Sites : row[s] \in {"live", "past"} /\ git[s] # "none"}
PastGrace == {s \in Sites : row[s] = "past"}

ReapList(r) ==
    /\ pc[r] = "idle" /\ PastGrace # {}
    /\ todo' = [todo EXCEPT ![r] = PastGrace]
    /\ Goto(r, "pass")
    /\ UNCHANGED <<row, create, disk, work, faults, crashes>>

EndPass(r) ==
    /\ pc[r] = "pass" /\ todo[r] = {}
    /\ Goto(r, "idle")
    /\ UNCHANGED <<row, create, disk, work, todo, faults, crashes>>

(* reapOne: stat of .git; a repository that is gone only leaves the row to purge. *)
SkipGone(s)  == IF git[s] = "none" THEN "pass" ELSE "bundle"    \* mutant: nothing to reap
AfterStat(s) == IF git[s] = "none" THEN "purge" ELSE "bundle"

ReapStat(r, s) ==
    /\ pc[r] = "pass" /\ s \in todo[r]
    /\ todo' = [todo EXCEPT ![r] = @ \ {s}]
    /\ work' = [work EXCEPT ![r] = s]
    /\ Goto(r, AfterStat(s))
    /\ UNCHANGED <<row, create, disk, faults, crashes>>

(* `git bundle create --all': a whole repository gives a whole bundle; one that is
   half created or half removed gives an error or less. *)
NotPacked(s) == backup[s]                  \* mutant: the bundle is never written
Packed(s) == backup[s] \/ git[s] = "whole"

KeepDir     == "purge"                     \* mutant: the removal is forgotten
AfterBundle == "remove"

Bundle(r) ==
    /\ pc[r] = "bundle"
    /\ backup' = [backup EXCEPT ![work[r]] = Packed(work[r])]
    /\ Goto(r, AfterBundle)
    /\ UNCHANGED <<row, create, git, rest, unbundled, cut, work, todo, faults, crashes>>

(* Any error of git (disk full, timeout, the server shutting down) is logged and
   the pass goes on to the removal. *)
BundleFails(r) ==
    /\ pc[r] = "bundle" /\ Fail
    /\ unbundled' = unbundled \cup {work[r]}
    /\ Goto(r, AfterBundle)
    /\ UNCHANGED <<row, create, git, rest, backup, cut, work, todo, crashes>>

(* RemoveAll works through the site directory in any order. *)
StartRemove(r) ==
    /\ pc[r] = "remove"
    /\ \E left \in {"partial", "none"} :
          git' = [git EXCEPT ![work[r]] = IF @ = "none" THEN @ ELSE left]
    /\ \E left \in BOOLEAN : rest' = [rest EXCEPT ![work[r]] = @ /\ left]
    /\ Goto(r, "removing")
    /\ UNCHANGED <<row, create, backup, unbundled, cut, work, todo, faults, crashes>>

EndRemove(r) ==
    /\ pc[r] = "removing"
    /\ git' = [git EXCEPT ![work[r]] = "none"]
    /\ rest' = [rest EXCEPT ![work[r]] = FALSE]
    /\ Goto(r, "purge")
    /\ UNCHANGED <<row, create, backup, unbundled, cut, work, todo, faults, crashes>>

HardDeleteSite(r) ==
    /\ pc[r] = "purge"
    /\ row' = [row EXCEPT ![work[r]] = "purged"]
    /\ Goto(r, "pass")
    /\ UNCHANGED <<create, disk, work, todo, faults, crashes>>

(* The backup directory, the removal or the database fails: reapOne returns the
   error and the pass continues with the next site. *)
ReapError(r) ==
    /\ pc[r] \in {"bundle", "removing", "purge"} /\ Fail
    /\ Goto(r, "pass")
    /\ UNCHANGED <<row, create, git, rest, backup, unbundled, work, todo, crashes>>
    /\ CutShort(IF pc[r] = "removing" THEN {work[r]} ELSE {})

(* A process dies; the next scheduler or cron run starts from the beginning, and
   what the server was creating stays as it is. *)
Crash(r) ==
    /\ crashes < MaxCrashes
    /\ crashes' = crashes + 1
    /\ pc' = [pc EXCEPT ![r] = "idle"]
    /\ todo' = [todo EXCEPT ![r] = {}]
    /\ create' = [s \in Sites |->
                    IF r = Server /\ create[s] \in {"init", "cleaned"} THEN "dead"
                    ELSE create[s]]
    /\ UNCHANGED <<row, git, rest, backup, unbundled, work, faults>>
    /\ CutShort({s \in Sites : (pc[r] = "removing" /\ s = work[r])
                              \/ (r = Server /\ create[s] = "init")})

-----------------------------------------------------------------------------
ReapStep(r) ==
    \/ ReapList(r) \/ EndPass(r) \/ Bundle(r) \/ StartRemove(r) \/ EndRemove(r)
    \/ HardDeleteSite(r)
    \/ \E s \in Sites : ReapStat(r, s)

CreateStep(s) == MakeDir(s) \/ InitRepo(s) \/ FirstCommit(s) \/ UndoRow(s)

Next ==
    \/ \E s \in Sites : InsertRow(s) \/ CreateStep(s) \/ InitFails(s)
                        \/ DeleteSite(s) \/ GraceElapses(s)
    \/ \E r \in Reapers : ReapStep(r) \/ BundleFails(r) \/ ReapError(r) \/ Crash(r)

Spec == Init /\ [][Next]_vars

(* The scheduler ticks for ever, calls in progress run on and time passes. *)
FairSpec ==
    /\ Spec
    /\ \A r \in Reapers : WF_vars(ReapStep(r))
    /\ \A s \in Sites : WF_vars(CreateStep(s)) /\ WF_vars(GraceElapses(s))

-----------------------------------------------------------------------------
(* Shape of the row, the site directory, the backups and the reapers' progress. *)
TypeOK ==
    /\ row \in [Sites -> Rows]
    /\ create \in [Sites -> Creates]
    /\ git \in [Sites -> {"none", "partial", "whole"}]
    /\ rest \in [Sites -> BOOLEAN]
    /\ backup \in [Sites -> BOOLEAN]
    /\ unbundled \in SUBSET Sites /\ cut \in SUBSET Sites
    /\ pc \in [Reapers -> PCs]
    /\ work \in [Reapers -> Sites \cup {None}]
    /\ todo \in [Reapers -> SUBSET Sites]
    /\ faults \in Nat /\ crashes \in Nat

(* A site that CreateSite acknowledged keeps its whole repository as long as its
   row is live, whatever reapers, crashes and failing commands do. *)
LiveSiteIsWhole ==
    \A s \in Sites : create[s] = "ok" /\ row[s] = "live" => git[s] = "whole" /\ rest[s]

(* The history of an acknowledged site is damaged only once a complete bundle of
   it exists, unless `git bundle' itself failed: also when two reapers work on the
   site, or one dies in the middle of the removal. *)
BundledBeforeRemoved ==
    \A s \in Sites : create[s] = "ok" /\ git[s] # "whole" => backup[s] \/ s \in unbundled

(* A reaper is in the middle of removing the site's directory. *)
BeingRemoved(s) == \E r \in Reapers : pc[r] = "removing" /\ work[r] = s

(* "Never a row purged with its repo still on disk" (reapOne): no row is purged while
   any of .git is there.  Of the rest of the site directory something stays behind only
   when another reaper is still removing it, or when a crash or an error had cut a
   removal or a CreateSite short at a moment without .git: reapOne looks at .git alone,
   takes the site for reclaimed and purges the row. *)
PurgedRowHasNoRepo ==
    \A s \in Sites : row[s] = "purged" =>
        git[s] = "none" /\ (rest[s] => BeingRemoved(s) \/ s \in cut)

(* Every deleted site is purged in the end, a failed CreateSite's too: a pass that
   fails or dies between two steps is taken up by a later one. *)
DeletedIsPurged == \A s \in Sites : row[s] = "deleted" ~> row[s] = "purged"

(***************************************************************************)
(* The inductive strengthening: a reaper only works on rows past grace, it *)
(* removes after the bundle and purges after the removal.                  *)
(***************************************************************************)
Reaping == {"bundle", "remove", "removing", "purge"}

ReapOK ==
    /\ \A r \in Reapers : \A s \in todo[r] : row[s] \in {"past", "purged"}
    /\ \A r \in Reapers : pc[r] \in Reaping =>
          work[r] \in Sites /\ row[work[r]] \in {"past", "purged"}
    /\ \A r \in Reapers : pc[r] \in {"remove", "removing"} /\ create[work[r]] = "ok" =>
          backup[work[r]] \/ work[r] \in unbundled
    /\ \A r \in Reapers : pc[r] = "purge" => git[work[r]] = "none"
    /\ \A s \in Sites : git[s] = "none" /\ rest[s] =>
          create[s] = "init" \/ BeingRemoved(s) \/ s \in cut

CreateOK ==
    /\ \A s \in Sites : row[s] \in {"past", "purged"} =>
                            create[s] \notin {"none", "init", "cleaned"}
    /\ \A s \in Sites : row[s] = "none" <=> create[s] = "none"
    /\ \A s \in Sites : create[s] = "none" => git[s] = "none" /\ ~rest[s]
    /\ \A s \in Sites : create[s] = "init" /\ git[s] # "none" => rest[s]

IndInv ==
    /\ TypeOK /\ ReapOK /\ CreateOK
    /\ LiveSiteIsWhole /\ BundledBeforeRemoved /\ PurgedRowHasNoRepo
=============================================================================
