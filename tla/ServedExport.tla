---------------------------- MODULE ServedExport ----------------------------
(***************************************************************************)
(* The exported tree of one branch, served/{branch}: ensureServed cut into *)
(* its file-system steps and run by visitors (ServedTree, under the site's *)
(* read lock) and by the refresh that follows every write.  The refresh of *)
(* `published' runs inside the write lock (finishPublish, FetchAndUpdate), *)
(* that of a working branch after the unlock: underLock tells which.  The  *)
(* lock itself is the contract of SectionLock within one process.          *)
(***************************************************************************)
EXTENDS Naturals

CONSTANTS
    Visitors,   \* requests of the data plane
    Refreshers, \* requests that move the branch and refresh the export
    MaxTip,     \* bound on commits on the branch
    MaxFaults,  \* bound on failed exports (git archive, tar, disk)
    MaxExportCrashes

Workers == Visitors \cup Refreshers

ASSUME WorkerAssumption == Visitors \cap Refreshers = {}
ASSUME ExportBoundAssumption ==
    MaxTip \in Nat \ {0} /\ MaxFaults \in Nat /\ MaxExportCrashes \in Nat

VARIABLES
    underLock, \* the kind of branch: whether the refresh happens before the unlock
    tip,     \* the branch's commit, 1, 2, ... in the order they were made
    dst,     \* what is at served/{branch}: [sha, whole, sidecar]
    holds,   \* workers inside a section of the site lock
    at,      \* where each worker is
    want,    \* want[w]: the commit w read as the tip and exports
    victim,  \* workers whose RemoveAll works on the directory now at dst
    handle,  \* handle[v]: CommitSHA of the TreeHandle v serves from, or 0
    faults, exportCrashes

exportVars == <<underLock, tip, dst, holds, at, want, victim, handle, faults, exportCrashes>>

ExportPCs == {"idle", "moved", "unlocked", "checking", "building", "built", "clearing",
        "cleared", "serving", "failed"}

Gone == [sha |-> 0, whole |-> FALSE, sidecar |-> FALSE]

ExportInit ==
    /\ underLock \in BOOLEAN
    /\ tip = 1
    /\ dst = Gone
    /\ holds = {} /\ victim = {}
    /\ at = [w \in Workers |-> "idle"]
    /\ want = [w \in Workers |-> 0]
    /\ handle = [v \in Visitors |-> 0]
    /\ faults = 0 /\ exportCrashes = 0

GoTo(w, l) == at' = [at EXCEPT ![w] = l]

-----------------------------------------------------------------------------
(* ServedTree: take the read lock and read the branch's tip. *)
Visit(v) ==
    /\ at[v] \in {"idle", "serving", "failed"} /\ holds \cap Refreshers = {}
    /\ holds' = holds \cup {v}
    /\ want' = [want EXCEPT ![v] = tip]
    /\ handle' = [handle EXCEPT ![v] = 0]
    /\ GoTo(v, "checking")
    /\ UNCHANGED <<underLock, tip, dst, victim, faults, exportCrashes>>

(* A write moves the branch inside the write lock. *)
MoveTip(w) ==
    /\ at[w] = "idle" /\ holds = {} /\ tip < MaxTip
    /\ tip' = tip + 1
    /\ holds' = {w}
    /\ GoTo(w, "moved")
    /\ UNCHANGED <<underLock, dst, want, victim, handle, faults, exportCrashes>>

UnlockMoved(w) ==
    /\ at[w] = "moved" /\ ~underLock
    /\ holds' = holds \ {w}
    /\ GoTo(w, "unlocked")
    /\ UNCHANGED <<underLock, tip, dst, want, victim, handle, faults, exportCrashes>>

(* refreshServed reads the tip again. *)
RefreshServed(w) ==
    /\ at[w] = IF underLock THEN "moved" ELSE "unlocked"
    /\ want' = [want EXCEPT ![w] = tip]
    /\ GoTo(w, "checking")
    /\ UNCHANGED <<underLock, tip, dst, holds, victim, handle, faults, exportCrashes>>

-----------------------------------------------------------------------------
(* ensureServed *)

(* A visitor leaves with a handle or an error; a refresh ignores the outcome. *)
Return(w, ok) ==
    /\ holds' = holds \ {w}
    /\ IF w \in Refreshers
       THEN GoTo(w, "idle") /\ UNCHANGED handle
       ELSE /\ GoTo(w, IF ok THEN "serving" ELSE "failed")
            /\ handle' = [handle EXCEPT ![w] = IF ok THEN want[w] ELSE 0]

AnyExport(w) == dst.sidecar             \* mutant: the recorded SHA is not compared
SidecarIsFresh(w) == dst.sidecar /\ dst.sha = want[w]

CheckSidecar(w) ==
    /\ at[w] = "checking"
    /\ \/ SidecarIsFresh(w) /\ Return(w, TRUE)
       \/ ~SidecarIsFresh(w) /\ GoTo(w, "building") /\ UNCHANGED <<holds, handle>>
    /\ UNCHANGED <<underLock, tip, dst, want, victim, faults, exportCrashes>>

(* MkdirTemp, `git archive', extractTar, the sidecar: all in a private directory. *)
Export(w) ==
    /\ at[w] = "building"
    /\ GoTo(w, "built")
    /\ UNCHANGED <<underLock, tip, dst, holds, want, victim, handle, faults, exportCrashes>>

ExportFails(w) ==
    /\ at[w] = "building" /\ faults < MaxFaults
    /\ faults' = faults + 1
    /\ Return(w, FALSE)
    /\ UNCHANGED <<underLock, tip, dst, want, victim, exportCrashes>>

(* os.RemoveAll(dst) unlinks file by file, the sidecar among them in directory
   order, then the directory. *)
StartRemove(w) ==
    /\ at[w] = "built"
    /\ \/ dst = Gone /\ GoTo(w, "cleared") /\ UNCHANGED <<dst, victim>>
       \/ /\ dst # Gone
          /\ \E left \in {dst.sidecar, FALSE} :
                dst' = [dst EXCEPT !.whole = FALSE, !.sidecar = left]
          /\ victim' = victim \cup {w}
          /\ GoTo(w, "clearing")
    /\ UNCHANGED <<underLock, tip, holds, want, handle, faults, exportCrashes>>

(* A worker whose directory somebody else already removed does no more harm. *)
EndRemove(w) ==
    /\ at[w] = "clearing"
    /\ IF w \in victim THEN dst' = Gone /\ victim' = {} ELSE UNCHANGED <<dst, victim>>
    /\ GoTo(w, "cleared")
    /\ UNCHANGED <<underLock, tip, holds, want, handle, faults, exportCrashes>>

(* os.Rename(tmp, dst) fails when another worker's tree is there. *)
BareExport(w) == [sha |-> want[w], whole |-> TRUE, sidecar |-> FALSE] \* mutant: no sidecar
Exported(w)   == [sha |-> want[w], whole |-> TRUE, sidecar |-> TRUE]

Rename(w) ==
    /\ at[w] = "cleared"
    /\ \/ dst = Gone /\ dst' = Exported(w) /\ Return(w, TRUE)
       \/ dst # Gone /\ UNCHANGED dst /\ Return(w, FALSE)
    /\ UNCHANGED <<underLock, tip, want, victim, faults, exportCrashes>>

(* The process dies and starts again; what is on disk stays as it is. *)
ExportCrash ==
    /\ exportCrashes < MaxExportCrashes
    /\ exportCrashes' = exportCrashes + 1
    /\ holds' = {} /\ victim' = {}
    /\ at' = [w \in Workers |-> "idle"]
    /\ handle' = [v \in Visitors |-> 0]
    /\ UNCHANGED <<underLock, tip, dst, want, faults>>

-----------------------------------------------------------------------------
ExportStep(w) ==
    \/ UnlockMoved(w) \/ RefreshServed(w) \/ CheckSidecar(w) \/ Export(w)
    \/ StartRemove(w) \/ EndRemove(w) \/ Rename(w)

ExportNext ==
    \/ \E v \in Visitors : Visit(v)
    \/ \E w \in Refreshers : MoveTip(w)
    \/ \E w \in Workers : ExportStep(w) \/ ExportFails(w)
    \/ ExportCrash

ExportSpec == ExportInit /\ [][ExportNext]_exportVars

-----------------------------------------------------------------------------
(* Shape of the state ensureServed and ServedTree work on. *)
ExportTypeOK ==
    /\ underLock \in BOOLEAN /\ tip \in Nat /\ faults \in Nat /\ exportCrashes \in Nat
    /\ dst \in [sha : Nat, whole : BOOLEAN, sidecar : BOOLEAN]
    /\ holds \in SUBSET Workers /\ victim \in SUBSET Workers
    /\ at \in [Workers -> ExportPCs]
    /\ want \in [Workers -> Nat]
    /\ handle \in [Visitors -> Nat]

(* A page is labelled (strong ETag, Last-Modified) with its handle's CommitSHA but
   read from the directory whenever the bytes are needed.  The directory never
   holds a commit older than the label, so no client ever keeps old bytes under
   the new commit's ETag.  Holds for `published', refreshed under the lock. *)
NeverOlderThanLabel ==
    underLock => \A v \in Visitors : handle[v] # 0 /\ dst.sha # 0 => dst.sha >= handle[v]

Fresh == dst.sha = tip /\ dst.sidecar /\ (dst.whole \/ exportCrashes > 0)

(* While visitors keep coming the export is again and again the branch's last
   commit, complete: lost races, failed exports and stale refreshes heal.  (It
   need not stay so: two visitors may keep replacing each other's copy.)  Only a
   crash in RemoveAll can leave the last commit incomplete under its sidecar. *)
ServedRecovers == (\E v \in Visitors : at[v] = "checking") ~> Fresh

(***************************************************************************)
(* The inductive strengthening for a refresh under the lock: whoever works *)
(* on the export holds the lock and exports the present tip.               *)
(***************************************************************************)
Exporting == {"checking", "building", "built", "clearing", "cleared"}

ExportsTip ==
    /\ \A w \in Workers : at[w] \in Exporting => w \in holds /\ want[w] = tip
    /\ \A w \in Workers : at[w] = "moved" => w \in holds
    /\ \A w \in holds : w \in Refreshers => holds = {w}
    /\ dst.sha <= tip
    /\ \A v \in Visitors : handle[v] <= tip

ExportInv == ExportTypeOK /\ (underLock => ExportsTip) /\ NeverOlderThanLabel
=============================================================================
