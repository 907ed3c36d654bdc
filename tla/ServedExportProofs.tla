------------------------ MODULE ServedExportProofs ------------------------
(***************************************************************************)
(* For every number of visitors, writers, commits, failures and exportCrashes: a *)
(* branch refreshed inside the write lock never serves a page whose bytes  *)
(* are older than the commit it is labelled with.                          *)
(***************************************************************************)
EXTENDS ServedExport, TLAPS

(* The first state satisfies ExportInv. *)
LEMMA InitHolds == ExportInit => ExportInv
BY WorkerAssumption
   DEF ExportInit, ExportInv, ExportTypeOK, ExportsTip, NeverOlderThanLabel, Workers, ExportPCs, Gone, Exporting

(* The steps of ServedTree, of the writes and of ensureServed keep ExportInv, both where
   the refresh happens under the lock and where it does not. *)
LEMMA StepHolds ==
    ASSUME ExportInv, [ExportNext]_exportVars
    PROVE  ExportInv'
<1> USE WorkerAssumption, ExportBoundAssumption
        DEF ExportInv, ExportTypeOK, ExportsTip, NeverOlderThanLabel, Workers, ExportPCs, Exporting, GoTo
<1>1. ASSUME NEW v \in Visitors, Visit(v) PROVE ExportInv'
  BY <1>1 DEF Visit
<1>2. ASSUME NEW w \in Refreshers, MoveTip(w) PROVE ExportInv'
  BY <1>2 DEF MoveTip
<1>3. ASSUME NEW w \in Workers, UnlockMoved(w) PROVE ExportInv'
  BY <1>3 DEF UnlockMoved
<1>4. ASSUME NEW w \in Workers, RefreshServed(w) PROVE ExportInv'
  BY <1>4 DEF RefreshServed
<1>5. ASSUME NEW w \in Workers, CheckSidecar(w) PROVE ExportInv'
  <2>1. CASE SidecarIsFresh(w) /\ w \in Refreshers
    BY <1>5, <2>1 DEF CheckSidecar, Return
  <2>2. CASE SidecarIsFresh(w) /\ w \in Visitors
    BY <1>5, <2>2 DEF CheckSidecar, SidecarIsFresh, Return
  <2>3. CASE ~SidecarIsFresh(w)
    BY <1>5, <2>3 DEF CheckSidecar
  <2> QED BY <1>5, <2>1, <2>2, <2>3
<1>6. ASSUME NEW w \in Workers, Export(w) PROVE ExportInv'
  BY <1>6 DEF Export
<1>7. ASSUME NEW w \in Workers, ExportFails(w) PROVE ExportInv'
  BY <1>7 DEF ExportFails, Return
<1>8. ASSUME NEW w \in Workers, StartRemove(w) PROVE ExportInv'
  <2>1. dst' \in [sha : Nat, whole : BOOLEAN, sidecar : BOOLEAN] /\ dst'.sha = dst.sha
    BY <1>8 DEF StartRemove
  <2> QED BY <1>8, <2>1 DEF StartRemove
<1>9. ASSUME NEW w \in Workers, EndRemove(w) PROVE ExportInv'
  <2>1. CASE w \in victim
    <3>0. dst' = Gone
      BY <1>9, <2>1 DEF EndRemove
    <3>1. dst' \in [sha : Nat, whole : BOOLEAN, sidecar : BOOLEAN] /\ dst'.sha = 0
      BY ONLY <3>0 DEF Gone
    <3> QED BY <1>9, <2>1, <3>1 DEF EndRemove
  <2>2. CASE w \notin victim
    BY <1>9, <2>2 DEF EndRemove
  <2> QED BY <2>1, <2>2
<1>10. ASSUME NEW w \in Workers, Rename(w) PROVE ExportInv'
  <2>1. CASE dst = Gone /\ dst' = Exported(w) /\ Return(w, TRUE)
    <3>1. CASE w \in Refreshers
      BY <1>10, <2>1, <3>1 DEF Rename, Return, Exported
    <3>2. CASE w \in Visitors
      BY <1>10, <2>1, <3>2 DEF Rename, Return, Exported
    <3> QED BY <3>1, <3>2
  <2>2. CASE dst # Gone /\ UNCHANGED dst /\ Return(w, FALSE)
    BY <1>10, <2>2 DEF Rename, Return
  <2> QED BY <1>10, <2>1, <2>2 DEF Rename
<1>11. CASE ExportCrash
  BY <1>11 DEF ExportCrash
<1>12. CASE UNCHANGED exportVars
  BY <1>12 DEF exportVars
<1> QED
  BY <1>1, <1>2, <1>3, <1>4, <1>5, <1>6, <1>7, <1>8, <1>9, <1>10, <1>11, <1>12
  DEF ExportNext, ExportStep

(* With the refresh under the lock (Publish, FetchAndUpdate), whoever exports holds
   the lock and exports the present tip, so a page labelled with a commit never has
   the bytes of an older one. *)
THEOREM LabelSound == ExportSpec => []NeverOlderThanLabel
<1>1. ExportInv /\ [ExportNext]_exportVars => ExportInv'
  BY StepHolds
<1>2. ExportInv => NeverOlderThanLabel
  BY DEF ExportInv
<1> QED
  BY InitHolds, <1>1, <1>2, PTL DEF ExportSpec
=============================================================================
