--------------------------- MODULE MCSiteSections ---------------------------
(* The site lock over two processes (two writers and a reader in the first, a writer
   and a reader in the second) with the consistency check beside them, or the export
   that the requests of one process rebuild under it.  Each behaviour runs one of the
   two, so their state spaces add up instead of multiplying. *)
EXTENDS MCSiteLock, ServedExport

VARIABLE focus

mcVars == <<focus, vars, exportVars>>

MCInit ==
    /\ focus \in {"lock", "export"}
    /\ Init /\ ExportInit
    /\ focus = "lock" => underLock

OfExport(A) == focus = "export" /\ A /\ UNCHANGED <<focus, vars>>

MCNext ==
    \/ focus = "lock" /\ Next /\ UNCHANGED <<focus, exportVars>>
    \/ OfExport(ExportNext)

(* Nothing is asked of the lock here but its safety.  A goroutine that exports runs
   on, visitors keep coming and are not shut out for ever (the RWMutex admits waiting
   readers when a writer leaves). *)
MCSpec ==
    /\ MCInit /\ [][MCNext]_mcVars
    /\ \A w \in Workers : WF_mcVars(OfExport(ExportStep(w)))
    /\ \A v \in Visitors : WF_mcVars(OfExport(Visit(v)))
=============================================================================
