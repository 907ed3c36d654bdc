-------------------------- MODULE MCSiteLifecycle --------------------------
(* Two sites, the server's scheduler and one kotoji-ops run; or the process that runs
   the scheduler.  Each behaviour runs one of the two, so their state spaces add up
   instead of multiplying. *)
EXTENDS SiteLifecycle, AppLifecycle

VARIABLE focus

mcVars == <<focus, vars, appVars>>

MCServers == <<"control", "serve">>

MCInit == focus \in {"sites", "process"} /\ Init /\ AppInit

OfSites(A) == focus = "sites" /\ A /\ UNCHANGED <<focus, appVars>>
OfProcess(A) == focus = "process" /\ A /\ UNCHANGED <<focus, vars>>

MCNext == OfSites(Next) \/ OfProcess(AppNext)

MCSpec ==
    /\ MCInit /\ [][MCNext]_mcVars
    /\ \A r \in Reapers : WF_mcVars(OfSites(ReapStep(r)))
    /\ \A s \in Sites : WF_mcVars(OfSites(CreateStep(s))) /\ WF_mcVars(OfSites(GraceElapses(s)))
    /\ WF_mcVars(OfProcess(MainStep)) /\ WF_mcVars(OfProcess(BudgetEnds))
    /\ WF_mcVars(OfProcess(EngineStep)) /\ WF_mcVars(OfProcess(SchedStep))
    /\ \A s \in Plain : WF_mcVars(OfProcess(ServerStep(s)))
    /\ \A h \in Handlers : WF_mcVars(OfProcess(QueryReturns(h)))
=============================================================================
