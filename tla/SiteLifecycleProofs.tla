------------------------ MODULE SiteLifecycleProofs ------------------------
(***************************************************************************)
(* For every number of sites, reapers, failures and crashes: the reaper    *)
(* leaves live sites alone, bundles before it removes and purges a row     *)
(* only when the repository is gone.  For every number of servers and      *)
(* requests: the process stops in order.                                   *)
(***************************************************************************)
EXTENDS SiteLifecycle, AppLifecycle, TLAPS

(* Before the first site there is nothing to satisfy. *)
LEMMA InitHolds == Init => IndInv
BY DEF Init, IndInv, TypeOK, ReapOK, CreateOK, LiveSiteIsWhole, BundledBeforeRemoved,
       PurgedRowHasNoRepo, BeingRemoved, Rows, Creates, PCs, Reaping

(* Every step of CreateSite, DeleteSite and the reapers keeps IndInv. *)
LEMMA StepHolds ==
    ASSUME IndInv, [Next]_vars
    PROVE  IndInv'
<1> USE ReaperAssumption, BoundAssumption
        DEF IndInv, TypeOK, ReapOK, CreateOK, LiveSiteIsWhole, BundledBeforeRemoved,
            PurgedRowHasNoRepo, BeingRemoved, Rows, Creates, PCs, Reaping, Goto, Fail, CutShort, disk, pass
<1>1. ASSUME NEW s \in Sites, InsertRow(s) PROVE IndInv'
  BY <1>1 DEF InsertRow
<1>2. ASSUME NEW s \in Sites, InitRepo(s) PROVE IndInv'
  BY <1>2 DEF InitRepo
<1>2a. ASSUME NEW s \in Sites, MakeDir(s) PROVE IndInv'
  BY <1>2a DEF MakeDir
<1>3. ASSUME NEW s \in Sites, FirstCommit(s) PROVE IndInv'
  BY <1>3 DEF FirstCommit
<1>4. ASSUME NEW s \in Sites, InitFails(s) PROVE IndInv'
  <2>1. CASE git' = [git EXCEPT ![s] = "none"] /\ rest' \in {rest, [rest EXCEPT ![s] = FALSE]}
    <3>1. \A x \in Sites : x # s => git'[x] = git[x] /\ rest'[x] = rest[x]
      BY <2>1
    <3>2. git'[s] = "none" /\ git' \in [Sites -> {"none", "partial", "whole"}] /\ rest' \in [Sites -> BOOLEAN]
          /\ (rest'[s] => s \in cut')
      <4>1. git'[s] = "none" /\ git' \in [Sites -> {"none", "partial", "whole"}]
        BY <2>1
      <4>2. rest' \in [Sites -> BOOLEAN]
        <5>1. CASE rest' = rest
          BY <5>1
        <5>2. CASE rest' = [rest EXCEPT ![s] = FALSE]
          <6>1. rest \in [Sites -> BOOLEAN]
            OBVIOUS
          <6> QED BY ONLY <5>2, <6>1, Zenon
        <5> QED BY <2>1, <5>1, <5>2
      <4> QED BY <1>4, <4>1, <4>2 DEF InitFails
    <3>3. cut \subseteq cut' /\ cut' \in SUBSET Sites
      BY <1>4 DEF InitFails
    <3>4. /\ create[s] = "init" /\ create' = [create EXCEPT ![s] = "cleaned"] /\ faults' \in Nat
          /\ UNCHANGED <<row, backup, unbundled, pass, crashes>>
      BY <1>4 DEF InitFails
    <3>5. TypeOK'
      BY <3>2, <3>3, <3>4
    <3>6. ReapOK'
      BY <3>1, <3>2, <3>3, <3>4
    <3>7. CreateOK'
      BY <3>1, <3>2, <3>4
    <3>8. LiveSiteIsWhole' /\ BundledBeforeRemoved' /\ PurgedRowHasNoRepo'
      BY <3>1, <3>2, <3>3, <3>4
    <3> QED BY <3>5, <3>6, <3>7, <3>8
  <2>2. CASE UNCHANGED <<git, rest>>
    BY <1>4, <2>2 DEF InitFails
  <2> QED BY <1>4, <2>1, <2>2 DEF InitFails
<1>5. ASSUME NEW s \in Sites, UndoRow(s) PROVE IndInv'
  BY <1>5 DEF UndoRow, SoftDeleted
<1>6. ASSUME NEW s \in Sites, DeleteSite(s) PROVE IndInv'
  BY <1>6 DEF DeleteSite, SoftDeleted
<1>7. ASSUME NEW s \in Sites, GraceElapses(s) PROVE IndInv'
  BY <1>7 DEF GraceElapses
<1>8. ASSUME NEW r \in Reapers, ReapList(r) PROVE IndInv'
  BY <1>8 DEF ReapList, PastGrace
<1>9. ASSUME NEW r \in Reapers, EndPass(r) PROVE IndInv'
  BY <1>9 DEF EndPass
<1>10. ASSUME NEW r \in Reapers, NEW s \in Sites, ReapStat(r, s) PROVE IndInv'
  BY <1>10 DEF ReapStat, AfterStat
<1>11. ASSUME NEW r \in Reapers, Bundle(r) PROVE IndInv'
  <2>1. work[r] \in Sites
    BY <1>11 DEF Bundle
  <2>2. /\ backup' \in [Sites -> BOOLEAN]
        /\ \A s \in Sites : s # work[r] => backup'[s] = backup[s]
        /\ git[work[r]] = "whole" \/ backup[work[r]] => backup'[work[r]]
        /\ backup[work[r]] => backup'[work[r]]
    <3>1. Packed(work[r]) \in BOOLEAN BY DEF Packed
    <3>2. backup \in [Sites -> BOOLEAN] /\ backup' = [backup EXCEPT ![work[r]] = Packed(work[r])]
      BY <1>11 DEF Bundle
    <3>3. /\ backup' \in [Sites -> BOOLEAN]
          /\ \A s \in Sites : s # work[r] => backup'[s] = backup[s]
          /\ backup'[work[r]] = Packed(work[r])
      BY ONLY <2>1, <3>1, <3>2, Zenon
    <3> QED BY ONLY <3>3, Zenon DEF Packed
  <2>3. create[work[r]] = "ok" => backup'[work[r]] \/ work[r] \in unbundled
    BY <2>1, <2>2
  <2> QED BY <1>11, <2>1, <2>2, <2>3 DEF Bundle, AfterBundle
<1>12. ASSUME NEW r \in Reapers, BundleFails(r) PROVE IndInv'
  BY <1>12 DEF BundleFails, AfterBundle
<1>13. ASSUME NEW r \in Reapers, StartRemove(r) PROVE IndInv'
  BY <1>13 DEF StartRemove
<1>14. ASSUME NEW r \in Reapers, EndRemove(r) PROVE IndInv'
  BY <1>14 DEF EndRemove
<1>15. ASSUME NEW r \in Reapers, HardDeleteSite(r) PROVE IndInv'
  BY <1>15 DEF HardDeleteSite
<1>16. ASSUME NEW r \in Reapers, ReapError(r) PROVE IndInv'
  BY <1>16 DEF ReapError
<1>17. ASSUME NEW r \in Reapers, Crash(r) PROVE IndInv'
  BY <1>17 DEF Crash
<1>18. CASE UNCHANGED vars
  BY <1>18 DEF vars
<1> QED
  BY <1>1, <1>2, <1>2a, <1>3, <1>4, <1>5, <1>6, <1>7, <1>8, <1>9, <1>10, <1>11, <1>12, <1>13,
     <1>14, <1>15, <1>16, <1>17, <1>18 DEF Next, CreateStep, ReapStep

(* IndInv holds in every reachable state of CreateSite, DeleteSite and Ops.Reap. *)
THEOREM LifecycleInvariant == Spec => []IndInv
BY InitHolds, StepHolds, PTL DEF Spec

(* The reaper never touches the repository of a live site. *)
THEOREM LiveSitesAreSafe == Spec => []LiveSiteIsWhole
<1>1. IndInv => LiveSiteIsWhole BY DEF IndInv
<1> QED BY <1>1, LifecycleInvariant, PTL

(* reapOne removes a history only after a complete bundle of it, or after a bundle
   that failed. *)
THEOREM BundleComesFirst == Spec => []BundledBeforeRemoved
<1>1. IndInv => BundledBeforeRemoved BY DEF IndInv
<1> QED BY <1>1, LifecycleInvariant, PTL

(* reapOne purges a row only when .git is gone, and the rest of the directory with it
   unless another reaper is at it or a crash or an error had cut the work on it short. *)
THEOREM PurgeComesLast == Spec => []PurgedRowHasNoRepo
<1>1. IndInv => PurgedRowHasNoRepo BY DEF IndInv
<1> QED BY <1>1, LifecycleInvariant, PTL

-----------------------------------------------------------------------------
(***************************************************************************)
(* The process that runs the scheduler.  What OrderlyStop needs beside     *)
(* itself: how far main is tells which goroutines can still be at work.    *)
(***************************************************************************)
Booting == {"open", "wire", "engine", "start"}
Stopped == {"stop", "close", "exited"}
Mains == Booting \cup {"select", "drain", "wait"} \cup Stopped
EngineIdle == {"off", "bind443", "failing", "done"}

AppTypeOK ==
    /\ main \in Mains /\ draining \in Nat /\ (main = "drain" => draining \in 1..Len(Servers))
    /\ pool \in {"none", "open", "closing", "closed"}
    /\ late \in BOOLEAN /\ engineLate \in BOOLEAN /\ rolledBack \in BOOLEAN
    /\ server \in [Plain -> {"off", "spawned", "listening", "failing", "done"}]
    /\ engine \in EngineIdle \cup {"bind80", "running", "draining", "broken", "brokendrain"}
    /\ sched \in {"off", "pass", "query", "idle", "done"}
    /\ handler \in [Handlers -> [at : {"idle", "running", "query", "ended"},
                                 on : Plain \cup {EngineServer, "none"}]]

(* The scheduler runs only while the pool is open. *)
PoolOutlivesScheduler ==
    /\ main \in Booting => sched = "off"
    /\ main \in Mains \ {"open", "close", "exited"} => pool = "open"
    /\ main \in {"close", "exited"} => sched \in {"off", "done"}
    /\ ~touchedDead

(* Nothing serves before StartBackground, nor the engine once main waits no more. *)
ServingBegins ==
    /\ main \in Booting => \A s \in Plain : server[s] = "off"
    /\ main \in {"open", "wire", "engine"} => engine = "off"
    /\ main \in Stopped => engine \in {"off", "done"}
    /\ \A h \in Handlers : handler[h].at \in {"running", "query"} => handler[h].on # "none"

(* Servers whose Shutdown has begun, and has ended. *)
ShutBy(m, d, s) == m \in {"wait"} \cup Stopped \/ (m = "drain" /\ \E i \in 1..d : s = Servers[i])
EmptiedBy(m, d, s) == m \in {"wait"} \cup Stopped \/ (m = "drain" /\ \E i \in 1..(d - 1) : s = Servers[i])

(* A server that is shut takes no request, and once its Shutdown has returned has none
   left unless the budget ran out; the engine likewise, unless it gave up :443. *)
ShutServersStayEmpty ==
    /\ \A s \in Plain : ShutBy(main, draining, s) => s \in stopping \/ server[s] = "off"
    /\ \A s \in Plain : server[s] = "off" => \A h \in Handlers : handler[h].on # s
    /\ \A s \in Plain : EmptiedBy(main, draining, s) => late \/ \A h \in Handlers : handler[h].on # s
    /\ engine \in EngineIdle => engineLate \/ rolledBack \/ \A h \in Handlers : handler[h].on # EngineServer

AppInv == AppTypeOK /\ PoolOutlivesScheduler /\ ServingBegins /\ ShutServersStayEmpty

(* The plain servers are the control plane's and the data plane's; the engine is neither. *)
LEMMA PlainServers ==
    /\ Plain \subseteq {"control", "serve"} /\ Len(Servers) \in Nat /\ Len(Servers) >= 1
    /\ \A i \in 1..Len(Servers) : Servers[i] \in Plain
    /\ \A s \in Plain : s # EngineServer /\ s # "none"
<1>1. Servers \in Seq({"control", "serve"}) /\ Servers # << >>
  BY AppAssumption
<1>2. Plain \subseteq {"control", "serve"}
  BY <1>1 DEF Plain
<1>3. Len(Servers) \in Nat /\ Len(Servers) >= 1
  BY <1>1
<1> QED BY <1>2, <1>3 DEF Plain, EngineServer

(* When the process begins nothing runs. *)
LEMMA AppInitHolds == AppInit => AppInv
<1> SUFFICES ASSUME AppInit PROVE AppInv
  OBVIOUS
<1>1. /\ main = "open" /\ pool = "none" /\ server = [s \in Plain |-> "off"] /\ engine = "off" /\ sched = "off"
      /\ handler = [h \in Handlers |-> [at |-> "idle", on |-> "none"]]
  BY DEF AppInit
<1>2. handler \in [Handlers -> [at : {"idle", "running", "query", "ended"}, on : Plain \cup {EngineServer, "none"}]]
  BY <1>1
<1>3. \A h \in Handlers : handler[h].at = "idle" /\ handler[h].on = "none"
  BY <1>1
<1>4. AppTypeOK
  BY <1>1, <1>2 DEF AppInit, AppTypeOK, Mains, Booting, EngineIdle
<1>5. PoolOutlivesScheduler
  BY <1>1 DEF AppInit, PoolOutlivesScheduler, Mains, Booting
<1>6. ServingBegins
  BY <1>1, <1>3 DEF ServingBegins, Booting, Stopped
<1>7. ShutServersStayEmpty
  BY <1>1, <1>3, PlainServers DEF ShutServersStayEmpty, ShutBy, EmptiedBy, Stopped, EngineServer
<1> QED BY <1>4, <1>5, <1>6, <1>7 DEF AppInv

(* Every step of main, the goroutines and the handlers keeps AppInv. *)
LEMMA AppStepHolds ==
    ASSUME AppInv, [AppNext]_appVars
    PROVE  AppInv'
<1> USE PlainServers DEF AppInv, AppTypeOK, PoolOutlivesScheduler, ServingBegins, ShutServersStayEmpty,
        ShutBy, EmptiedBy, Mains, Booting, Stopped, EngineIdle
<1>1. CASE OpenStore
  BY <1>1 DEF OpenStore
<1>2. CASE Wire
  BY <1>2 DEF Wire
<1>3. CASE NewTLSEngine
  BY <1>3 DEF NewTLSEngine
<1>4. CASE StartBackground
  BY <1>4 DEF StartBackground
<1>5. CASE ServeSelect
  BY <1>5 DEF ServeSelect
<1>6. CASE Shutdown
  <2>1. CASE draining < Len(Servers)
    <3>1. /\ draining' = draining + 1 /\ main' = "drain" /\ stopping' = stopping \cup {Servers[draining + 1]}
          /\ (late \/ \A h \in Handlers : handler[h].on # Servers[draining])
          /\ UNCHANGED <<pool, late, engineLate, server, engine, sched, handler, touchedDead, rolledBack>>
          /\ main = "drain" /\ draining \in 1..Len(Servers)
      BY <1>6, <2>1 DEF Shutdown, Drained, Busy
    <3>2. AppTypeOK' /\ PoolOutlivesScheduler' /\ ServingBegins'
      BY <2>1, <3>1
    <3>3. \A s \in Plain : ShutBy(main', draining', s) => ShutBy(main, draining, s) \/ s = Servers[draining + 1]
      BY <2>1, <3>1
    <3>4. \A s \in Plain : EmptiedBy(main', draining', s) => EmptiedBy(main, draining, s) \/ s = Servers[draining]
      BY <2>1, <3>1
    <3> HIDE DEF ShutBy, EmptiedBy
    <3> QED BY <3>1, <3>2, <3>3, <3>4
  <2>2. CASE ~(draining < Len(Servers))
    <3>1. /\ main' = "wait"
          /\ (late \/ \A h \in Handlers : handler[h].on # Servers[draining])
          /\ UNCHANGED <<draining, stopping, pool, late, engineLate, server, engine, sched, handler, touchedDead, rolledBack>>
          /\ main = "drain" /\ draining = Len(Servers)
      BY <1>6, <2>2 DEF Shutdown, Drained, Busy
    <3>2. AppTypeOK' /\ PoolOutlivesScheduler' /\ ServingBegins'
      BY <3>1
    <3>3. ASSUME NEW s \in Plain PROVE ShutBy(main, draining, s) /\ (EmptiedBy(main, draining, s) \/ s = Servers[draining])
      <4>1. PICK i \in 1..Len(Servers) : s = Servers[i]
        BY DEF Plain
      <4> QED BY <3>1, <4>1
    <3> HIDE DEF ShutBy, EmptiedBy
    <3> QED BY <3>1, <3>2, <3>3
  <2> QED BY <2>1, <2>2
<1>7. CASE WaitGroup
  BY <1>7 DEF WaitGroup
<1>8. CASE Stop
  BY <1>8 DEF Stop, SchedulerStopped
<1>9. CASE Close
  BY <1>9 DEF Close
<1>10. CASE Signal
  BY <1>10 DEF Signal
<1>11. CASE BudgetEnds
  BY <1>11 DEF BudgetEnds
<1>12. CASE EngineStep
  BY <1>12 DEF EngineStep, Busy
<1>13. CASE EngineFails
  <2>1. /\ engine' \in EngineIdle \cup {"bind80", "running", "draining", "broken", "brokendrain"}
        /\ main \notin {"start"} /\ engine \in {"bind443", "bind80", "running"}
        /\ UNCHANGED <<main, draining, pool, late, engineLate, server, stopping, sched, handler, touchedDead>>
    BY <1>13 DEF EngineFails
  <2>2. rolledBack' \in BOOLEAN /\ (rolledBack => rolledBack')
    <3>1. rolledBack \in BOOLEAN /\ (rolledBack' = rolledBack \/ rolledBack' = TRUE)
      BY <1>13 DEF EngineFails
    <3> QED BY ONLY <3>1, Zenon
  <2>3. engine' \in EngineIdle => engineLate' \/ rolledBack' \/ \A h \in Handlers : handler'[h].on # EngineServer
    BY <1>13, <2>1 DEF EngineFails
  <2>4. main \notin {"open", "wire", "engine"} \cup Stopped
    BY <2>1
  <2> QED BY <2>1, <2>2, <2>3, <2>4
<1>14. CASE SchedStep
  <2>1. sched \in {"pass", "query", "idle"}
    BY <1>14 DEF SchedStep
  <2>2. pool = "open" /\ main \notin Booting \cup {"close", "exited"}
    BY <2>1
  <2>3. ~touchedDead' /\ sched' \in {"off", "pass", "query", "idle", "done"}
    <3>1. pool \notin {"closing", "closed"} /\ ~touchedDead
      BY <2>2
    <3>2. touchedDead' = touchedDead \/ touchedDead' = (touchedDead \/ pool \in {"closing", "closed"})
      BY <1>14 DEF SchedStep
    <3>3. ~touchedDead'
      BY <3>1, <3>2, Zenon
    <3>4. sched' \in {"off", "pass", "query", "idle", "done"}
      BY <1>14, <2>2 DEF SchedStep
    <3> QED BY <3>3, <3>4
  <2>4. UNCHANGED <<main, draining, pool, late, engineLate, server, stopping, engine, handler, rolledBack>>
    BY <1>14 DEF SchedStep
  <2> QED BY <2>2, <2>3, <2>4
<1>15. ASSUME NEW s \in Plain, ServerStep(s) PROVE AppInv'
  BY <1>15 DEF ServerStep
<1>16. ASSUME NEW s \in Plain, ServerFails(s) PROVE AppInv'
  BY <1>16 DEF ServerFails
<1>17. ASSUME NEW h \in Handlers, Accept(h) PROVE AppInv'
  <2>1. PICK s \in Accepting : handler' = [handler EXCEPT ![h] = [at |-> "running", on |-> s]]
    BY <1>17 DEF Accept
  <2>2. UNCHANGED <<main, draining, pool, late, engineLate, server, stopping, engine, sched, touchedDead, rolledBack>>
    BY <1>17 DEF Accept
  <2>3. \/ s \in Plain /\ server[s] = "listening" /\ s \notin stopping
        \/ s = EngineServer /\ engine \in {"bind80", "running", "broken"}
    BY DEF Accepting
  <2>4. handler'[h].at = "running" /\ handler'[h].on = s /\ \A k \in Handlers : k # h => handler'[k] = handler[k]
    BY <2>1
  <2>5. handler' \in [Handlers -> [at : {"idle", "running", "query", "ended"}, on : Plain \cup {EngineServer, "none"}]]
    BY <2>1, <2>3
  <2>6. AppTypeOK' /\ PoolOutlivesScheduler'
    BY <2>2, <2>5
  <2>7. ServingBegins'
    BY <2>2, <2>3, <2>4 DEF EngineServer
  <2>8. ASSUME NEW t \in Plain, t = s PROVE server[t] # "off" /\ ~EmptiedBy(main, draining, t)
    <3>1. server[t] = "listening" /\ t \notin stopping
      BY <2>3, <2>8
    <3>2. ~ShutBy(main, draining, t)
      BY <3>1
    <3>3. EmptiedBy(main, draining, t) => ShutBy(main, draining, t)
      OBVIOUS
    <3> QED BY <3>1, <3>2, <3>3
  <2>9. ASSUME NEW t, t # s, \A k \in Handlers : handler[k].on # t PROVE \A k \in Handlers : handler'[k].on # t
    BY <2>4, <2>9
  <2>10. ShutServersStayEmpty'
    <3> HIDE DEF ShutBy, EmptiedBy
    <3>1. \A t \in Plain : ShutBy(main', draining', t) => t \in stopping' \/ server'[t] = "off"
      BY <2>2
    <3>2. \A t \in Plain : server'[t] = "off" => \A k \in Handlers : handler'[k].on # t
      BY <2>2, <2>8, <2>9
    <3>3. \A t \in Plain : EmptiedBy(main', draining', t) => late' \/ \A k \in Handlers : handler'[k].on # t
      BY <2>2, <2>8, <2>9
    <3>4. engine' \in EngineIdle => engineLate' \/ rolledBack' \/ \A k \in Handlers : handler'[k].on # EngineServer
      BY <2>2, <2>3, <2>9
    <3> QED BY <3>1, <3>2, <3>3, <3>4
  <2> QED BY <2>6, <2>7, <2>10
<1>18. ASSUME NEW h \in Handlers, HandlerStep(h) PROVE AppInv'
  <2>1. UNCHANGED <<main, draining, pool, late, engineLate, server, stopping, engine, sched, touchedDead, rolledBack>>
    BY <1>18 DEF HandlerStep
  <2>2. PICK r \in [at : {"running", "query", "ended"}, on : Plain \cup {EngineServer, "none"}] :
           /\ handler' = [handler EXCEPT ![h] = r]
           /\ r.on \in {handler[h].on, "none"} /\ (r.at # "ended" => r.on # "none")
    <3>1. handler[h].at \in {"running", "query"} /\ handler[h].on \in Plain \cup {EngineServer} /\ handler[h].on # "none"
      BY <1>18 DEF HandlerStep
    <3>2. CASE handler' = [handler EXCEPT ![h].at = "query"]
      <4> WITNESS [handler[h] EXCEPT !.at = "query"] \in [at : {"running", "query", "ended"}, on : Plain \cup {EngineServer, "none"}]
      <4> QED BY <3>1, <3>2
    <3>3. CASE handler' = [handler EXCEPT ![h].at = "running"]
      <4> WITNESS [handler[h] EXCEPT !.at = "running"] \in [at : {"running", "query", "ended"}, on : Plain \cup {EngineServer, "none"}]
      <4> QED BY <3>1, <3>3
    <3>4. CASE handler' = [handler EXCEPT ![h] = [at |-> "ended", on |-> "none"]]
      <4> WITNESS [at |-> "ended", on |-> "none"] \in [at : {"running", "query", "ended"}, on : Plain \cup {EngineServer, "none"}]
      <4> QED BY <3>1, <3>4
    <3> QED BY <1>18, <3>2, <3>3, <3>4 DEF HandlerStep
  <2>3. handler'[h] = r /\ \A k \in Handlers : k # h => handler'[k] = handler[k]
    BY <2>2
  <2>4. handler' \in [Handlers -> [at : {"idle", "running", "query", "ended"}, on : Plain \cup {EngineServer, "none"}]]
    BY <2>2
  <2>5. AppTypeOK' /\ PoolOutlivesScheduler'
    BY <2>1, <2>4
  <2>6. ServingBegins'
    BY <2>1, <2>2, <2>3
  <2>7. ASSUME NEW t, t # "none", \A k \in Handlers : handler[k].on # t PROVE \A k \in Handlers : handler'[k].on # t
    BY <2>2, <2>3, <2>7
  <2>8. ShutServersStayEmpty'
    <3> HIDE DEF ShutBy, EmptiedBy
    <3> QED BY <2>1, <2>7 DEF EngineServer
  <2> QED BY <2>5, <2>6, <2>8
<1>19. CASE UNCHANGED appVars
  BY <1>19 DEF appVars
<1> QED BY <1>1, <1>2, <1>3, <1>4, <1>5, <1>6, <1>7, <1>8, <1>9, <1>10, <1>11, <1>12, <1>13, <1>14, <1>15, <1>16, <1>17, <1>18, <1>19 DEF AppNext, MainStep

(* The process stops in order, whatever made it stop, however many servers, requests and
   passes there are: the scheduler before the pool, a request before the process unless
   its listener's drain budget is used up or the engine gave the listener up because
   it could not bind :80 (serve, Engine.Run, App.Close). *)
THEOREM ProcessStopsInOrder == AppSpec => []OrderlyStop
<1>1. AppInv => OrderlyStop
  <2>1. AppInv => ReaperNeverTouchesClosingPool
    BY DEF AppInv, PoolOutlivesScheduler, ReaperNeverTouchesClosingPool
  <2>2. AppInv => CutOffOnlyWhenLate
    BY PlainServers DEF AppInv, AppTypeOK, ServingBegins, ShutServersStayEmpty, EmptiedBy, Stopped, EngineIdle,
       CutOffOnlyWhenLate
  <2> QED BY <2>1, <2>2 DEF OrderlyStop
<1> QED BY <1>1, AppInitHolds, AppStepHolds, PTL DEF AppSpec
=============================================================================
