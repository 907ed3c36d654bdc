---------------------------- MODULE AppLifecycle ----------------------------
(***************************************************************************)
(* The kotojid process: boot, serve, drain, close.  The main goroutine, a  *)
(* goroutine per plain server, the TLS engine's and the scheduler's run    *)
(* concurrently with the handlers of requests, and share the database      *)
(* pool and the error channel.                                             *)
(***************************************************************************)
EXTENDS Integers, FiniteSets, Sequences

CONSTANTS
    Servers,       \* the plain servers, in the order they are drained
    Handlers,      \* requests
    MaxPasses      \* passes of the scheduler's jobs

ASSUME AppAssumption ==
    /\ Servers \in Seq({"control", "serve"}) /\ Servers # << >>
    /\ MaxPasses \in Nat

VARIABLES
    main,        \* where the main goroutine is
    draining,    \* index of the server main is shutting down
    pool,        \* "none", "open", "closing" or "closed"
    signalled,   \* the signal context is done
    late,        \* the budget for draining the plain servers has run out
    engineLate,  \* the engine's own has
    server,      \* server[s]: its goroutine
    stopping,    \* servers whose Shutdown has been called
    engine,      \* the TLS engine's goroutine, "off" without KOTOJI_TLS_MODE=auto
    engineStop,  \* engineCtx is cancelled
    errCh,       \* errors waiting in serve's channel
    sched,       \* the scheduler's goroutine
    schedStop,   \* its context is cancelled
    passes,      \* passes begun
    handler,     \* handler[h]: [at, on]: idle, running or in a query, on which server
    touchedDead, \* the scheduler asked a closed pool for a connection
    rolledBack   \* the engine could not bind :80 and closed :443 without Shutdown

appVars == <<main, draining, pool, signalled, late, engineLate, server, stopping, engine, engineStop,
             errCh, sched, schedStop, passes, handler, touchedDead, rolledBack>>

Plain == {Servers[i] : i \in 1 .. Len(Servers)}
EngineServer == "tls"

AppInit ==
    /\ main = "open" /\ draining = 0 /\ pool = "none" /\ signalled = FALSE /\ late = FALSE /\ engineLate = FALSE
    /\ server = [s \in Plain |-> "off"] /\ stopping = {}
    /\ engine = "off" /\ engineStop = FALSE /\ errCh = 0
    /\ sched = "off" /\ schedStop = FALSE /\ passes = 0
    /\ handler = [h \in Handlers |-> [at |-> "idle", on |-> "none"]] /\ touchedDead = FALSE /\ rolledBack = FALSE

-----------------------------------------------------------------------------
(* app.New: the pool first; any later failure closes it again.  A signal makes the
   steps that use the network fail, which any of them may do anyway. *)
OpenStore ==
    /\ main = "open"
    /\ \/ main' = "wire" /\ pool' = "open"
       \/ main' = "exited" /\ UNCHANGED pool
    /\ UNCHANGED <<draining, signalled, late, engineLate, server, stopping, engine, engineStop, errCh, sched,
                   schedStop, passes, handler, touchedDead, rolledBack>>

(* Secret box, migration, providers. *)
Wire ==
    /\ main = "wire"
    /\ \/ main' = "exited" /\ pool' = "closed"
       \/ main' = "engine" /\ UNCHANGED pool
    /\ UNCHANGED <<draining, signalled, late, engineLate, server, stopping, engine, engineStop, errCh, sched,
                   schedStop, passes, handler, touchedDead, rolledBack>>

(* The TLS engine, if there is one to build; its failure runs the deferred Close. *)
NewTLSEngine ==
    /\ main = "engine"
    /\ \/ main' = "stop" /\ UNCHANGED engine
       \/ main' = "start" /\ engine' \in {"off", "bind443"}
    /\ UNCHANGED <<draining, pool, signalled, late, engineLate, server, stopping, engineStop, errCh, sched,
                   schedStop, passes, handler, touchedDead, rolledBack>>

(* StartBackground, where there is a control plane, then serve starts a goroutine for
   every server. *)
StartBackground ==
    /\ main = "start"
    /\ main' = "select" /\ sched' = IF "control" \in Plain THEN "pass" ELSE "off"
    /\ server' = [s \in Plain |-> "spawned"]
    /\ UNCHANGED <<draining, pool, signalled, late, engineLate, stopping, engine, engineStop, errCh, schedStop,
                   passes, handler, touchedDead, rolledBack>>

Signal ==
    /\ ~signalled /\ main # "exited"
    /\ signalled' = TRUE /\ engineStop' = TRUE /\ schedStop' = TRUE
    /\ UNCHANGED <<main, draining, pool, late, engineLate, server, stopping, engine, errCh, sched, passes,
                   handler, touchedDead, rolledBack>>

-----------------------------------------------------------------------------
(* The channel has room for one error of every goroutine that may send one. *)
Unbuffered == 0  \* mutant
ErrCap == Len(Servers) + 1

(* A send succeeds when there is room, or main is there to receive. *)
CanSend == errCh < ErrCap \/ (main = "select" /\ errCh = ErrCap)

(* ListenAndServe: refuses after Shutdown, may fail to bind or to accept, ends when
   Shutdown is called. *)
ServerStep(s) ==
    /\ \/ server[s] = "spawned" /\ s \notin stopping /\ server' = [server EXCEPT ![s] = "listening"] /\ UNCHANGED errCh
       \/ server[s] = "failing" /\ CanSend /\ errCh' = errCh + 1 /\ server' = [server EXCEPT ![s] = "done"]
       \/ server[s] \in {"spawned", "listening"} /\ s \in stopping
          /\ server' = [server EXCEPT ![s] = "done"] /\ UNCHANGED errCh
    /\ UNCHANGED <<main, draining, pool, signalled, late, engineLate, stopping, engine, engineStop, sched,
                   schedStop, passes, handler, touchedDead, rolledBack>>

ServerFails(s) ==
    /\ server[s] \in {"spawned", "listening"} /\ s \notin stopping
    /\ server' = [server EXCEPT ![s] = "failing"]
    /\ UNCHANGED <<main, draining, pool, signalled, late, engineLate, stopping, engine, engineStop, errCh,
                   sched, schedStop, passes, handler, touchedDead, rolledBack>>

(* Engine.Run: bind :443 and serve on it, then bind :80, which failing closes the
   :443 listener and returns; run until a listener fails or engineCtx is done; drain
   both within a budget of its own. *)
Busy(s) == \E h \in Handlers : handler[h].on = s
EngineStep ==
    /\ main # "start"
    /\ \/ engine = "bind443" /\ engine' = "bind80" /\ UNCHANGED <<errCh, stopping>>
       \/ engine = "bind80" /\ engine' = "running" /\ UNCHANGED <<errCh, stopping>>
       \/ engine = "running" /\ engineStop /\ engine' = "draining"
          /\ stopping' = stopping \cup {EngineServer} /\ UNCHANGED errCh
       \/ engine = "broken" /\ engine' = "brokendrain"
          /\ stopping' = stopping \cup {EngineServer} /\ UNCHANGED errCh
       \/ engine = "draining" /\ ~Busy(EngineServer) /\ engine' = "done" /\ UNCHANGED <<errCh, stopping>>
       \/ engine = "draining" /\ Busy(EngineServer) /\ engineLate /\ engine' = "failing" /\ UNCHANGED <<errCh, stopping>>
       \/ engine = "brokendrain" /\ (~Busy(EngineServer) \/ engineLate) /\ engine' = "failing" /\ UNCHANGED <<errCh, stopping>>
       \/ engine = "failing" /\ CanSend /\ errCh' = errCh + 1 /\ engine' = "done" /\ UNCHANGED stopping
    /\ UNCHANGED <<main, draining, pool, signalled, late, engineLate, server, engineStop, sched, schedStop,
                   passes, handler, touchedDead, rolledBack>>

EngineFails ==
    /\ main # "start"
    /\ \/ engine = "bind443" /\ engine' = "failing" /\ UNCHANGED rolledBack
       \/ engine = "bind80" /\ engine' = "failing" /\ rolledBack' = TRUE
       \/ engine = "running" /\ engine' = "broken" /\ UNCHANGED rolledBack
    /\ UNCHANGED <<main, draining, pool, signalled, late, engineLate, server, stopping, engineStop, errCh,
                   sched, schedStop, passes, handler, touchedDead>>

-----------------------------------------------------------------------------
(* serve: wait for the signal or the first error, cancel the engine, shut the plain
   servers down one after the other on one budget, wait for the goroutines. *)
ServeSelect ==
    /\ main = "select"
    /\ \/ signalled /\ UNCHANGED errCh
       \/ errCh > 0 /\ errCh' = errCh - 1
    /\ main' = "drain" /\ draining' = 1 /\ engineStop' = TRUE
    /\ stopping' = stopping \cup {Servers[1]}
    /\ UNCHANGED <<pool, signalled, late, engineLate, server, engine, sched, schedStop, passes, handler, touchedDead, rolledBack>>

Drained(s) == ~Busy(s) \/ late

Shutdown ==
    /\ main = "drain" /\ Drained(Servers[draining])
    /\ IF draining < Len(Servers)
       THEN draining' = draining + 1 /\ stopping' = stopping \cup {Servers[draining + 1]} /\ UNCHANGED main
       ELSE main' = "wait" /\ UNCHANGED <<draining, stopping>>
    /\ UNCHANGED <<pool, signalled, late, engineLate, server, engine, engineStop, errCh, sched, schedStop, passes,
                   handler, touchedDead, rolledBack>>

(* A drain budget runs out. *)
BudgetEnds ==
    /\ \/ main = "drain" /\ ~late /\ late' = TRUE /\ UNCHANGED engineLate
       \/ engine \in {"draining", "brokendrain"} /\ ~engineLate /\ engineLate' = TRUE /\ UNCHANGED late
    /\ UNCHANGED <<main, draining, pool, signalled, server, stopping, engine, engineStop, errCh,
                   sched, schedStop, passes, handler, touchedDead, rolledBack>>

WaitGroup ==
    /\ main = "wait"
    /\ \A s \in Plain : server[s] = "done"
    /\ engine \in {"off", "done"}
    /\ main' = "stop"
    /\ UNCHANGED <<draining, pool, signalled, late, engineLate, server, stopping, engine, engineStop, errCh,
                   sched, schedStop, passes, handler, touchedDead, rolledBack>>

-----------------------------------------------------------------------------
(* App.Close: cancel the scheduler and wait for its goroutine, then close the pool,
   which waits for the connections in use and refuses new ones. *)
PoolFirst == TRUE  \* mutant
SchedulerStopped == sched \in {"off", "done"}

Stop ==
    /\ main = "stop"
    /\ IF SchedulerStopped
       THEN main' = "close" /\ pool' = "closing" /\ UNCHANGED schedStop
       ELSE ~schedStop /\ schedStop' = TRUE /\ UNCHANGED <<main, pool>>
    /\ UNCHANGED <<draining, signalled, late, engineLate, server, stopping, engine, engineStop, errCh, sched,
                   passes, handler, touchedDead, rolledBack>>

Close ==
    /\ main = "close"
    /\ \A h \in Handlers : handler[h].at # "query"
    /\ sched # "query"
    /\ pool' = "closed" /\ main' = "exited"
    /\ UNCHANGED <<draining, signalled, late, engineLate, server, stopping, engine, engineStop, errCh, sched,
                   schedStop, passes, handler, touchedDead, rolledBack>>

(* The scheduler: the consistency check, then passes of reaper and gc.  A pass asks
   the pool also when its context is done (the query then fails at once). *)
SchedStep ==
    /\ main # "exited"
    /\ \/ /\ sched = "pass"
          /\ touchedDead' = (touchedDead \/ pool \in {"closing", "closed"})
          /\ sched' = IF pool = "open" THEN "query" ELSE "idle"
          /\ UNCHANGED passes
       \/ sched = "query" /\ sched' = "idle" /\ UNCHANGED <<passes, touchedDead>>
       \/ sched = "idle" /\ schedStop /\ sched' = "done" /\ UNCHANGED <<passes, touchedDead>>
       \/ sched = "idle" /\ passes < MaxPasses /\ sched' = "pass" /\ passes' = passes + 1 /\ UNCHANGED touchedDead
    /\ UNCHANGED <<main, draining, pool, signalled, late, engineLate, server, stopping, engine, engineStop,
                   errCh, schedStop, handler, rolledBack>>

(* The servers that take requests.  :443 does from its bind on, before :80 is bound,
   and until Shutdown also when it is :80 that failed. *)
Accepting == {s \in Plain : server[s] = "listening" /\ s \notin stopping}
             \cup IF engine \in {"bind80", "running", "broken"} THEN {EngineServer} ELSE {}

(* A request is accepted; its handler queries the pool, or is refused by a closed one;
   it may end at any time. *)
Accept(h) ==
    /\ handler[h].at = "idle" /\ main # "exited"
    /\ \E s \in Accepting : handler' = [handler EXCEPT ![h] = [at |-> "running", on |-> s]]
    /\ UNCHANGED <<main, draining, pool, signalled, late, engineLate, server, stopping, engine, engineStop,
                   errCh, sched, schedStop, passes, touchedDead, rolledBack>>

HandlerStep(h) ==
    /\ main # "exited"
    /\ \/ handler[h].at = "running" /\ pool = "open" /\ handler' = [handler EXCEPT ![h].at = "query"]
       \/ handler[h].at = "query" /\ handler' = [handler EXCEPT ![h].at = "running"]
       \/ handler[h].at = "running" /\ handler' = [handler EXCEPT ![h] = [at |-> "ended", on |-> "none"]]
    /\ UNCHANGED <<main, draining, pool, signalled, late, engineLate, server, stopping, engine, engineStop,
                   errCh, sched, schedStop, passes, touchedDead, rolledBack>>

QueryReturns(h) == handler[h].at = "query" /\ HandlerStep(h)

MainStep == OpenStore \/ Wire \/ NewTLSEngine \/ StartBackground \/ ServeSelect \/ Shutdown \/ WaitGroup \/ Stop \/ Close

AppNext ==
    \/ MainStep \/ Signal \/ BudgetEnds \/ EngineStep \/ EngineFails \/ SchedStep
    \/ \E s \in Plain : ServerStep(s) \/ ServerFails(s)
    \/ \E h \in Handlers : Accept(h) \/ HandlerStep(h)

(* Goroutines that can run do, timers fire, and queries return. *)
AppFairness ==
    /\ WF_appVars(MainStep) /\ WF_appVars(BudgetEnds) /\ WF_appVars(EngineStep) /\ WF_appVars(SchedStep)
    /\ \A s \in Plain : WF_appVars(ServerStep(s))
    /\ \A h \in Handlers : WF_appVars(QueryReturns(h))

AppSpec == AppInit /\ [][AppNext]_appVars /\ AppFairness
-----------------------------------------------------------------------------
(* "The scheduler is stopped first so an in-flight reaper pass cannot touch a closing
   pool", on every way to Close: signal, crashed listener, failed engine. *)
ReaperNeverTouchesClosingPool == ~touchedDead

(* The end of the process cuts a request off only after the drain budget of the
   listener it came in by has run out, whatever made the process stop; but for the
   requests on :443 that the engine abandons when it cannot bind :80. *)
CutOffOnlyWhenLate ==
    main = "exited" =>
        \A h \in Handlers : handler[h].at \in {"running", "query"} =>
            IF handler[h].on = EngineServer THEN engineLate \/ rolledBack ELSE late

(* The process stops in order, whatever made it stop: the reaper before the pool it
   uses, and requests before the process unless their time is up or the engine gave
   their listener up without draining it. *)
OrderlyStop == ReaperNeverTouchesClosingPool /\ CutOffOnlyWhenLate

(* After a signal, or the first failing listener, the process ends: no goroutine is
   left sending or waiting, also when several fail at once or Shutdown comes before
   a server has begun to listen. *)
StopsWhenTold == (signalled \/ errCh > 0) ~> (main = "exited")
=============================================================================
