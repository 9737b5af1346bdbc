------------------------------ MODULE ParserApp ------------------------------
(***************************************************************************)
(* The life of the parser application around its cycles: RunApp and App    *)
(* (internal/parser/app.go), which open the database, start the scheduler  *)
(* and shut both down on a signal, and Start and Stop of the Scheduler     *)
(* (internal/parser/scheduler.go).                                         *)
(*                                                                         *)
(* RunApp with its Shutdown, the goroutine of Start and the cycles run     *)
(* side by side; they share running and stopCh of the scheduler, the pool  *)
(* of connections and the cron.                                            *)
(***************************************************************************)
EXTENDS ParserCycle

VARIABLES
    main,     \* where RunApp is, from "stop" to "closed" with its Shutdown
    sched,    \* where Start is
    stopped   \* stopCh of the scheduler is closed

app == <<main, sched, stopped>>
appVars == <<cycleVars, app>>

TypeOK ==
    /\ ids \in BOOLEAN /\ dbOpen \in BOOLEAN /\ panicked \in BOOLEAN
    /\ phase \in [Cycles -> {"off", "collect", "list", "fetch", "process", "find", "save"}]
    /\ todo \in [Cycles -> SUBSET Sources]
    /\ listed \in [Cycles -> SUBSET Problems]
    /\ raw \in [Cycles -> SUBSET Problems]
    /\ task \in [Cycles -> Problems \union {NoProblem}]
    /\ expired \in [Cycles -> BOOLEAN]
    /\ lock \in [Sources -> Cycles \union {NoCycle}]
    /\ seen \subseteq Problems /\ stored \subseteq Problems /\ given \subseteq Problems
    /\ main \in {"init", "run", "stop", "close", "closed", "returned"}
    /\ sched \in {"none", "called", "starting", "waiting", "draining",
                  "drained", "forced", "failed"}
    /\ stopped \in BOOLEAN

Init ==
    /\ CycleInit
    /\ ids \in BOOLEAN /\ stored = {}
    /\ main = "init" /\ sched = "none" /\ stopped = FALSE

\* running of the Scheduler.
IsRunning == sched \in {"starting", "waiting", "draining"}

Idle == \A c \in Cycles : ~Running(c)

------------------------------------------------------------------------------
(* RunApp.                                                                 *)

\* Init: openDB pings the database, then the migrations run.
OpenDB ==
    /\ main = "init" /\ ~dbOpen /\ ~panicked
    /\ dbOpen' = TRUE
    /\ UNCHANGED <<cycle, shared, ids, panicked, app>>

\* Run starts the goroutine of the scheduler.
InitDone ==
    /\ main = "init" /\ dbOpen
    /\ main' = "run" /\ sched' = "called"
    /\ UNCHANGED <<cycleVars, stopped>>

\* RunApp returns an error: the database does not answer, which closes the
\* pool, or a migration fails, which does not; Start has failed; or the context
\* is cancelled.  Nothing is shut down.
RunFails ==
    /\ main \in {"init", "run"} /\ ~panicked
    /\ main' = "returned"
    /\ UNCHANGED <<cycleVars, sched, stopped>>

\* A signal: SignalStop closes the channel on which Run waits, Run returns and
\* RunApp starts Shutdown.
SignalStop ==
    /\ main = "run" /\ ~panicked
    /\ main' = "stop"
    /\ UNCHANGED <<cycleVars, sched, stopped>>

\* Stop of the scheduler: nothing if Start has not got as far as running.
ShutdownStop ==
    /\ main = "stop" /\ ~panicked
    /\ stopped' = IsRunning
    /\ main' = "close"
    /\ UNCHANGED <<cycleVars, sched>>

\* The pool is closed, whatever the cycles do.
ShutdownClose ==
    /\ main = "close" /\ ~panicked
    /\ dbOpen' = FALSE
    /\ main' = "closed"
    /\ UNCHANGED <<cycle, shared, ids, panicked, sched, stopped>>

------------------------------------------------------------------------------
(* Start of the scheduler, in a goroutine of Run.                          *)

SchedulerSteps(to) ==
    /\ sched' = to
    /\ UNCHANGED <<cycleVars, main, stopped>>

StartBegins ==
    /\ sched = "called" /\ ~panicked
    /\ SchedulerSteps("starting")

\* A collector cannot connect, or the cron expression is invalid.
StartFails ==
    /\ sched = "starting" /\ ~panicked
    /\ SchedulerSteps("failed")

CronStarts ==
    /\ sched = "starting" /\ ~panicked
    /\ SchedulerSteps("waiting")

Tick(c) ==
    /\ sched = "waiting"
    /\ StartCycle(c)
    /\ UNCHANGED app

\* Mutant of CronStops: the cron is stopped only once its jobs have been waited
\* for, so a tick may come in between.
CronStopsLate ==
    /\ sched = "waiting" /\ stopped /\ ~panicked /\ Idle
    /\ \/ SchedulerSteps("drained")
       \/ \E c \in Cycles :
             /\ StartCycle(c)
             /\ sched' = "drained"
             /\ UNCHANGED <<main, stopped>>

\* Start has received from stopCh: the cron starts no more cycles.
CronStops ==
    /\ sched = "waiting" /\ stopped /\ ~panicked
    /\ SchedulerSteps("draining")

\* The cycles in progress are over.
Drained ==
    /\ sched = "draining" /\ Idle /\ ~panicked
    /\ SchedulerSteps("drained")

\* 30 seconds are over first.
Forced ==
    /\ sched = "draining" /\ ~panicked
    /\ SchedulerSteps("forced")

------------------------------------------------------------------------------

\* The process is gone and is started again: a panic, or its main function
\* has seen RunApp return, with the shutdown done or 30 seconds over.  All but
\* the table of tasks is new.
Restart ==
    /\ panicked \/ main \notin {"init", "run"}
    /\ CycleReset
    /\ main' = "init" /\ sched' = "none" /\ stopped' = FALSE
    /\ UNCHANGED <<ids, stored>>

SchedulerStep == StartBegins \/ StartFails \/ CronStarts \/ CronStops \/ Drained \/ Forced

MainStep ==
    OpenDB \/ InitDone \/ RunFails \/ SignalStop \/ ShutdownStop \/ ShutdownClose

Next ==
    \/ MainStep
    \/ SchedulerStep
    \/ \E c \in Cycles :
          \/ Tick(c)
          \/ CycleStep(c) /\ UNCHANGED app
          \/ Expires(c) /\ UNCHANGED app
    \/ \E p \in Problems : OthersSave(p) /\ UNCHANGED app
    \/ Restart

Spec == Init /\ [][Next]_appVars

\* Every request has a timeout, every tick of a rate limiter comes, and a
\* goroutine that waits for a mutex gets it in the end, though others take it
\* in between (the starvation mode of sync.Mutex).
Fairness ==
    \A c \in Cycles :
        /\ WF_appVars(CycleStep(c) /\ UNCHANGED app)
        /\ \A s \in Sources : SF_appVars(Lock(c, s) /\ UNCHANGED app)

FairSpec == Spec /\ Fairness

------------------------------------------------------------------------------
(* Properties.                                                             *)

\* When Start has returned without running into its timeout, no cycle goes on
\* behind its back (Start: the cron is stopped before its jobs are waited for).
GracefulMeansIdle == sched = "drained" => Idle

\* Every cycle comes to its end, though the collectors fail, the database is
\* closed under it and other cycles want the same mutexes.
CycleEnds == \A c \in Cycles : Running(c) ~> ~Running(c) \/ panicked
==============================================================================
