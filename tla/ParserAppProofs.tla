---------------------------- MODULE ParserAppProofs ----------------------------
(***************************************************************************)
(* Theorems about ParserApp, for any number of overlapping cycles,         *)
(* collectors and problems, and whatever fails.                            *)
(***************************************************************************)
EXTENDS ParserApp, TLAPS

\* A cycle has a task exactly while it saves one.
SavingInv == \A c \in Cycles : phase[c] \in {"find", "save"} <=> task[c] # NoProblem

TypeInv == TypeOK /\ SavingInv

\* A collector's list is walked under its mutex, and none of it is seen yet.
ListInv ==
    \A c \in Cycles : \A p \in listed[c] :
        phase[c] = "fetch" /\ lock[SourceOf[p]] = c /\ p \notin seen

\* What a cycle has collected is seen.
HeldInv == (\A c \in Cycles : Held(c) \subseteq seen) /\ OneHolder

CycleInv == ListInv /\ HeldInv /\ SeenIsAccounted

\* A step of the life around the cycles leaves the cycles alone.
AppStep ==
    /\ UNCHANGED <<cycle, shared, ids, panicked>>
    /\ dbOpen' \in BOOLEAN /\ stopped' \in BOOLEAN
    /\ main' \in {"init", "run", "stop", "close", "closed", "returned"}
    /\ sched' \in {"none", "called", "starting", "waiting", "draining",
                   "drained", "forced", "failed"}

LEMMA AppSteps == TypeOK /\ (MainStep \/ SchedulerStep) => AppStep
<1> SUFFICES ASSUME TypeOK, MainStep \/ SchedulerStep PROVE AppStep
  OBVIOUS
<1> USE DEF TypeOK, AppStep, app
<1>1. CASE OpenDB
  BY <1>1 DEF OpenDB
<1>2. CASE InitDone \/ RunFails \/ SignalStop
  BY <1>2 DEF InitDone, RunFails, SignalStop, cycleVars, cycle, shared
<1>3. CASE ShutdownStop
  BY <1>3 DEF ShutdownStop, IsRunning, cycleVars, cycle, shared
<1>4. CASE ShutdownClose
  BY <1>4 DEF ShutdownClose
<1>5. CASE SchedulerStep
  BY <1>5 DEF SchedulerStep, StartBegins, StartFails, CronStarts, CronStops, Drained,
              Forced, SchedulerSteps, cycleVars, cycle, shared
<1> QED BY <1>1, <1>2, <1>3, <1>4, <1>5 DEF MainStep

------------------------------------------------------------------------------
(* Types.                                                                  *)

LEMMA TypeInit == Init => TypeInv
  BY CycleAssumption DEF Init, CycleInit, TypeOK, TypeInv, SavingInv

LEMMA TypeStep == TypeInv /\ [Next]_appVars => TypeInv'
<1> SUFFICES ASSUME TypeInv, [Next]_appVars PROVE TypeInv'
  OBVIOUS
<1> USE CycleAssumption
<1> USE DEF TypeInv, TypeOK, SavingInv, cycle, shared, process, GoTo, At
<1>1. CASE MainStep \/ SchedulerStep
  BY <1>1, AppSteps DEF AppStep
<1>3. ASSUME NEW c \in Cycles, Tick(c) PROVE TypeInv'
  BY <1>3 DEF Tick, StartCycle, app
<1>4. ASSUME NEW c \in Cycles, CycleStep(c), UNCHANGED app PROVE TypeInv'
  <2> USE DEF app
  <2>1. ASSUME NEW s \in Sources, Lock(c, s) PROVE TypeInv'
    BY <1>4, <2>1 DEF Lock
  <2>2. ASSUME NEW s \in Sources, List(c, s) PROVE TypeInv'
    BY <1>4, <2>2 DEF List
  <2>3. ASSUME NEW s \in Sources, ListFails(c, s) \/ Collected(c, s) PROVE TypeInv'
    BY <1>4, <2>3 DEF ListFails, Collected, Unlock
  <2>4. ASSUME NEW p \in Problems, Fetch(c, p) \/ FetchFails(c, p) PROVE TypeInv'
    BY <1>4, <2>4 DEF Fetch, FetchFails
  <2>5. ASSUME NEW p \in Problems, Accept(c, p) \/ Refuse(c, p) PROVE TypeInv'
    BY <1>4, <2>5 DEF Accept, Refuse, Take
  <2>6. CASE CollectEnds(c) \/ BreakOff(c) \/ EndCycle(c)
    BY <1>4, <2>6 DEF CollectEnds, BreakOff, EndCycle
  <2>7. CASE FindNothing(c) \/ SavePanics(c)
    BY <1>4, <2>7 DEF FindNothing, SavePanics
  <2>8. CASE FindDuplicate(c) \/ FindFails(c)
    BY <1>4, <2>8 DEF FindDuplicate, FindFails, CountError, Settle
  <2>9. CASE Save(c) \/ SaveFails(c)
    BY <1>4, <2>9 DEF Save, SaveFails, CountError, Settle
  <2> QED
    BY <1>4, <2>1, <2>2, <2>3, <2>4, <2>5, <2>6, <2>7, <2>8, <2>9 DEF CycleStep, SaveStep
<1>5. ASSUME NEW c \in Cycles, Expires(c), UNCHANGED app PROVE TypeInv'
  BY <1>5 DEF Expires, app
<1>6. ASSUME NEW p \in Problems, OthersSave(p), UNCHANGED app PROVE TypeInv'
  BY <1>6 DEF OthersSave, app
<1>7. CASE Restart
  BY <1>7 DEF Restart, CycleReset
<1>8. CASE UNCHANGED appVars
  BY <1>8 DEF appVars, cycleVars, app
<1> QED BY <1>1, <1>3, <1>4, <1>5, <1>6, <1>7, <1>8 DEF Next

\* The variables of the application and of its cycles keep their types
\* (app.go, scheduler.go), whatever fails.
THEOREM ParserTypeCorrect == Spec => []TypeOK
<1>1. TypeInv => TypeOK
  BY DEF TypeInv
<1> QED BY <1>1, TypeInit, TypeStep, PTL DEF Spec

------------------------------------------------------------------------------
(* Cycles that overlap.                                                    *)

LEMMA CycleInvInit == Init => CycleInv
  BY CycleAssumption
  DEF Init, CycleInit, CycleInv, ListInv, HeldInv, OneHolder, SeenIsAccounted, Held

\* Two lists never have a problem in common: the mutex of its collector.
LEMMA ListsApart ==
    ASSUME TypeInv, ListInv, NEW c \in Cycles, NEW d \in Cycles, c # d
    PROVE  listed[c] \intersect listed[d] = {}
  BY DEF ListInv

LEMMA ListStep == TypeInv /\ ListInv /\ [Next]_appVars => ListInv'
<1> SUFFICES ASSUME TypeInv, ListInv, [Next]_appVars PROVE ListInv'
  OBVIOUS
<1> USE CycleAssumption
<1> USE DEF TypeInv, TypeOK, ListInv, cycle, shared, process, GoTo, At
<1>1. CASE MainStep \/ SchedulerStep
  BY <1>1, AppSteps DEF AppStep
<1>2. ASSUME NEW c \in Cycles, Tick(c) PROVE ListInv'
  BY <1>2 DEF Tick, StartCycle
<1>3. ASSUME NEW c \in Cycles, CycleStep(c) PROVE ListInv'
  <2>1. ASSUME NEW s \in Sources, Lock(c, s) PROVE ListInv'
    BY <2>1 DEF Lock
  <2>2. ASSUME NEW s \in Sources, List(c, s) PROVE ListInv'
    BY <2>2 DEF List
  <2>3. ASSUME NEW s \in Sources, ListFails(c, s) \/ Collected(c, s) PROVE ListInv'
    BY <2>3 DEF ListFails, Collected, Unlock
  <2>4. ASSUME NEW p \in Problems, Fetch(c, p) PROVE ListInv'
    BY <2>4, ListsApart DEF Fetch
  <2>5. ASSUME NEW p \in Problems, FetchFails(c, p) PROVE ListInv'
    BY <2>5 DEF FetchFails
  <2>6. ASSUME NEW p \in Problems, Accept(c, p) \/ Refuse(c, p) PROVE ListInv'
    BY <2>6 DEF Accept, Refuse, Take
  <2>7. CASE CollectEnds(c) \/ BreakOff(c) \/ EndCycle(c)
    BY <2>7 DEF CollectEnds, BreakOff, EndCycle
  <2>8. CASE SaveStep(c)
    BY <2>8 DEF SaveStep, FindNothing, SavePanics, FindDuplicate, FindFails, Save,
                SaveFails, Settle
  <2> QED BY <1>3, <2>1, <2>2, <2>3, <2>4, <2>5, <2>6, <2>7, <2>8 DEF CycleStep
<1>4. ASSUME NEW c \in Cycles, Expires(c) PROVE ListInv'
  BY <1>4 DEF Expires
<1>5. ASSUME NEW p \in Problems, OthersSave(p) PROVE ListInv'
  BY <1>5 DEF OthersSave
<1>6. CASE Restart
  BY <1>6 DEF Restart, CycleReset
<1>7. CASE UNCHANGED appVars
  BY <1>7 DEF appVars, cycleVars
<1> QED BY <1>1, <1>2, <1>3, <1>4, <1>5, <1>6, <1>7 DEF Next

\* A step that leaves raw, task, seen, stored and given alone.
LEMMA HeldUnchanged ==
    ASSUME UNCHANGED <<raw, task, shared>> \/ UNCHANGED <<raw, task, seen, stored, given>>
    PROVE  HeldInv /\ SeenIsAccounted => HeldInv' /\ SeenIsAccounted'
  BY DEF shared, HeldInv, OneHolder, SeenIsAccounted, Held

LEMMA HeldStep ==
    TypeInv /\ CycleInv /\ [Next]_appVars => HeldInv' /\ SeenIsAccounted'
<1> SUFFICES ASSUME TypeInv, CycleInv, [Next]_appVars
             PROVE  HeldInv' /\ SeenIsAccounted'
  OBVIOUS
<1> DEFINE Goal == HeldInv' /\ SeenIsAccounted'
<1> HIDE DEF Goal
<1> USE CycleAssumption
<1>1. CASE MainStep \/ SchedulerStep
  BY <1>1, AppSteps, HeldUnchanged DEF AppStep, cycle, TypeInv, CycleInv, Goal
<1>2. ASSUME NEW c \in Cycles, Tick(c) PROVE Goal
  BY <1>2, HeldUnchanged DEF Tick, StartCycle, CycleInv, Goal
<1>3. ASSUME NEW c \in Cycles, CycleStep(c) PROVE Goal
  <2> USE DEF TypeInv, TypeOK, SavingInv, shared, process, GoTo, At
  <2>1. ASSUME NEW s \in Sources,
               Lock(c, s) \/ List(c, s) \/ ListFails(c, s) \/ Collected(c, s)
        PROVE  Goal
    BY <2>1, HeldUnchanged DEF Lock, List, ListFails, Collected, Unlock, CycleInv, Goal
  <2>2. ASSUME NEW p \in Problems, Fetch(c, p) PROVE Goal
    <3>1. /\ raw' = [raw EXCEPT ![c] = @ \union {p}] /\ seen' = seen \union {p}
          /\ UNCHANGED <<task, stored, given>> /\ p \notin seen
      BY <2>2 DEF Fetch, CycleInv, ListInv
    <3>2. \A d \in Cycles : Held(d)' = IF d = c THEN Held(c) \union {p} ELSE Held(d)
      BY <3>1 DEF Held
    <3> QED
      BY <3>1, <3>2 DEF CycleInv, HeldInv, OneHolder, SeenIsAccounted, Goal
  <2>3. ASSUME NEW p \in Problems, FetchFails(c, p) PROVE Goal
    BY <2>3, HeldUnchanged DEF FetchFails, CycleInv, Goal
  <2>4. ASSUME NEW p \in Problems, Accept(c, p) PROVE Goal
    <3>1. /\ p \in raw[c] /\ task[c] = NoProblem
          /\ raw' = [raw EXCEPT ![c] = @ \ {p}] /\ task' = [task EXCEPT ![c] = p]
          /\ UNCHANGED <<seen, stored, given>>
      BY <2>4 DEF Accept, Take
    <3>2. \A d \in Cycles : Held(d)' = Held(d)
      BY <3>1 DEF Held
    <3> QED
      BY <3>1, <3>2 DEF CycleInv, HeldInv, OneHolder, SeenIsAccounted, Goal
  <2>5. ASSUME NEW p \in Problems, Refuse(c, p) PROVE Goal
    <3>1. /\ raw' = [raw EXCEPT ![c] = @ \ {p}] /\ given' = given \union {p}
          /\ UNCHANGED <<task, seen, stored>>
      BY <2>5 DEF Refuse, Take
    <3>2. \A d \in Cycles : Held(d)' \subseteq Held(d) /\ Held(d) \subseteq Held(d)' \union {p}
      BY <3>1 DEF Held
    <3> QED
      BY <3>1, <3>2 DEF CycleInv, HeldInv, OneHolder, SeenIsAccounted, Goal
  <2>6. CASE BreakOff(c)
    <3>1. /\ raw' = [raw EXCEPT ![c] = {}] /\ given' = given \union raw[c]
          /\ UNCHANGED <<task, seen, stored>>
      BY <2>6 DEF BreakOff
    <3>2. \A d \in Cycles :
             Held(d)' \subseteq Held(d) /\ Held(d) \subseteq Held(d)' \union raw[c]
      BY <3>1 DEF Held
    <3> QED
      BY <3>1, <3>2 DEF CycleInv, HeldInv, OneHolder, SeenIsAccounted, Goal
  <2>7. CASE CollectEnds(c) \/ EndCycle(c) \/ FindNothing(c) \/ SavePanics(c)
    BY <2>7, HeldUnchanged DEF CollectEnds, EndCycle, FindNothing, SavePanics, cycle,
                               CycleInv, Goal
  <2>8. CASE FindDuplicate(c) \/ FindFails(c) \/ Save(c) \/ SaveFails(c)
    <3>1. /\ task' = [task EXCEPT ![c] = NoProblem] /\ UNCHANGED <<raw, seen>>
          /\ task[c] \in stored' \union given'
          /\ stored \subseteq stored' /\ given \subseteq given'
      BY <2>8 DEF FindDuplicate, FindFails, Save, SaveFails, Settle, CountError
    <3>2. \A d \in Cycles :
             Held(d)' \subseteq Held(d) /\ Held(d) \subseteq Held(d)' \union {task[c]}
      BY <3>1 DEF Held
    <3> QED
      BY <3>1, <3>2 DEF CycleInv, HeldInv, OneHolder, SeenIsAccounted, Goal
  <2> QED
    BY <1>3, <2>1, <2>2, <2>3, <2>4, <2>5, <2>6, <2>7, <2>8 DEF CycleStep, SaveStep
<1>4. ASSUME NEW c \in Cycles, Expires(c) PROVE Goal
  BY <1>4, HeldUnchanged DEF Expires, CycleInv, Goal
<1>5. ASSUME NEW p \in Problems, OthersSave(p) PROVE Goal
  BY <1>5 DEF OthersSave, cycle, CycleInv, HeldInv, OneHolder, SeenIsAccounted, Held, Goal
<1>6. CASE Restart
  BY <1>6 DEF Restart, CycleReset, HeldInv, OneHolder, SeenIsAccounted, Held, Goal
<1>7. CASE UNCHANGED appVars
  BY <1>7, HeldUnchanged DEF appVars, cycleVars, shared, CycleInv, Goal
<1> QED BY <1>1, <1>2, <1>3, <1>4, <1>5, <1>6, <1>7 DEF Next, Goal

LEMMA CycleInvHolds == Spec => [](TypeInv /\ CycleInv)
<1>1. TypeInv /\ CycleInv /\ [Next]_appVars => CycleInv'
  BY ListStep, HeldStep DEF CycleInv
<1> QED BY <1>1, TypeInit, TypeStep, CycleInvInit, PTL DEF Spec

\* However many cycles overlap, each problem is in the hands of one at most
\* (Collect of the collectors, RunOnce).
THEOREM OneHolderCorrect == Spec => []OneHolder
<1>1. CycleInv => OneHolder
  BY DEF CycleInv, HeldInv
<1> QED BY <1>1, CycleInvHolds, PTL

\* However many cycles overlap and whatever fails, a problem that will not be
\* read again is stored, in hand or given up on the record (Collect, RunOnce,
\* SaveIfNotDuplicate).
THEOREM SeenIsAccountedCorrect == Spec => []SeenIsAccounted
<1>1. CycleInv => SeenIsAccounted
  BY DEF CycleInv
<1> QED BY <1>1, CycleInvHolds, PTL

------------------------------------------------------------------------------
(* The shutdown.                                                           *)

LEMMA IdleStep == TypeInv /\ GracefulMeansIdle /\ [Next]_appVars => GracefulMeansIdle'
<1> SUFFICES ASSUME TypeInv, GracefulMeansIdle, [Next]_appVars
             PROVE  GracefulMeansIdle'
  OBVIOUS
<1> USE DEF TypeInv, TypeOK, GracefulMeansIdle, Idle, Running, cycle, app
<1>1. CASE MainStep
  <2>1. sched' \in {sched, "called"} /\ phase' = phase
    BY <1>1, AppSteps DEF AppStep, MainStep, OpenDB, InitDone, RunFails, SignalStop,
                          ShutdownStop, ShutdownClose
  <2> QED BY <2>1
<1>2. CASE SchedulerStep
  <2>1. phase' = phase /\ (sched' = "drained" => Idle)
    BY <1>2, AppSteps
    DEF AppStep, SchedulerStep, StartBegins, StartFails, CronStarts, CronStops, Drained,
        Forced, SchedulerSteps
  <2> QED BY <2>1
<1>3. ASSUME NEW c \in Cycles, Tick(c) PROVE GracefulMeansIdle'
  BY <1>3 DEF Tick
<1>4. ASSUME NEW c \in Cycles, CycleStep(c), UNCHANGED app PROVE GracefulMeansIdle'
  <2>1. Running(c)
    BY <1>4 DEF CycleStep, SaveStep, At, Lock, List, ListFails, Collected, Fetch,
                FetchFails, Accept, Refuse, Take, CollectEnds, BreakOff, EndCycle,
                FindDuplicate, FindNothing, FindFails, Save, SaveFails, SavePanics
  <2> QED BY <1>4, <2>1
<1>5. ASSUME NEW c \in Cycles, Expires(c), UNCHANGED app PROVE GracefulMeansIdle'
  BY <1>5 DEF Expires
<1>6. ASSUME NEW p \in Problems, OthersSave(p), UNCHANGED app PROVE GracefulMeansIdle'
  BY <1>6 DEF OthersSave
<1>7. CASE Restart
  BY <1>7 DEF Restart
<1>8. CASE UNCHANGED appVars
  BY <1>8 DEF appVars, cycleVars
<1> QED BY <1>1, <1>2, <1>3, <1>4, <1>5, <1>6, <1>7, <1>8 DEF Next

\* When Start has returned without its timeout, every cycle is over, and no
\* tick has started another (Start of the scheduler).
THEOREM GracefulMeansIdleCorrect == Spec => []GracefulMeansIdle
<1>1. Init => GracefulMeansIdle
  BY DEF Init, GracefulMeansIdle
<1> QED BY <1>1, TypeInit, TypeStep, IdleStep, PTL DEF Spec
==============================================================================
