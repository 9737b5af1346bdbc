------------------------ MODULE CollectionQueueProofs ------------------------
(***************************************************************************)
(* Theorems about CollectionQueue and the clock of its leases, for any     *)
(* number of replicas, jobs, sources and faults.                           *)
(***************************************************************************)
EXTENDS CollectionQueueRefinement, LeaseTimer, TLAPS

\* FinishJob always computes a terminal status.
LEMMA AggregateTerminal == \A src : Aggregate(src) \in Terminal
  BY DEF Aggregate, Terminal

\* What Claim does, without the scan that selects the job.
Claims(w, j) ==
    /\ pc[w] = "idle" /\ Claimable(j)
    /\ status' = [status EXCEPT ![j] = "running"]
    /\ leaseOwner' = [leaseOwner EXCEPT ![j] = OwnerOf[w]]
    /\ leaseLive' = [leaseLive EXCEPT ![j] = TRUE]
    /\ held' = [held EXCEPT ![w] = j]
    /\ pc' = [pc EXCEPT ![w] = "claimed"]
    /\ UNCHANGED <<acked, srcStatus, todo, cur, boot, faults>>

LEMMA ClaimPicks ==
    ASSUME NEW w \in Workers, Claim(w) PROVE \E j \in Jobs : Claims(w, j)
  BY DEF Claim, Claims

LEMMA TypeInit == Init => TypeOK
  BY FaultsAssumption, JobsAssumption, TargetsAssumption, OwnersAssumption
  DEF Init, TypeOK, Busy, JobStatus

LEMMA TypeStep == TypeOK /\ [Next]_vars => TypeOK'
<1> SUFFICES ASSUME TypeOK, [Next]_vars PROVE TypeOK'
  OBVIOUS
<1> USE JobsAssumption, TargetsAssumption, OwnersAssumption
<1> USE DEF TypeOK, Busy, rows, workers
<1>1. ASSUME NEW j \in Jobs, NEW T \in (SUBSET Targets) \ {{}}, Create(j, T)
      PROVE TypeOK'
  BY <1>1 DEF Create, Insert, JobStatus, SourceStatus
<1>2. ASSUME NEW j \in Jobs, NEW T \in (SUBSET Targets) \ {{}}, NEW w \in Workers,
             EnqueueBootstrap(w, j, T)
      PROVE TypeOK'
  <2>1. CASE Insert(j, T)
    BY <1>2, <2>1 DEF EnqueueBootstrap, Insert, JobStatus, SourceStatus
  <2>2. CASE RequeueFailed(j)
    BY <1>2, <2>2 DEF EnqueueBootstrap, RequeueFailed, JobStatus, SourceStatus
  <2> QED BY <1>2, <2>1, <2>2 DEF EnqueueBootstrap
<1>3. ASSUME NEW j \in Jobs, Acknowledge(j) PROVE TypeOK'
  BY <1>3 DEF Acknowledge
<1>4. ASSUME NEW j \in Jobs, LeaseExpires(j) PROVE TypeOK'
  BY <1>4 DEF LeaseExpires
<1>5. ASSUME NEW j \in Jobs, LeaseLapses(j) PROVE TypeOK'
  BY <1>5, FaultsAssumption DEF LeaseLapses, Fault
<1>6. ASSUME NEW w \in Workers, Claim(w) PROVE TypeOK'
  BY <1>6 DEF Claim, JobStatus
<1>7. ASSUME NEW w \in Workers, LoadJob(w) PROVE TypeOK'
  BY <1>7 DEF LoadJob
<1>8. ASSUME NEW w \in Workers, NEW t \in Targets, StartSource(w, t) PROVE TypeOK'
  BY <1>8 DEF StartSource, SourceStatus
<1>9. ASSUME NEW w \in Workers, NEW r \in Finished, FinishSource(w, r) PROVE TypeOK'
  BY <1>9 DEF FinishSource, SourceStatus
<1>10. ASSUME NEW w \in Workers, FinishJob(w) PROVE TypeOK'
  <2>1. held[w] \in Jobs
    BY <1>10 DEF FinishJob
  <2>2. status' \in [Jobs -> JobStatus \union {"absent"}]
    BY <1>10, <2>1, AggregateTerminal DEF FinishJob, JobStatus
  <2>3. /\ leaseOwner' \in [Jobs -> Owners \union {NoOwner}]
        /\ leaseLive' \in [Jobs -> BOOLEAN]
        /\ UNCHANGED <<acked, srcStatus, boot, faults>>
        /\ Drop(w, "idle")
    BY <1>10, <2>1 DEF FinishJob
  <2> QED BY <2>2, <2>3 DEF Drop
<1>11. ASSUME NEW w \in Workers, RenewLease(w) PROVE TypeOK'
  BY <1>11 DEF RenewLease
<1>12. ASSUME NEW w \in Workers, StoreError(w) PROVE TypeOK'
  BY <1>12, FaultsAssumption DEF StoreError, Drop, Fault
<1>13. ASSUME NEW w \in Workers, Crash(w) \/ Shutdown(w) PROVE TypeOK'
  <2>1. CASE Crash(w)
    BY <2>1, FaultsAssumption DEF Crash, Drop, Fault
  <2>2. CASE Shutdown(w)
    BY <2>2, FaultsAssumption DEF Shutdown, Drop, Fault
  <2> QED BY <1>13, <2>1, <2>2
<1>14. ASSUME NEW w \in Workers, Restart(w) PROVE TypeOK'
  BY <1>14 DEF Restart
<1>15. CASE UNCHANGED vars
  BY <1>15 DEF vars
<1>16. ASSUME NEW w \in Workers, CallHangs(w) PROVE TypeOK'
  BY <1>16, FaultsAssumption DEF CallHangs, Fault
<1>17. ASSUME NEW w \in Workers, ClaimHangs(w) PROVE TypeOK'
  BY <1>17, FaultsAssumption DEF ClaimHangs, Drop, Fault
<1> QED
  BY <1>1, <1>2, <1>3, <1>4, <1>5, <1>6, <1>7, <1>8, <1>9, <1>10, <1>11,
     <1>12, <1>13, <1>14, <1>15, <1>16, <1>17 DEF Next, Enqueue, WorkerStep

\* The columns and the workers' variables keep their types (store.go,
\* worker.go), and a worker remembers a job exactly while it executes one.
THEOREM TypeCorrect == Spec => []TypeOK
<1> QED BY TypeInit, TypeStep, PTL DEF Spec

------------------------------------------------------------------------------
(* Leases and acknowledgements: true whatever the environment does, also   *)
(* when two replicas execute one job.                                      *)

LeaseInv ==
    /\ LeasedIffRunning
    /\ \A j \in Jobs : acked[j] => TriggerOf[j] = "manual"
    /\ AckedIsTerminal

LEMMA LeaseInit == Init => LeaseInv
  BY DEF Init, LeaseInv, LeasedIffRunning, AckedIsTerminal

LEMMA LeaseStep == TypeOK /\ LeaseInv /\ [Next]_vars => LeaseInv'
<1> SUFFICES ASSUME TypeOK, LeaseInv, [Next]_vars PROVE LeaseInv'
  OBVIOUS
<1> USE DEF LeaseInv, LeasedIffRunning, AckedIsTerminal, TypeOK, Terminal, rows, workers
<1>1. ASSUME NEW j \in Jobs, NEW T \in (SUBSET Targets) \ {{}}, Create(j, T)
      PROVE LeaseInv'
  BY <1>1 DEF Create, Insert
<1>2. ASSUME NEW j \in Jobs, NEW T \in (SUBSET Targets) \ {{}}, NEW w \in Workers,
             EnqueueBootstrap(w, j, T)
      PROVE LeaseInv'
  <2>1. CASE Insert(j, T)
    BY <1>2, <2>1 DEF EnqueueBootstrap, Insert
  <2>2. CASE RequeueFailed(j)
    BY <1>2, <2>2 DEF EnqueueBootstrap, RequeueFailed
  <2> QED BY <1>2, <2>1, <2>2 DEF EnqueueBootstrap
<1>3. ASSUME NEW j \in Jobs, Acknowledge(j) PROVE LeaseInv'
  BY <1>3 DEF Acknowledge
<1>4. ASSUME NEW j \in Jobs, LeaseExpires(j) \/ LeaseLapses(j) PROVE LeaseInv'
  BY <1>4 DEF LeaseExpires, LeaseLapses
<1>5. ASSUME NEW w \in Workers, Claim(w) PROVE LeaseInv'
  <2>1. PICK j \in Jobs : Claims(w, j)
    BY <1>5, ClaimPicks
  <2>2. status[j] \in {"queued", "running"}
    BY <2>1 DEF Claims, Claimable
  <2>3. OwnerOf[w] # NoOwner
    BY OwnersAssumption
  <2>4. \A k \in Jobs : k # j => /\ status'[k] = status[k]
                                 /\ leaseOwner'[k] = leaseOwner[k]
                                 /\ leaseLive'[k] = leaseLive[k]
    BY <2>1 DEF Claims
  <2>5. /\ status'[j] = "running" /\ leaseOwner'[j] # NoOwner
        /\ acked' = acked
    BY <2>1, <2>3 DEF Claims
  <2> QED BY <2>2, <2>4, <2>5
<1>6. ASSUME NEW w \in Workers, FinishJob(w) PROVE LeaseInv'
  <2>1. held[w] \in Jobs
    BY <1>6 DEF FinishJob, Busy
  <2>2. PICK outcome \in Terminal : status' = [status EXCEPT ![held[w]] = outcome]
    BY <1>6, AggregateTerminal DEF FinishJob
  <2>3. /\ leaseOwner' = [leaseOwner EXCEPT ![held[w]] = NoOwner]
        /\ leaseLive' = [leaseLive EXCEPT ![held[w]] = FALSE]
        /\ UNCHANGED acked
    BY <1>6 DEF FinishJob
  <2> QED BY <2>1, <2>2, <2>3
<1>7. ASSUME NEW w \in Workers, RenewLease(w) PROVE LeaseInv'
  <2>1. held[w] \in Jobs
    BY <1>7 DEF RenewLease, Busy
  <2> QED BY <1>7, <2>1 DEF RenewLease
<1>8. CASE UNCHANGED <<status, leaseOwner, leaseLive, acked>>
  BY <1>8
<1> QED
  BY <1>1, <1>2, <1>3, <1>4, <1>5, <1>6, <1>7, <1>8
  DEF Next, Enqueue, WorkerStep, vars, LoadJob, StartSource, FinishSource,
      StoreError, CallHangs, ClaimHangs, Crash, Shutdown, Restart

\* No row keeps a lease after FinishJob or RequeueFailed, and no running row is
\* without one, whichever worker wrote it last.
THEOREM LeaseCorrect == Spec => []LeasedIffRunning
<1>1. LeaseInv => LeasedIffRunning
  BY DEF LeaseInv
<1> QED BY <1>1, TypeInit, TypeStep, LeaseInit, LeaseStep, PTL DEF Spec

\* A job whose notification was acknowledged never re-enters the queue, even
\* if a worker that lost its lease writes it again.
THEOREM AckedCorrect == Spec => []AckedIsTerminal
<1>1. LeaseInv => AckedIsTerminal
  BY DEF LeaseInv
<1> QED BY <1>1, TypeInit, TypeStep, LeaseInit, LeaseStep, PTL DEF Spec

------------------------------------------------------------------------------
(* One replica at a time, as long as nothing has failed.                   *)

\* Every running job is held under a live lease, so that nothing may be taken
\* over and nothing queued may be begun.
SerialInv == faults = 0 =>
    /\ \A j \in Jobs : status[j] = "running" => leaseLive[j] /\ \E w \in Workers : Holds(w, j)
    /\ \A w \in Workers : Busy(w) => status[held[w]] = "running"
    /\ \A v, w \in Workers : Busy(v) /\ Busy(w) => v = w

LEMMA SerialInit == Init => SerialInv
  BY DEF Init, SerialInv, Busy

\* A row that is not running, before and after, is nobody's.
LEMMA IdleRowKeeps ==
    ASSUME TypeOK, SerialInv, faults = 0, NEW j \in Jobs,
           status[j] # "running", status'[j] # "running",
           \A k \in Jobs \ {j} : status'[k] = status[k] /\ leaseLive'[k] = leaseLive[k],
           UNCHANGED <<pc, held>>
    PROVE  SerialInv'
<1>1. \A w \in Workers : Busy(w) => held[w] \in Jobs \ {j}
  BY DEF SerialInv, TypeOK
<1> QED BY <1>1 DEF SerialInv, Busy, Holds

LEMMA SerialStep == TypeOK /\ SerialInv /\ [Next]_vars => SerialInv'
<1> SUFFICES ASSUME TypeOK, SerialInv, [Next]_vars, faults' = 0 PROVE SerialInv'
  BY DEF SerialInv
<1> USE DEF rows, workers
<1>1. faults = 0 /\ \A kind : ~Fault(kind)
  <2>1. faults \in Nat
    BY FaultsAssumption DEF TypeOK
  <2>2. \A kind : ~Fault(kind)
    BY <2>1 DEF Fault
  <2>3. faults' = faults
    BY <2>2 DEF Next, vars, Enqueue, Create, EnqueueBootstrap, Acknowledge, LeaseExpires, LeaseLapses,
                WorkerStep, Claim, LoadJob, StartSource, FinishSource, FinishJob, RenewLease,
                StoreError, CallHangs, ClaimHangs, Crash, Shutdown, Restart
  <2> QED BY <2>2, <2>3
<1>2. /\ \A j \in Jobs : status[j] = "running" => leaseLive[j] /\ \E w \in Workers : Holds(w, j)
      /\ \A w \in Workers : Busy(w) => status[held[w]] = "running" /\ held[w] \in Jobs
      /\ \A v, w \in Workers : Busy(v) /\ Busy(w) => v = w
  BY <1>1 DEF SerialInv, TypeOK
<1>3. ASSUME NEW j \in Jobs, NEW T \in (SUBSET Targets) \ {{}}, Insert(j, T), UNCHANGED <<pc, held>>
      PROVE  SerialInv'
  BY <1>1, <1>3, IdleRowKeeps DEF Insert, TypeOK
<1>4. ASSUME NEW j \in Jobs, RequeueFailed(j), UNCHANGED <<pc, held>> PROVE SerialInv'
  BY <1>1, <1>4, IdleRowKeeps DEF RequeueFailed, TypeOK
<1>5. CASE Enqueue
  BY <1>3, <1>4, <1>5 DEF Enqueue, Create, EnqueueBootstrap
<1>6. ASSUME NEW j \in Jobs, LeaseExpires(j) PROVE SerialInv'
  BY <1>2, <1>6 DEF LeaseExpires, Active
<1>7. ASSUME NEW w \in Workers, Claim(w) PROVE SerialInv'
  <2>1. PICK j \in Jobs : Claims(w, j)
    BY <1>7, ClaimPicks
  <2>2. \A k \in Jobs : status[k] # "running"
    BY <1>2, <2>1 DEF Claims, Claimable, Active
  <2>3. \A v \in Workers : ~Busy(v)
    BY <1>2, <2>2
  <2>4. /\ \A v \in Workers : Busy(v)' <=> v = w
        /\ held'[w] = j /\ status'[j] = "running" /\ leaseLive'[j]
        /\ \A k \in Jobs : k # j => status'[k] # "running"
    BY <2>1, <2>2, <2>3 DEF Claims, Busy, TypeOK
  <2> QED BY <2>4 DEF SerialInv, Holds
<1>8. ASSUME NEW w \in Workers,
             \/ LoadJob(w) \/ (\E t \in Targets : StartSource(w, t))
             \/ (\E r \in Finished : FinishSource(w, r)) \/ Restart(w)
      PROVE  SerialInv'
  <2>1. UNCHANGED <<status, leaseLive, held>> /\ \A v \in Workers : Busy(v)' <=> Busy(v)
    BY <1>8 DEF LoadJob, StartSource, FinishSource, Restart, Busy, TypeOK
  <2> QED BY <1>2, <2>1 DEF SerialInv, Holds
<1>9. ASSUME NEW w \in Workers, FinishJob(w) PROVE SerialInv'
  <2>1. /\ Busy(w) /\ held[w] \in Jobs
        /\ pc' = [pc EXCEPT ![w] = "idle"]
        /\ status' = [status EXCEPT ![held[w]] = Aggregate(srcStatus[held[w]])]
    BY <1>2, <1>9 DEF FinishJob, Drop, Busy
  <2>2. status'[held[w]] # "running"
    BY <2>1, AggregateTerminal DEF Terminal, TypeOK
  <2>3. \A k \in Jobs : status[k] = "running" => k = held[w]
    BY <1>2, <2>1 DEF Holds
  <2>4. \A v \in Workers : ~Busy(v)'
    BY <1>2, <2>1 DEF Busy, TypeOK
  <2> QED BY <2>1, <2>2, <2>3, <2>4 DEF SerialInv, TypeOK
<1>10. ASSUME NEW w \in Workers, RenewLease(w) PROVE SerialInv'
  BY <1>2, <1>10 DEF RenewLease, SerialInv, Holds, Busy, TypeOK
<1>11. ASSUME NEW j \in Jobs, Acknowledge(j) PROVE SerialInv'
  BY <1>2, <1>11 DEF Acknowledge, SerialInv, Holds, Busy
<1>12. CASE UNCHANGED vars
  BY <1>2, <1>12 DEF vars, SerialInv, Holds, Busy
<1> QED BY <1>1, <1>5, <1>6, <1>7, <1>8, <1>9, <1>10, <1>11, <1>12
        DEF Next, WorkerStep, LeaseLapses, StoreError, CallHangs, ClaimHangs, Crash, Shutdown

\* Whatever is queued, no two replicas are busy at one time before something
\* has failed (Claim): two runs of one channel overlap only after a crash, a
\* shutdown, a failed statement or a lease that lapsed.
THEOREM AloneCorrect == Spec => []AloneUntilFault
<1>1. SerialInv => AloneUntilFault
  BY DEF SerialInv, AloneUntilFault
<1> QED BY <1>1, TypeInit, TypeStep, SerialInit, SerialStep, PTL DEF Spec

------------------------------------------------------------------------------
(* Execution of jobs, as long as no lease lapses under its worker.         *)

\* The sources a worker has still to run are exactly those that stand between
\* its job and a terminal status.
SnapshotInv ==
    /\ \A w \in Workers : \A t \in todo[w] :
          srcStatus[held[w]][t] \notin Done \union {"absent"}
    /\ \A w \in Workers : pc[w] = "source" =>
          srcStatus[held[w]][cur[w]] = "running" /\ cur[w] \notin todo[w]
    /\ \A w \in Workers, t \in Targets :
          pc[w] \in {"next", "source"} /\ srcStatus[held[w]][t] \in {"queued", "running"}
          => t \in todo[w] \/ t = cur[w]

\* The strengthening that makes both properties inductive.
ExecInv == OneWorkerPerJob /\ SnapshotInv /\ TerminalMatchesSources

LEMMA ExecInit == Init => ExecInv
  BY DEF Init, ExecInv, OneWorkerPerJob, SnapshotInv, TerminalMatchesSources,
         Busy, Terminal

\* Steps on a job that no worker holds disturb no worker.
LEMMA UnheldStep ==
    ASSUME TypeOK, ExecInv, NEW j \in Jobs, \A w \in Workers : ~Holds(w, j),
           UNCHANGED <<pc, held, todo, cur>>,
           \A k \in Jobs : k # j => /\ status'[k] = status[k]
                                   /\ leaseOwner'[k] = leaseOwner[k]
                                   /\ leaseLive'[k] = leaseLive[k]
                                   /\ srcStatus'[k] = srcStatus[k]
    PROVE  OneWorkerPerJob' /\ SnapshotInv'
<1>1. \A w \in Workers : Busy(w) => held[w] \in Jobs /\ held[w] # j
  BY DEF TypeOK, Holds
<1>2. OneWorkerPerJob'
  BY <1>1 DEF ExecInv, OneWorkerPerJob, Holds, Busy
<1>3. \A w \in Workers : todo[w] # {} \/ pc[w] \in {"next", "source"} => Busy(w)
  BY DEF TypeOK, Busy
<1>4. SnapshotInv'
  BY <1>1, <1>3 DEF ExecInv, SnapshotInv
<1> QED BY <1>2, <1>4

\* A worker that lets go of its job disturbs no other worker.
LEMMA DropStep ==
    ASSUME TypeOK, ExecInv, NEW w \in Workers, NEW to \in {"idle", "deaf", "down"},
           Drop(w, to),
           \A v \in Workers \ {w} : Busy(v) =>
               /\ status'[held[v]] = status[held[v]]
               /\ leaseOwner'[held[v]] = leaseOwner[held[v]]
               /\ leaseLive'[held[v]] = leaseLive[held[v]]
               /\ srcStatus'[held[v]] = srcStatus[held[v]]
    PROVE  OneWorkerPerJob' /\ SnapshotInv'
<1>1. \A v \in Workers \ {w} : /\ pc'[v] = pc[v] /\ held'[v] = held[v]
                               /\ todo'[v] = todo[v] /\ cur'[v] = cur[v]
  BY DEF Drop, TypeOK
<1>2. pc'[w] = to /\ todo'[w] = {}
  BY DEF Drop, TypeOK
<1>3. OneWorkerPerJob'
  BY <1>1, <1>2 DEF ExecInv, OneWorkerPerJob, Holds, Busy
<1>4. \A v \in Workers : todo[v] # {} \/ pc[v] \in {"next", "source"} => Busy(v)
  BY DEF TypeOK, Busy
<1>5. SnapshotInv'
  BY <1>1, <1>2, <1>4 DEF ExecInv, SnapshotInv
<1> QED BY <1>3, <1>5

\* The step of a worker on one source of its job disturbs no other worker and
\* leaves its own snapshot in order.
LEMMA WorkerRuns ==
    ASSUME TypeOK, ExecInv, NEW w \in Workers, Busy(w), held[w] \in Jobs,
           NEW t \in Targets, NEW s,
           UNCHANGED <<status, leaseOwner, leaseLive, held>>,
           \A v \in Workers \ {w} : /\ pc'[v] = pc[v] /\ todo'[v] = todo[v]
                                     /\ cur'[v] = cur[v],
           srcStatus' = [srcStatus EXCEPT ![held[w]][t] = s],
           pc'[w] \in {"next", "source"},
           \A u \in todo'[w] : u \in todo[w] /\ u # t,
           pc'[w] = "source" => cur'[w] = t /\ s = "running",
           \A u \in Targets : u # t /\ (u \in todo[w] \/ u = cur[w]) => u \in todo'[w],
           s \in {"queued", "running"} => cur'[w] = t,
           pc[w] \in {"next", "source"}
    PROVE  ExecInv'
<1>1. \A v \in Workers \ {w} : Busy(v) => held[v] \in Jobs /\ held[v] # held[w]
  BY DEF ExecInv, OneWorkerPerJob, Holds, TypeOK
<1>2. /\ srcStatus'[held[w]][t] = s
      /\ \A u \in Targets : u # t => srcStatus'[held[w]][u] = srcStatus[held[w]][u]
      /\ \A k \in Jobs : k # held[w] => srcStatus'[k] = srcStatus[k]
  BY DEF TypeOK
<1>3. OneWorkerPerJob'
  BY DEF ExecInv, OneWorkerPerJob, Holds, Busy
<1>4. \A v \in Workers : todo[v] # {} \/ pc[v] \in {"next", "source"} => Busy(v)
  BY DEF TypeOK, Busy
<1>5. todo[w] \subseteq Targets
  BY DEF TypeOK
<1>6. SnapshotInv'
  BY <1>1, <1>2, <1>4, <1>5 DEF ExecInv, SnapshotInv
<1>7. TerminalMatchesSources'
  BY <1>2 DEF ExecInv, OneWorkerPerJob, TerminalMatchesSources, Terminal
<1> QED BY <1>3, <1>6, <1>7 DEF ExecInv

LEMMA ExecStep ==
    ASSUME "lapse" \notin FaultKinds, TypeOK, ExecInv, [Next]_vars
    PROVE  ExecInv'
<1> USE DEF rows, workers
<1>1. ASSUME NEW j \in Jobs, NEW T \in (SUBSET Targets) \ {{}}, Insert(j, T),
             UNCHANGED <<pc, held, todo, cur>>
      PROVE ExecInv'
  <2>1. \A w \in Workers : ~Holds(w, j)
    BY <1>1 DEF ExecInv, OneWorkerPerJob, Insert, Holds
  <2>2. OneWorkerPerJob' /\ SnapshotInv'
    BY <1>1, <2>1, UnheldStep DEF Insert, TypeOK
  <2>3. TerminalMatchesSources'
    BY <1>1 DEF ExecInv, TerminalMatchesSources, Insert, TypeOK, Terminal
  <2> QED BY <2>2, <2>3 DEF ExecInv
<1>2. ASSUME NEW j \in Jobs, RequeueFailed(j), UNCHANGED <<pc, held, todo, cur>>
      PROVE ExecInv'
  <2>1. \A w \in Workers : ~Holds(w, j)
    BY <1>2 DEF ExecInv, OneWorkerPerJob, RequeueFailed, Holds
  <2>2. OneWorkerPerJob' /\ SnapshotInv'
    BY <1>2, <2>1, UnheldStep DEF RequeueFailed, TypeOK
  <2>3. TerminalMatchesSources'
    BY <1>2 DEF ExecInv, TerminalMatchesSources, RequeueFailed, TypeOK, Terminal
  <2> QED BY <2>2, <2>3 DEF ExecInv
<1>3. ASSUME NEW j \in Jobs, NEW T \in (SUBSET Targets) \ {{}}, Create(j, T)
      PROVE ExecInv'
  BY <1>1, <1>3 DEF Create
<1>4. ASSUME NEW j \in Jobs, NEW T \in (SUBSET Targets) \ {{}}, NEW w \in Workers,
             EnqueueBootstrap(w, j, T)
      PROVE ExecInv'
  BY <1>1, <1>2, <1>4 DEF EnqueueBootstrap
<1>5. ASSUME NEW j \in Jobs, LeaseExpires(j) PROVE ExecInv'
  <2>1. OneWorkerPerJob' /\ SnapshotInv'
    BY <1>5, UnheldStep DEF LeaseExpires, TypeOK
  <2>2. TerminalMatchesSources'
    BY <1>5 DEF ExecInv, TerminalMatchesSources, LeaseExpires
  <2> QED BY <2>1, <2>2 DEF ExecInv
<1>6. ASSUME NEW w \in Workers, Claim(w) PROVE ExecInv'
  <2>1. PICK j \in Jobs : Claims(w, j)
    BY <1>6, ClaimPicks
  <2>2. \A v \in Workers : ~Holds(v, j)
    BY <2>1 DEF Claims, Claimable, ExecInv, OneWorkerPerJob, Holds
  <2>3. \A v \in Workers \ {w} : pc'[v] = pc[v] /\ held'[v] = held[v]
    BY <2>1 DEF Claims, TypeOK
  <2>4. pc'[w] = "claimed" /\ held'[w] = j /\ todo' = todo /\ cur' = cur
    BY <2>1 DEF Claims, TypeOK
  <2>5. todo[w] = {}
    BY <2>1 DEF Claims, TypeOK
  <2>6. /\ status'[j] = "running" /\ leaseOwner'[j] = OwnerOf[w] /\ leaseLive'[j]
        /\ srcStatus' = srcStatus
        /\ \A k \in Jobs : k # j => /\ status'[k] = status[k]
                                    /\ leaseOwner'[k] = leaseOwner[k]
                                    /\ leaseLive'[k] = leaseLive[k]
    BY <2>1 DEF Claims, TypeOK
  <2>7. \A v \in Workers \ {w} : Busy(v) => held[v] \in Jobs /\ held[v] # j
    BY <2>2 DEF Holds, TypeOK
  <2>8. OneWorkerPerJob'
    BY <2>3, <2>4, <2>6, <2>7 DEF ExecInv, OneWorkerPerJob, Holds, Busy
  <2>9. SnapshotInv'
    BY <2>3, <2>4, <2>5, <2>6 DEF ExecInv, SnapshotInv
  <2>10. TerminalMatchesSources'
    BY <2>6 DEF ExecInv, TerminalMatchesSources, Terminal
  <2> QED BY <2>8, <2>9, <2>10 DEF ExecInv
<1>7. ASSUME NEW w \in Workers, LoadJob(w) PROVE ExecInv'
  <2>1. UNCHANGED <<status, leaseOwner, leaseLive, srcStatus, held, cur>>
    BY <1>7 DEF LoadJob
  <2>2. \A v \in Workers \ {w} : pc'[v] = pc[v] /\ todo'[v] = todo[v]
    BY <1>7 DEF LoadJob, TypeOK
  <2>3. /\ pc[w] = "claimed" /\ pc'[w] = "next"
        /\ todo'[w] = {t \in Targets :
              srcStatus[held[w]][t] \notin Done \union {"absent"}}
    BY <1>7 DEF LoadJob, TypeOK
  <2>4. OneWorkerPerJob'
    BY <2>1, <2>2, <2>3 DEF ExecInv, OneWorkerPerJob, Holds, Busy
  <2>5. SnapshotInv'
    BY <2>1, <2>2, <2>3 DEF ExecInv, SnapshotInv, Done
  <2>6. TerminalMatchesSources'
    BY <2>1 DEF ExecInv, TerminalMatchesSources
  <2> QED BY <2>4, <2>5, <2>6 DEF ExecInv
<1>8. ASSUME NEW w \in Workers, NEW t \in Targets, StartSource(w, t) PROVE ExecInv'
  <2>1. /\ pc[w] = "next" /\ pc'[w] = "source" /\ t \in todo[w]
        /\ todo'[w] = todo[w] \ {t} /\ cur'[w] = t /\ Busy(w) /\ held[w] \in Jobs
        /\ UNCHANGED <<status, leaseOwner, leaseLive, held>>
    BY <1>8 DEF StartSource, TypeOK, Busy
  <2>2. \A v \in Workers \ {w} : pc'[v] = pc[v] /\ todo'[v] = todo[v] /\ cur'[v] = cur[v]
    BY <1>8 DEF StartSource, TypeOK
  <2>3. srcStatus' = [srcStatus EXCEPT ![held[w]][t] = "running"]
    BY <1>8 DEF StartSource
  <2>4. cur[w] = NoTarget
    BY <2>1 DEF TypeOK
  <2>5. \A u \in Targets : u # t /\ (u \in todo[w] \/ u = cur[w]) => u \in todo'[w]
    BY <2>1, <2>4, TargetsAssumption
  <2> QED BY <2>1, <2>2, <2>3, <2>5, WorkerRuns
<1>9. ASSUME NEW w \in Workers, NEW r \in Finished, FinishSource(w, r) PROVE ExecInv'
  <2>1. /\ pc[w] = "source" /\ pc'[w] = "next" /\ cur[w] \in Targets
        /\ todo'[w] = todo[w] /\ cur'[w] = NoTarget /\ Busy(w) /\ held[w] \in Jobs
        /\ UNCHANGED <<status, leaseOwner, leaseLive, held>>
    BY <1>9 DEF FinishSource, TypeOK, Busy
  <2>2. \A v \in Workers \ {w} : pc'[v] = pc[v] /\ todo'[v] = todo[v] /\ cur'[v] = cur[v]
    BY <1>9 DEF FinishSource, TypeOK
  <2>3. srcStatus' = [srcStatus EXCEPT ![held[w]][cur[w]] = r]
    BY <1>9 DEF FinishSource
  <2>4. cur[w] \notin todo[w] /\ r \notin {"queued", "running"}
    BY <2>1 DEF ExecInv, SnapshotInv, Finished, Done
  <2>5. \A u \in Targets : u # cur[w] /\ (u \in todo[w] \/ u = cur[w]) => u \in todo'[w]
    BY <2>1
  <2> QED BY <2>1, <2>2, <2>3, <2>4, <2>5, WorkerRuns
<1>10. ASSUME NEW w \in Workers, FinishJob(w) PROVE ExecInv'
  <2>1. /\ Busy(w) /\ held[w] \in Jobs /\ pc[w] = "next" /\ todo[w] = {}
        /\ cur[w] = NoTarget
    BY <1>10 DEF FinishJob, Busy, TypeOK
  <2>2. \A v \in Workers \ {w} : Busy(v) => held[v] \in Jobs /\ held[v] # held[w]
    BY <2>1 DEF ExecInv, OneWorkerPerJob, Holds, TypeOK
  <2>3. /\ status' = [status EXCEPT ![held[w]] = Aggregate(srcStatus[held[w]])]
        /\ leaseOwner' = [leaseOwner EXCEPT ![held[w]] = NoOwner]
        /\ leaseLive' = [leaseLive EXCEPT ![held[w]] = FALSE]
        /\ srcStatus' = srcStatus /\ Drop(w, "idle")
    BY <1>10 DEF FinishJob
  <2>4. \A v \in Workers \ {w} : Busy(v) =>
            /\ status'[held[v]] = status[held[v]]
            /\ leaseOwner'[held[v]] = leaseOwner[held[v]]
            /\ leaseLive'[held[v]] = leaseLive[held[v]]
            /\ srcStatus'[held[v]] = srcStatus[held[v]]
    BY <2>2, <2>3 DEF TypeOK
  <2>5. OneWorkerPerJob' /\ SnapshotInv'
    BY <2>3, <2>4, DropStep
  <2>6. \A t \in Targets : srcStatus[held[w]][t] \in Finished \union {"absent"}
    BY <2>1, TargetsAssumption DEF ExecInv, SnapshotInv, TypeOK, SourceStatus
  <2>7. /\ status'[held[w]] = Aggregate(srcStatus[held[w]])
        /\ \A k \in Jobs : k # held[w] => status'[k] = status[k]
    BY <2>1, <2>3 DEF TypeOK
  <2>8. TerminalMatchesSources'
    BY <2>3, <2>6, <2>7 DEF ExecInv, TerminalMatchesSources
  <2> QED BY <2>5, <2>8 DEF ExecInv
<1>11. ASSUME NEW w \in Workers, StoreError(w) PROVE ExecInv'
  <2>1. OneWorkerPerJob' /\ SnapshotInv'
    BY <1>11, DropStep DEF StoreError
  <2> QED BY <1>11, <2>1 DEF StoreError, ExecInv, TerminalMatchesSources
<1>12. ASSUME NEW w \in Workers, Crash(w) \/ Shutdown(w) PROVE ExecInv'
  <2>1. OneWorkerPerJob' /\ SnapshotInv'
    BY <1>12, DropStep DEF Crash, Shutdown
  <2> QED BY <1>12, <2>1 DEF Crash, Shutdown, ExecInv, TerminalMatchesSources
<1>13. ASSUME NEW w \in Workers, Restart(w) PROVE ExecInv'
  <2>1. /\ ~Busy(w) /\ pc[w] # "source" /\ todo[w] = {}
        /\ pc'[w] = "idle" /\ \A v \in Workers \ {w} : pc'[v] = pc[v]
        /\ UNCHANGED <<rows, held, todo, cur>>
    BY <1>13 DEF Restart, TypeOK, Busy
  <2> QED BY <2>1 DEF ExecInv, OneWorkerPerJob, SnapshotInv, TerminalMatchesSources,
                      Holds, Busy
<1>14. ASSUME NEW w \in Workers, RenewLease(w) PROVE ExecInv'
  <2>1. Busy(w) /\ held[w] \in Jobs
    BY <1>14 DEF RenewLease, Busy, TypeOK
  <2>2. leaseLive' = leaseLive
    BY <1>14, <2>1 DEF RenewLease, ExecInv, OneWorkerPerJob, TypeOK
  <2> QED BY <1>14, <2>2 DEF RenewLease, ExecInv, OneWorkerPerJob, SnapshotInv,
                             TerminalMatchesSources, Holds, Busy
<1>15. ASSUME NEW j \in Jobs, LeaseLapses(j) PROVE ExecInv'
  BY <1>15 DEF LeaseLapses, Fault
<1>16. CASE UNCHANGED <<status, leaseOwner, leaseLive, srcStatus, pc, held, todo, cur>>
  BY <1>16 DEF ExecInv, OneWorkerPerJob, SnapshotInv, TerminalMatchesSources,
               Holds, Busy
<1>17. ASSUME NEW j \in Jobs, Acknowledge(j) PROVE ExecInv'
  BY <1>16, <1>17 DEF Acknowledge
<1>18. ASSUME NEW w \in Workers, ClaimHangs(w) PROVE ExecInv'
  <2>1. OneWorkerPerJob' /\ SnapshotInv'
    BY <1>18, DropStep DEF ClaimHangs
  <2> QED BY <1>18, <2>1 DEF ClaimHangs, ExecInv, TerminalMatchesSources
<1>19. ASSUME NEW w \in Workers, CallHangs(w) PROVE ExecInv'
  <2>1. /\ pc[w] \in {"next", "source"} /\ pc'[w] = "hung" /\ todo'[w] = {}
        /\ \A v \in Workers \ {w} : /\ pc'[v] = pc[v] /\ todo'[v] = todo[v]
                                    /\ cur'[v] = cur[v]
        /\ UNCHANGED <<rows, held>>
    BY <1>19 DEF CallHangs, TypeOK
  <2>2. \A v \in Workers : Busy(v)' <=> Busy(v)
    BY <2>1 DEF Busy
  <2>3. OneWorkerPerJob'
    BY <2>1, <2>2 DEF ExecInv, OneWorkerPerJob, Holds
  <2>4. SnapshotInv'
    BY <2>1 DEF ExecInv, SnapshotInv
  <2> QED BY <2>1, <2>3, <2>4 DEF ExecInv, TerminalMatchesSources
<1> QED
  BY <1>3, <1>4, <1>5, <1>6, <1>7, <1>8, <1>9, <1>10, <1>11, <1>12, <1>13, <1>14,
     <1>15, <1>16, <1>17, <1>18, <1>19
  DEF Next, Enqueue, WorkerStep, vars

\* While renewals arrive in time no second replica executes a job, and the row
\* names the one that does.
THEOREM OneWorkerCorrect ==
    ASSUME "lapse" \notin FaultKinds PROVE Spec => []OneWorkerPerJob
<1>1. ExecInv => OneWorkerPerJob
  BY DEF ExecInv
<1> QED BY <1>1, TypeInit, TypeStep, ExecInit, ExecStep, PTL DEF Spec

\* While renewals arrive in time a finished job has only finished sources and
\* the status they add up to, however often its workers died.
THEOREM TerminalCorrect ==
    ASSUME "lapse" \notin FaultKinds PROVE Spec => []TerminalMatchesSources
<1>1. ExecInv => TerminalMatchesSources
  BY DEF ExecInv
<1> QED BY <1>1, TypeInit, TypeStep, ExecInit, ExecStep, PTL DEF Spec

\* While renewals arrive in time no step rewrites the outcome of a job, but for
\* the requeueing of a failed bootstrap.
THEOREM OutcomeIsFinalCorrect ==
    ASSUME "lapse" \notin FaultKinds PROVE Spec => OutcomeIsFinal
<1> DEFINE Final(j) == status[j] \in Terminal =>
              \/ status'[j] = status[j]
              \/ TriggerOf[j] = "bootstrap" /\ status[j] = "failed" /\ status'[j] = "queued"
<1>1. ASSUME TypeOK, ExecInv, Next, NEW j \in Jobs, status[j] \in Terminal
      PROVE  Final(j)
  <2> USE DEF rows, workers
  <2>1. ASSUME NEW k \in Jobs, NEW T \in (SUBSET Targets) \ {{}}, Insert(k, T)
        PROVE Final(j)
    BY <1>1, <2>1 DEF Insert, TypeOK, Terminal
  <2>2. ASSUME NEW k \in Jobs, NEW T \in (SUBSET Targets) \ {{}}, NEW w \in Workers,
               EnqueueBootstrap(w, k, T)
        PROVE Final(j)
    BY <1>1, <2>1, <2>2 DEF EnqueueBootstrap, RequeueFailed, TypeOK
  <2>3. ASSUME NEW w \in Workers, Claim(w) PROVE Final(j)
    <3>1. PICK k \in Jobs : Claims(w, k)
      BY <2>3, ClaimPicks
    <3>2. k # j
      BY <1>1, <3>1 DEF Claims, Claimable, Terminal
    <3> QED BY <3>1, <3>2 DEF Claims, TypeOK
  <2>4. ASSUME NEW w \in Workers, FinishJob(w) PROVE Final(j)
    <3>1. held[w] # j
      BY <1>1, <2>4 DEF FinishJob, ExecInv, OneWorkerPerJob, Busy, Terminal
    <3> QED BY <1>1, <2>4, <3>1 DEF FinishJob, TypeOK
  <2>5. CASE UNCHANGED status
    BY <2>5
  <2> QED
    BY <1>1, <2>1, <2>2, <2>3, <2>4, <2>5
    DEF Next, Enqueue, WorkerStep, Create, Acknowledge, LeaseExpires, LeaseLapses,
        LoadJob, StartSource, FinishSource, RenewLease, StoreError, CallHangs, ClaimHangs,
        Crash, Shutdown, Restart
<1>2. TypeOK /\ ExecInv /\ [Next]_vars => [\A j \in Jobs : Final(j)]_vars
  BY <1>1
<1> HIDE DEF Final
<1>3. Spec => [][\A j \in Jobs : Final(j)]_vars
  BY <1>2, TypeInit, TypeStep, ExecInit, ExecStep, PTL DEF Spec
<1> QED BY <1>3 DEF OutcomeIsFinal, Final

\* A job that was never created has no sources.
NoneBefore == \A j \in Jobs : status[j] = "absent" => \A t \in Targets : srcStatus[j][t] = "absent"

\* Which sources a step writes, and from where: a source brought in is not
\* among them.
LEMMA SourcesStep ==
    ASSUME "lapse" \notin FaultKinds, TypeOK, ExecInv, NoneBefore, Next,
           NEW j \in Jobs, NEW t \in Targets
    PROVE  /\ srcStatus[j][t] \in Done => srcStatus'[j][t] = srcStatus[j][t]
           /\ status'[j] = "absent" => status[j] = "absent" /\ srcStatus'[j] = srcStatus[j]
<1> DEFINE Goal ==
        /\ srcStatus[j][t] \in Done => srcStatus'[j][t] = srcStatus[j][t]
        /\ status'[j] = "absent" => status[j] = "absent" /\ srcStatus'[j] = srcStatus[j]
<1> USE DEF rows, workers, TypeOK
<1>1. ASSUME NEW k \in Jobs, NEW T \in (SUBSET Targets) \ {{}}, Insert(k, T) PROVE Goal
  BY <1>1 DEF Insert, NoneBefore, Done
<1>2. ASSUME NEW k \in Jobs, RequeueFailed(k) PROVE Goal
  BY <1>2 DEF RequeueFailed, Done
<1>3. ASSUME NEW w \in Workers, Claim(w) PROVE Goal
  <2>1. PICK k \in Jobs : Claims(w, k)
    BY <1>3, ClaimPicks
  <2> QED BY <2>1 DEF Claims
<1>4. ASSUME NEW w \in Workers, NEW u \in Targets, StartSource(w, u) PROVE Goal
  <2>1. held[w] \in Jobs /\ status[held[w]] = "running" /\ srcStatus[held[w]][u] \notin Done
    BY <1>4 DEF StartSource, ExecInv, OneWorkerPerJob, SnapshotInv, Busy
  <2> QED BY <1>4, <2>1 DEF StartSource
<1>5. ASSUME NEW w \in Workers, NEW r \in Finished, FinishSource(w, r) PROVE Goal
  <2>1. /\ held[w] \in Jobs /\ status[held[w]] = "running" /\ cur[w] \in Targets
        /\ srcStatus[held[w]][cur[w]] \notin Done
    BY <1>5 DEF FinishSource, ExecInv, OneWorkerPerJob, SnapshotInv, Busy, Done
  <2> QED BY <1>5, <2>1 DEF FinishSource
<1>6. ASSUME NEW w \in Workers, FinishJob(w) PROVE Goal
  <2>1. Aggregate(srcStatus[held[w]]) # "absent"
    BY AggregateTerminal DEF Terminal
  <2> QED BY <1>6, <2>1 DEF FinishJob
<1>7. CASE UNCHANGED <<status, srcStatus>>
  BY <1>7
<1> QED
  BY <1>1, <1>2, <1>3, <1>4, <1>5, <1>6, <1>7
  DEF Next, Enqueue, WorkerStep, Create, EnqueueBootstrap, Acknowledge, LeaseExpires,
      LeaseLapses, LoadJob, RenewLease, StoreError, CallHangs, ClaimHangs, Crash, Shutdown, Restart

LEMMA NoneStep ==
    ASSUME "lapse" \notin FaultKinds, TypeOK, ExecInv, NoneBefore, [Next]_vars
    PROVE  NoneBefore'
<1>1. CASE Next
  BY <1>1, SourcesStep DEF NoneBefore
<1>2. CASE UNCHANGED vars
  BY <1>2 DEF NoneBefore, vars
<1> QED BY <1>1, <1>2

\* While renewals arrive in time, no crash, takeover or requeueing lets a
\* source be run again whose result was brought in (the skip in runNext).
THEOREM DoneIsKeptCorrect ==
    ASSUME "lapse" \notin FaultKinds PROVE Spec => DoneIsKept
<1> DEFINE Kept == \A j \in Jobs, t \in Targets :
                      srcStatus[j][t] \in Done => srcStatus'[j][t] = srcStatus[j][t]
<1>1. Init => NoneBefore
  BY DEF Init, NoneBefore
<1>2. TypeOK /\ ExecInv /\ NoneBefore /\ [Next]_vars => [Kept]_vars
  BY SourcesStep
<1>3. TypeOK /\ ExecInv /\ NoneBefore /\ [Next]_vars => NoneBefore'
  BY NoneStep
<1> HIDE DEF Kept
<1>4. Spec => [][Kept]_vars
  BY <1>1, <1>2, <1>3, TypeInit, TypeStep, ExecInit, ExecStep, PTL DEF Spec
<1> QED BY <1>4 DEF DoneIsKept, Kept

------------------------------------------------------------------------------
(* The queue implements JobLifecycle.                                      *)

LEMMA RefinementInit == Init => Lifecycle!LifecycleInit
  BY DEF Init, Lifecycle!LifecycleInit, Outcome, ResultOf

\* FinishJob and the abstract specification judge the sources alike.
LEMMA VerdictIsAggregate ==
    ASSUME TypeOK, NEW j \in Jobs,
           \A t \in Targets : srcStatus[j][t] \in Finished \union {"absent"}
    PROVE  Aggregate(srcStatus[j]) = Lifecycle!Verdict(Outcome[j])
<1>1. /\ DOMAIN Outcome[j] = Targets
      /\ \A t \in Targets : Outcome[j][t] = srcStatus[j][t]
  BY DEF Outcome, ResultOf, Finished, Done
<1> QED BY <1>1 DEF Aggregate, Lifecycle!Verdict, Lifecycle!Achieved, Done

\* The results change at the one job whose sources change.
LEMMA OutcomeAt ==
    ASSUME NEW j \in Jobs, NEW f,
           \A k \in Jobs : k # j => srcStatus'[k] = srcStatus[k],
           f = [t \in Targets |-> ResultOf(srcStatus'[j][t])]
    PROVE  Outcome' = [Outcome EXCEPT ![j] = f]
  BY DEF Outcome

LEMMA OutcomeAtSource ==
    ASSUME TypeOK, NEW j \in Jobs, NEW t \in Targets, NEW s,
           srcStatus' = [srcStatus EXCEPT ![j][t] = s]
    PROVE  Outcome' = [Outcome EXCEPT ![j][t] = ResultOf(s)]
<1>1. \A k \in Jobs : k # j => srcStatus'[k] = srcStatus[k]
  BY DEF TypeOK
<1>2. srcStatus'[j] = [srcStatus[j] EXCEPT ![t] = s]
  BY DEF TypeOK
<1>3. Outcome[j] = [u \in Targets |-> ResultOf(srcStatus[j][u])]
  BY DEF Outcome
<1>4. [Outcome[j] EXCEPT ![t] = ResultOf(s)] = [u \in Targets |-> ResultOf(srcStatus'[j][u])]
  BY <1>2, <1>3 DEF TypeOK
<1> QED BY <1>1, <1>4, OutcomeAt

LEMMA RefinementStep ==
    ASSUME "lapse" \notin FaultKinds, TypeOK, ExecInv, [Next]_vars
    PROVE  [Lifecycle!LifecycleNext]_(Lifecycle!lifecycleVars)
<1> DEFINE Goal == [Lifecycle!LifecycleNext]_(Lifecycle!lifecycleVars)
<1> USE DEF rows, workers
<1>1. ASSUME UNCHANGED <<status, srcStatus>> PROVE Goal
  BY <1>1 DEF Lifecycle!lifecycleVars, Outcome
<1>2. ASSUME NEW j \in Jobs, NEW T \in (SUBSET Targets) \ {{}}, Insert(j, T) PROVE Goal
  <2>1. Outcome' = [Outcome EXCEPT
            ![j] = [t \in Targets |-> IF t \in T THEN "pending" ELSE "absent"]]
    <3>1. [t \in Targets |-> ResultOf(srcStatus'[j][t])] =
          [t \in Targets |-> IF t \in T THEN "pending" ELSE "absent"]
      BY <1>2 DEF Insert, ResultOf, TypeOK
    <3> QED BY <1>2, <3>1, OutcomeAt DEF Insert, TypeOK
  <2>2. Lifecycle!Submit(j, T)
    BY <1>2, <2>1 DEF Insert, Lifecycle!Submit
  <2> QED BY <2>2 DEF Lifecycle!LifecycleNext
<1>3. ASSUME NEW j \in Jobs, RequeueFailed(j) PROVE Goal
  <2>1. Outcome' = [Outcome EXCEPT ![j] =
            [t \in Targets |-> IF @[t] = "failed" THEN "pending" ELSE @[t]]]
    <3>1. Outcome[j] = [t \in Targets |-> ResultOf(srcStatus[j][t])]
      BY DEF Outcome
    <3>2. [t \in Targets |-> ResultOf(srcStatus'[j][t])] =
          [t \in Targets |-> IF Outcome[j][t] = "failed" THEN "pending" ELSE Outcome[j][t]]
      BY <1>3, <3>1 DEF RequeueFailed, ResultOf, TypeOK
    <3>3. Outcome' = [Outcome EXCEPT ![j] =
              [t \in Targets |-> IF Outcome[j][t] = "failed" THEN "pending" ELSE Outcome[j][t]]]
      BY <1>3, <3>2, OutcomeAt DEF RequeueFailed, TypeOK
    <3> QED BY <3>3 DEF Outcome
  <2>2. Lifecycle!Retry(j)
    BY <1>3, <2>1 DEF RequeueFailed, Lifecycle!Retry
  <2> QED BY <2>2 DEF Lifecycle!LifecycleNext
<1>4. ASSUME NEW w \in Workers, Claim(w) PROVE Goal
  <2>1. PICK j \in Jobs : Claims(w, j)
    BY <1>4, ClaimPicks
  <2>2. CASE status[j] = "running"
    <3>1. UNCHANGED <<status, srcStatus>>
      BY <2>1, <2>2 DEF Claims, TypeOK
    <3> QED BY <1>1, <3>1
  <2>3. CASE status[j] = "queued"
    <3>1. Lifecycle!Begin(j)
      BY <2>1, <2>3 DEF Claims, Lifecycle!Begin, Outcome
    <3> QED BY <3>1 DEF Lifecycle!LifecycleNext
  <2> QED BY <2>1, <2>2, <2>3 DEF Claims, Claimable
<1>5. ASSUME NEW w \in Workers, NEW t \in Targets, StartSource(w, t) PROVE Goal
  <2>1. /\ held[w] \in Jobs /\ status[held[w]] = "running" /\ status' = status
        /\ srcStatus[held[w]][t] \in {"failed", "queued", "running"}
    BY <1>5 DEF StartSource, ExecInv, OneWorkerPerJob, SnapshotInv, Busy, TypeOK,
                SourceStatus, Finished
  <2>2. Outcome' = [Outcome EXCEPT ![held[w]][t] = "pending"]
    BY <1>5, <2>1, OutcomeAtSource DEF StartSource, ResultOf
  <2>3. CASE srcStatus[held[w]][t] = "failed"
    <3>1. Outcome[held[w]][t] = "failed"
      BY <2>1, <2>3 DEF Outcome, ResultOf
    <3>2. Lifecycle!Attempt(held[w], t)
      BY <2>1, <2>2, <3>1 DEF Lifecycle!Attempt
    <3> QED BY <2>1, <3>2 DEF Lifecycle!LifecycleNext
  <2>4. CASE srcStatus[held[w]][t] \in {"queued", "running"}
    <3>1. Outcome[held[w]][t] = "pending"
      BY <2>1, <2>4 DEF Outcome, ResultOf
    <3>2. Outcome' = Outcome
      BY <2>1, <2>2, <3>1 DEF Outcome
    <3> QED BY <2>1, <3>2 DEF Lifecycle!lifecycleVars
  <2> QED BY <2>1, <2>3, <2>4
<1>6. ASSUME NEW w \in Workers, NEW r \in Finished, FinishSource(w, r) PROVE Goal
  <2>1. /\ held[w] \in Jobs /\ cur[w] \in Targets
        /\ status[held[w]] = "running" /\ status' = status
        /\ srcStatus[held[w]][cur[w]] = "running"
    BY <1>6 DEF FinishSource, ExecInv, OneWorkerPerJob, SnapshotInv, Busy, TypeOK
  <2>2. Outcome' = [Outcome EXCEPT ![held[w]][cur[w]] = r]
    BY <1>6, <2>1, OutcomeAtSource DEF FinishSource, ResultOf, Finished, Done
  <2>3. Outcome[held[w]][cur[w]] = "pending"
    BY <2>1 DEF Outcome, ResultOf
  <2>4. Lifecycle!Settle(held[w], cur[w], r)
    BY <2>1, <2>2, <2>3 DEF Lifecycle!Settle
  <2>5. r \in Lifecycle!Results
    BY DEF Lifecycle!Results, Lifecycle!Achieved, Finished, Done
  <2> QED BY <2>1, <2>4, <2>5 DEF Lifecycle!LifecycleNext
<1>7. ASSUME NEW w \in Workers, FinishJob(w) PROVE Goal
  <2>1. /\ held[w] \in Jobs /\ status[held[w]] = "running"
        /\ \A t \in Targets : srcStatus[held[w]][t] \in Finished \union {"absent"}
    <3>1. Busy(w) /\ held[w] \in Jobs /\ cur[w] = NoTarget
      BY <1>7 DEF FinishJob, Busy, TypeOK
    <3>2. \A t \in Targets : srcStatus[held[w]][t] \notin {"queued", "running"}
      BY <1>7, <3>1, TargetsAssumption DEF FinishJob, ExecInv, SnapshotInv
    <3> QED BY <3>1, <3>2 DEF ExecInv, OneWorkerPerJob, TypeOK, SourceStatus
  <2>2. \A t \in Targets : Outcome[held[w]][t] # "pending"
    BY <2>1 DEF Outcome, ResultOf, Finished, Done
  <2>3. /\ status' = [status EXCEPT ![held[w]] = Lifecycle!Verdict(Outcome[held[w]])]
        /\ Outcome' = Outcome
    BY <1>7, <2>1, VerdictIsAggregate DEF FinishJob, Outcome
  <2>4. Lifecycle!End(held[w])
    BY <2>1, <2>2, <2>3 DEF Lifecycle!End
  <2> QED BY <2>1, <2>4 DEF Lifecycle!LifecycleNext
<1> QED
  BY <1>1, <1>2, <1>3, <1>4, <1>5, <1>6, <1>7
  DEF Next, Enqueue, WorkerStep, vars, Create, EnqueueBootstrap, Acknowledge,
      LeaseExpires, LeaseLapses, LoadJob, RenewLease, StoreError, CallHangs, ClaimHangs,
      Crash, Shutdown, Restart

\* While renewals arrive in time, whatever crashes, shutdowns and store errors
\* do, the rows of a job change only as JobLifecycle lets them.
THEOREM QueueImplementsLifecycle ==
    ASSUME "lapse" \notin FaultKinds PROVE Spec => ImplementsLifecycle
<1> QED BY TypeInit, TypeStep, ExecInit, ExecStep, RefinementInit, RefinementStep, PTL
        DEF Spec, ImplementsLifecycle, Lifecycle!LifecycleSpec

------------------------------------------------------------------------------
(***************************************************************************)
(* The clock of the leases (LeaseTimer).  For every lease that is long     *)
(* enough, the queue with its clock is the queue in which no lease lapses: *)
(* the theorems about the latter hold of the former.                       *)
(***************************************************************************)

\* Both lengths, in ticks, are natural numbers.
LEMMA TimerSizes == Interval \in Nat /\ Granted \in Nat
<1>1. Lease \div 3 \in Nat
  BY TimerAssumption
<1>2. Interval \in Nat
  BY <1>1, TimerAssumption DEF Interval
<1>3. Lease \div Second \in Nat
  BY TimerAssumption
<1>4. \A a, b \in Nat : a * b \in Nat
  OBVIOUS
<1>5. Granted \in Nat
  BY <1>3, <1>4, TimerAssumption DEF Granted
<1> QED BY <1>2, <1>5

\* A renewal that fails uses up one interval of the room for failures.
LEMMA RoomShrinks ==
    \A M, m, i \in Nat : /\ (M - (m + 1)) * i + i = (M - m) * i
                         /\ (M + 1) * i = (M - 0) * i + i
                         /\ (M - m) * i \in Int
                         /\ m <= M => (M - m) * i >= 0
<1> SUFFICES ASSUME NEW M \in Nat, NEW m \in Nat, NEW i \in Nat
             PROVE  /\ (M - (m + 1)) * i + i = (M - m) * i
                    /\ (M + 1) * i = (M - 0) * i + i
                    /\ (M - m) * i \in Int
                    /\ m <= M => (M - m) * i >= 0
  OBVIOUS
<1>1. (M - (m + 1)) * i + i = (M - m) * i
  OBVIOUS
<1>2. (M + 1) * i = (M - 0) * i + i
  OBVIOUS
<1>3. (M - m) * i \in Int
  OBVIOUS
<1>4. \A a, b \in Nat : a * b >= 0
  OBVIOUS
<1>5. m <= M => (M - m) * i >= 0
  BY <1>4
<1> QED BY <1>1, <1>2, <1>3, <1>5

------------------------------------------------------------------------------

TimerInv == TimedTypeOK /\ LeaseCoversMisses

LEMMA TimerInit == TimedInit => TimerInv
  BY TimerSizes, TimerAssumption
  DEF TimedInit, Init, TimerInv, TimedTypeOK, LeaseCoversMisses, Busy

LEMMA RoomIsNat == TimedTypeOK => \A w \in Workers : Room(w) \in Nat
  BY RoomShrinks, TimerSizes, TimerAssumption DEF TimedTypeOK, Room

\* A worker whose job, lease and timer a step leaves alone keeps its margin.
LEMMA Undisturbed ==
    ASSUME NEW w \in Workers,
           Busy(w) => /\ leaseLive[held[w]]
                      /\ left[held[w]] > NextTick(w) + Room(w) + Latency,
           Busy(w)', Busy(w), held'[w] = held[w],
           (pc'[w] = "claimed") <=> (pc[w] = "claimed"),
           leaseLive'[held[w]] = leaseLive[held[w]], left'[held[w]] = left[held[w]],
           due'[w] = due[w], missed'[w] = missed[w]
    PROVE  (/\ leaseLive[held[w]]
            /\ left[held[w]] > NextTick(w) + Room(w) + Latency)'
  BY DEF NextTick, Room

\* What has nothing to do with leases disturbs none.
LEMMA UntimedStep ==
    ASSUME TypeOK, ExecInv, TimerInv, Untimed, UNCHANGED timers PROVE TimerInv'
<1> USE DEF rows, workers
<1>1. TimedTypeOK'
  BY DEF TimerInv, TimedTypeOK, timers
<1>2. SUFFICES ASSUME NEW w \in Workers, Busy(w)'
               PROVE  (/\ leaseLive[held[w]]
                       /\ left[held[w]] > NextTick(w) + Room(w) + Latency)'
  BY <1>1 DEF TimerInv, LeaseCoversMisses
<1> DEFINE Kept == /\ Busy(w) /\ held'[w] = held[w]
                  /\ ((pc'[w] = "claimed") <=> (pc[w] = "claimed"))
                  /\ leaseLive'[held[w]] = leaseLive[held[w]]
<1>3. Kept
  <2>1. ASSUME NEW j \in Jobs, NEW T \in (SUBSET Targets) \ {{}}, Create(j, T) PROVE Kept
    BY <2>1, <1>2 DEF Create, Insert, Busy
  <2>2. ASSUME NEW j \in Jobs, NEW T \in (SUBSET Targets) \ {{}}, NEW v \in Workers,
               EnqueueBootstrap(v, j, T)
        PROVE  Kept
    <3>1. UNCHANGED <<pc, held>>
      BY <2>2 DEF EnqueueBootstrap
    <3>2. CASE Insert(j, T)
      BY <1>2, <3>1, <3>2 DEF Insert, Busy
    <3>3. CASE RequeueFailed(j)
      <4>1. held[w] # j
        BY <1>2, <3>1, <3>3 DEF ExecInv, OneWorkerPerJob, RequeueFailed, Busy
      <4>2. leaseLive'[held[w]] = leaseLive[held[w]]
        BY <1>2, <3>1, <3>3, <4>1 DEF RequeueFailed, TypeOK, Busy
      <4> QED BY <1>2, <3>1, <4>2 DEF Busy
    <3> QED BY <2>2, <3>2, <3>3 DEF EnqueueBootstrap
  <2>3. ASSUME NEW j \in Jobs, Acknowledge(j) PROVE Kept
    BY <2>3, <1>2 DEF Acknowledge, Busy
  <2>4. ASSUME NEW v \in Workers, NEW t \in Targets, StartSource(v, t) PROVE Kept
    BY <2>4, <1>2 DEF StartSource, Busy, TypeOK
  <2>5. ASSUME NEW v \in Workers, NEW r \in Finished, FinishSource(v, r) PROVE Kept
    BY <2>5, <1>2 DEF FinishSource, Busy, TypeOK
  <2>6. ASSUME NEW v \in Workers, Restart(v) PROVE Kept
    BY <2>6, <1>2 DEF Restart, Busy, TypeOK
  <2>7. ASSUME NEW v \in Workers, CallHangs(v) PROVE Kept
    BY <2>7, <1>2 DEF CallHangs, Busy, TypeOK
  <2> QED BY <2>1, <2>2, <2>3, <2>4, <2>5, <2>6, <2>7 DEF Untimed, Enqueue
<1>4. UNCHANGED <<left, due, missed>>
  BY DEF timers
<1> QED BY <1>2, <1>3, <1>4, Undisturbed DEF TimerInv, LeaseCoversMisses

\* Time passes alike for a lease and for the timer that renews it.
LEMMA TickStep == ASSUME TypeOK, TimerInv, Tick PROVE TimerInv'
<1> USE TimerAssumption, TimerSizes
<1>1. /\ left' \in [Jobs -> 0..Granted] /\ due' \in [Workers -> (-Latency)..Interval]
      /\ missed' = missed
  BY DEF TimerInv, TimedTypeOK, Tick
<1>2. \A w \in Workers : Busy(w) => held[w] \in Jobs
  BY DEF TypeOK
<1>3. SUFFICES ASSUME NEW w \in Workers, Busy(w)'
               PROVE  (/\ leaseLive[held[w]]
                       /\ left[held[w]] > NextTick(w) + Room(w) + Latency)'
  BY <1>1 DEF TimerInv, TimedTypeOK, LeaseCoversMisses
<1>4. /\ Busy(w) /\ held[w] \in Jobs
      /\ UNCHANGED <<pc, held, leaseLive, missed>>
  BY <1>2, <1>3 DEF Tick, vars, Busy
<1>5. leaseLive[held[w]] /\ left[held[w]] > NextTick(w) + Room(w) + Latency
  BY <1>4 DEF TimerInv, LeaseCoversMisses
<1>6. left'[held[w]] = left[held[w]] - 1 /\ due'[w] = due[w] - 1
  BY <1>4, <1>5 DEF Tick
<1>7. NextTick(w)' = NextTick(w) - 1 /\ NextTick(w) \in Int
  BY <1>4, <1>6 DEF NextTick, TimerInv, TimedTypeOK
<1>8. Room(w)' = Room(w) /\ Room(w) \in Nat
  BY <1>4, RoomIsNat DEF Room, TimerInv
<1>9. left[held[w]] \in Int
  BY <1>4 DEF TimerInv, TimedTypeOK
<1> QED BY <1>4, <1>5, <1>6, <1>7, <1>8, <1>9

\* The steps of a worker with its lease keep its margin, if the lease is long
\* enough, and touch no other worker's.
LEMMA WorkerStepKeeps ==
    ASSUME Timely, TypeOK, ExecInv, TimerInv, NEW w \in Workers, TimedWorkerStep(w)
    PROVE  TimerInv'
<1> USE TimerAssumption, TimerSizes DEF rows, workers
<1> DEFINE Margin(v) == /\ leaseLive[held[v]]
                       /\ left[held[v]] > NextTick(v) + Room(v) + Latency
<1>1. \A v \in Workers : Busy(v) => Margin(v) /\ held[v] \in Jobs
  BY DEF TypeOK, TimerInv, LeaseCoversMisses
<1>2. Room(w) \in Nat /\ MaxMissed * Interval \in Nat
  BY RoomIsNat, RoomShrinks DEF TimerInv
<1>3. Granted > Interval + MaxMissed * Interval + 2 * Latency
  BY RoomShrinks DEF Timely
<1>4. missed'[w] = 0 /\ missed' \in [Workers -> 0..MaxMissed] => Room(w)' = MaxMissed * Interval
  BY DEF Room
\* What is left to show of each step: w itself, the others, the types.
<1>5. ASSUME \A v \in Workers \ {w} :
                 Busy(v)' => /\ Busy(v) /\ held'[v] = held[v]
                             /\ ((pc'[v] = "claimed") <=> (pc[v] = "claimed"))
                             /\ leaseLive'[held[v]] = leaseLive[held[v]]
                             /\ left'[held[v]] = left[held[v]]
                             /\ due'[v] = due[v] /\ missed'[v] = missed[v],
             Busy(w)' => Margin(w)', TimedTypeOK'
      PROVE  TimerInv'
  <2>1. \A v \in Workers \ {w} : Busy(v)' => Margin(v)'
    BY <1>1, <1>5, Undisturbed
  <2> QED BY <1>5, <2>1 DEF TimerInv, LeaseCoversMisses
<1>6. CASE TimedClaim(w)
  <2>1. PICK j \in Jobs : Claims(w, j)
    BY <1>6, ClaimPicks DEF TimedClaim
  <2>2. \A v \in Workers : ~Holds(v, j)
    BY <2>1 DEF Claims, Claimable, ExecInv, OneWorkerPerJob, Holds
  <2>3. /\ held'[w] = j /\ pc'[w] = "claimed" /\ leaseLive'[j]
        /\ left' = [left EXCEPT ![j] = Granted] /\ NoTimer(w)
    BY <1>6, <2>1 DEF TimedClaim, Claims, TypeOK
  <2>4. TimedTypeOK'
    BY <2>3 DEF TimerInv, TimedTypeOK, NoTimer
  <2>5. \A v \in Workers \ {w} :
            Busy(v)' => /\ Busy(v) /\ held'[v] = held[v] /\ pc'[v] = pc[v]
                        /\ leaseLive'[held[v]] = leaseLive[held[v]]
                        /\ left'[held[v]] = left[held[v]]
                        /\ due'[v] = due[v] /\ missed'[v] = missed[v]
    BY <2>1, <2>2, <2>3 DEF Claims, Busy, Holds, NoTimer, TypeOK, TimerInv, TimedTypeOK
  <2>6. NextTick(w)' = Interval + Latency /\ Room(w)' = MaxMissed * Interval
        /\ left'[j] = Granted
    BY <1>4, <2>3, <2>4 DEF NextTick, NoTimer, TimerInv, TimedTypeOK
  <2> QED BY <1>2, <1>3, <1>5, <2>3, <2>4, <2>5, <2>6
<1>7. CASE TimedLoadJob(w)
  <2>1. /\ Busy(w) /\ pc[w] = "claimed" /\ pc'[w] = "next"
        /\ UNCHANGED <<held, leaseLive, left, missed>>
        /\ due' = [due EXCEPT ![w] = Interval]
    BY <1>7 DEF TimedLoadJob, LoadJob, TypeOK, Busy
  <2>2. \A v \in Workers \ {w} : pc'[v] = pc[v] /\ due'[v] = due[v]
    BY <1>7 DEF TimedLoadJob, LoadJob, TypeOK, TimerInv, TimedTypeOK
  <2>3. TimedTypeOK'
    BY <2>1 DEF TimerInv, TimedTypeOK
  <2>4. NextTick(w)' = Interval /\ NextTick(w) = due[w] + Interval + Latency
        /\ due[w] \in (-Latency)..Interval /\ Room(w)' = Room(w)
        /\ left[held[w]] \in Int
    BY <1>1, <2>1 DEF NextTick, Room, TimerInv, TimedTypeOK
  <2>5. Margin(w)'
    BY <1>1, <1>2, <2>1, <2>4
  <2> QED BY <1>5, <2>1, <2>2, <2>3, <2>5 DEF Busy
<1>8. CASE TimedFinishJob(w)
  <2>1. /\ Busy(w) /\ ~Busy(w)'
        /\ leaseLive' = [leaseLive EXCEPT ![held[w]] = FALSE]
        /\ left' = [left EXCEPT ![held[w]] = 0] /\ NoTimer(w)
    BY <1>8 DEF TimedFinishJob, FinishJob, Drop, TypeOK, Busy
  <2>2. TimedTypeOK'
    BY <1>1, <2>1 DEF TimerInv, TimedTypeOK, NoTimer
  <2>3. \A v \in Workers \ {w} : pc'[v] = pc[v] /\ held'[v] = held[v]
    BY <1>8 DEF TimedFinishJob, FinishJob, Drop, TypeOK
  <2>4. \A v \in Workers \ {w} : Busy(v) => held[v] # held[w]
    BY <2>1 DEF ExecInv, OneWorkerPerJob, Holds
  <2>5. \A v \in Workers \ {w} :
            Busy(v)' => /\ Busy(v) /\ leaseLive'[held[v]] = leaseLive[held[v]]
                        /\ left'[held[v]] = left[held[v]]
                        /\ due'[v] = due[v] /\ missed'[v] = missed[v]
    BY <1>1, <2>1, <2>3, <2>4 DEF Busy, NoTimer, TypeOK, TimerInv, TimedTypeOK
  <2> QED BY <1>5, <2>1, <2>2, <2>3, <2>5
<1>9. CASE TimedRenewLease(w)
  <2>1. /\ Busy(w) /\ pc[w] # "claimed" /\ due[w] <= 0
        /\ UNCHANGED <<pc, held>> /\ leaseLive' = [leaseLive EXCEPT ![held[w]] = TRUE]
        /\ left' = [left EXCEPT ![held[w]] = Granted]
        /\ due' = [due EXCEPT ![w] = @ + Interval]
        /\ missed' = [missed EXCEPT ![w] = 0]
    BY <1>9 DEF TimedRenewLease, Renewing, RenewLease, Busy
  <2>2. TimedTypeOK'
    <3>1. due[w] \in (-Latency)..Interval /\ due[w] + Interval \in (-Latency)..Interval
      BY <2>1 DEF TimerInv, TimedTypeOK
    <3>2. Granted \in 0..Granted /\ 0 \in 0..MaxMissed
      OBVIOUS
    <3> QED BY <2>1, <3>1, <3>2 DEF TimerInv, TimedTypeOK
  <2>3. \A v \in Workers \ {w} : Busy(v) => held[v] # held[w]
    BY <2>1 DEF ExecInv, OneWorkerPerJob, Holds
  <2>4. \A v \in Workers \ {w} :
            Busy(v)' => /\ Busy(v) /\ leaseLive'[held[v]] = leaseLive[held[v]]
                        /\ left'[held[v]] = left[held[v]]
                        /\ due'[v] = due[v] /\ missed'[v] = missed[v]
    BY <1>1, <2>1, <2>3 DEF Busy, TypeOK, TimerInv, TimedTypeOK
  <2>5. NextTick(w)' = due[w] + Interval /\ due[w] \in Int
        /\ Room(w)' = MaxMissed * Interval /\ held'[w] = held[w]
        /\ left'[held[w]] = Granted /\ leaseLive'[held[w]]
    BY <1>1, <1>4, <2>1, <2>2 DEF NextTick, TimerInv, TimedTypeOK, TypeOK
  <2>6. Margin(w)'
    BY <1>2, <1>3, <2>1, <2>5
  <2> QED BY <1>5, <2>1, <2>2, <2>4, <2>6
<1>10. CASE MissRenewal(w)
  <2>1. /\ Busy(w) /\ pc[w] # "claimed" /\ due[w] <= 0
        /\ UNCHANGED <<pc, held, leaseLive, left>>
        /\ due' = [due EXCEPT ![w] = @ + Interval]
        /\ missed' = [missed EXCEPT ![w] = @ + 1] /\ missed[w] < MaxMissed
    BY <1>10 DEF MissRenewal, Renewing, Busy, vars
  <2>2. TimedTypeOK'
    BY <2>1 DEF TimerInv, TimedTypeOK
  <2>3. NextTick(w)' = due[w] + Interval /\ NextTick(w) = due[w] /\ due[w] \in Int
        /\ missed'[w] = missed[w] + 1 /\ missed[w] \in Nat /\ left[held[w]] \in Int
    BY <1>1, <2>1 DEF NextTick, TimerInv, TimedTypeOK
  <2>4. Room(w)' + Interval = Room(w) /\ Room(w)' \in Int
    BY <2>3, RoomShrinks DEF Room
  <2>5. Margin(w)'
    BY <1>1, <1>2, <2>1, <2>3, <2>4
  <2> QED BY <1>5, <2>1, <2>2, <2>5 DEF Busy, TimerInv, TimedTypeOK
<1>11. CASE TimedStop(w)
  <2>1. /\ ~Busy(w)' /\ UNCHANGED <<leaseLive, left>> /\ NoTimer(w)
        /\ \A v \in Workers \ {w} : pc'[v] = pc[v] /\ held'[v] = held[v]
    BY <1>11 DEF TimedStop, StoreError, ClaimHangs, Crash, Shutdown, Drop, TypeOK, Busy
  <2>2. TimedTypeOK'
    BY <2>1 DEF TimerInv, TimedTypeOK, NoTimer
  <2> QED BY <1>5, <2>1, <2>2 DEF Busy, NoTimer, TimerInv, TimedTypeOK
<1> QED BY <1>6, <1>7, <1>8, <1>9, <1>10, <1>11 DEF TimedWorkerStep

------------------------------------------------------------------------------

\* Only a lease that nobody holds ends: that of a worker still has its margin.
LEMMA ExpireStep ==
    ASSUME TypeOK, TimerInv, NEW j \in Jobs, Expire(j)
    PROVE  ~leaseLive'[j] /\ (\A w \in Workers : ~Holds(w, j)) /\ TimerInv'
<1> USE TimerAssumption, TimerSizes DEF workers, timers
<1>1. \A w \in Workers : ~Holds(w, j)
  <2> SUFFICES ASSUME NEW w \in Workers, Holds(w, j) PROVE FALSE
    OBVIOUS
  <2>1. left[j] > NextTick(w) + Room(w) + Latency /\ left[j] = 0
    BY DEF Holds, Expire, TimerInv, LeaseCoversMisses
  <2>2. Room(w) \in Nat
    BY RoomIsNat DEF TimerInv
  <2>3. NextTick(w) \in Int /\ NextTick(w) >= -Latency
    BY DEF NextTick, TimerInv, TimedTypeOK
  <2> QED BY <2>1, <2>2, <2>3
<1>2. /\ leaseLive' = [leaseLive EXCEPT ![j] = FALSE]
      /\ UNCHANGED <<pc, held, left, due, missed>>
  BY DEF Expire
<1>3. \A w \in Workers : Busy(w) => held[w] \in Jobs /\ leaseLive'[held[w]] = leaseLive[held[w]]
  BY <1>1, <1>2 DEF Holds, TypeOK
<1>4. TimerInv'
  BY <1>2, <1>3 DEF TimerInv, TimedTypeOK, LeaseCoversMisses, Busy, NextTick, Room
<1> QED BY <1>1, <1>2, <1>4 DEF TypeOK

\* Every step of the timed queue is one of the queue without lapses, or none.
LEMMA TimedStep ==
    ASSUME Timely, "lapse" \notin FaultKinds, TypeOK, LeaseInv, ExecInv, TimerInv,
           [TimedNext]_timedVars
    PROVE  [Next]_vars /\ TimerInv'
<1>1. CASE Tick
  BY <1>1, TickStep DEF Tick
<1>2. ASSUME NEW j \in Jobs, Expire(j) PROVE [Next]_vars /\ TimerInv'
  <2>1. Active(j)
    BY <1>2 DEF Expire, Active, LeaseInv, LeasedIffRunning
  <2>2. LeaseExpires(j)
    BY <1>2, <2>1, ExpireStep DEF Expire, LeaseExpires
  <2> QED BY <1>2, <2>2, ExpireStep DEF Next
<1>3. ASSUME NEW w \in Workers, TimedWorkerStep(w) PROVE [Next]_vars /\ TimerInv'
  <2>1. \/ WorkerStep(w) \/ RenewLease(w)
        \/ StoreError(w) \/ ClaimHangs(w) \/ Crash(w) \/ Shutdown(w) \/ UNCHANGED vars
    BY <1>3 DEF TimedWorkerStep, TimedClaim, TimedLoadJob, TimedFinishJob,
                TimedRenewLease, MissRenewal, TimedStop, WorkerStep
  <2> QED BY <1>3, <2>1, WorkerStepKeeps DEF Next
<1>4. CASE Untimed /\ UNCHANGED timers
  <2>1. Next
    BY <1>4 DEF Untimed, Next, WorkerStep
  <2> QED BY <1>4, <2>1, UntimedStep
<1>5. CASE UNCHANGED timedVars
  BY <1>5 DEF timedVars, timers, vars, TimerInv, TimedTypeOK, LeaseCoversMisses, Busy,
              NextTick, Room
<1> QED BY <1>1, <1>2, <1>3, <1>4, <1>5 DEF TimedNext

TimedInv == TypeOK /\ LeaseInv /\ ExecInv /\ TimerInv

LEMMA TimedInvHolds ==
    ASSUME Timely, "lapse" \notin FaultKinds PROVE TimedSpec => [](TimedInv)
<1>1. TimedInit => TimedInv
  BY TypeInit, LeaseInit, ExecInit, TimerInit DEF TimedInit, TimedInv
<1>2. TimedInv /\ [TimedNext]_timedVars => TimedInv'
  BY TimedStep, TypeStep, LeaseStep, ExecStep DEF TimedInv
<1> QED BY <1>1, <1>2, PTL DEF TimedSpec

\* With a lease that is long enough, a worker that is alive always has the
\* time for the renewals it may still miss and one that succeeds.
THEOREM LeaseCoversCorrect ==
    ASSUME Timely, "lapse" \notin FaultKinds PROVE TimedSpec => []LeaseCoversMisses
<1>1. TimedInv => LeaseCoversMisses
  BY DEF TimedInv, TimerInv
<1> QED BY <1>1, TimedInvHolds, PTL

\* With a lease that is long enough the timed queue behaves as the queue in
\* which no lease lapses under its worker.
THEOREM TimerImplementsQueue ==
    ASSUME Timely, "lapse" \notin FaultKinds PROVE TimedSpec => ImplementsQueue
<1>1. TimedInit => Init
  BY DEF TimedInit
<1>2. TimedInv /\ [TimedNext]_timedVars => [Next]_vars
  BY TimedStep DEF TimedInv
<1> QED BY <1>1, <1>2, TimedInvHolds, PTL DEF TimedSpec, ImplementsQueue, Spec

\* Hence no second replica executes a job whose worker renews its lease, late
\* or with failures though it be: OneWorkerPerJob rests on the clock alone.
THEOREM TimedOneWorker ==
    ASSUME Timely, "lapse" \notin FaultKinds PROVE TimedSpec => []OneWorkerPerJob
BY TimerImplementsQueue, OneWorkerCorrect, PTL DEF ImplementsQueue
==============================================================================
