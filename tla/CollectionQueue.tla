--------------------------- MODULE CollectionQueue ---------------------------
(***************************************************************************)
(* The persistent queue of collection jobs (internal/collection/store.go)  *)
(* and the workers that execute it (internal/collection/worker.go).        *)
(*                                                                         *)
(* A job is a row of collection_jobs and its sources are rows of           *)
(* collection_job_sources.  Every Store method is one SQL transaction, and *)
(* is one action here; between two of them a worker may be overtaken by    *)
(* another replica, lose its process, or be told to shut down.  A lease is *)
(* reduced to the one fact the queries ask of it, lease_expires_at >=      *)
(* now(): time passes by LeaseExpires and LeaseLapses.                     *)
(*                                                                         *)
(* A job is identified by its idempotency key (UNIQUE in the schema), so a *)
(* second insertion under the same key, which returns the stored job, is a *)
(* stuttering step.  Jobs are numbered in the order of (created_at, id),   *)
(* the order Claim scans them in; created_at is the start of the inserting *)
(* transaction, so a lower number may well become visible later.           *)
(***************************************************************************)
EXTENDS Naturals

CONSTANTS
    Workers,      \* worker processes, one per replica
    Jobs,         \* jobs, as naturals ordered by (created_at, id)
    Targets,      \* what a source row points at: a channel or a problem URL
    Owners,       \* host names
    OwnerOf,      \* host name of each replica: the lease_owner it writes
    TriggerOf,    \* trigger_type each job is inserted with
    FaultKinds,   \* the faults the environment may inject
    MaxFaults,    \* bound: how many of them
    NoOwner, NoJob, NoTarget

Triggers == {"manual", "scheduled", "bootstrap"}
AllFaults == {"crash", "shutdown", "store", "lapse", "hang"}

ASSUME JobsAssumption == Jobs \subseteq Nat /\ NoJob \notin Jobs
ASSUME TargetsAssumption == NoTarget \notin Targets
ASSUME OwnersAssumption == OwnerOf \in [Workers -> Owners] /\ NoOwner \notin Owners
ASSUME TriggersAssumption == TriggerOf \in [Jobs -> Triggers]
ASSUME FaultsAssumption == FaultKinds \subseteq AllFaults /\ MaxFaults \in Nat

VARIABLES
    status,      \* collection_jobs.status, "absent" before the insertion
    leaseOwner,  \* collection_jobs.lease_owner
    leaseLive,   \* collection_jobs.lease_expires_at >= now()
    acked,       \* notification_acknowledged_at IS NOT NULL
    srcStatus,   \* collection_job_sources.status, "absent" for no such row
    pc,          \* where each worker is in runNext
    held,        \* the job each worker believes it executes
    todo,        \* sources of the claim-time snapshot still to execute
    cur,         \* the source each worker is processing
    boot,        \* the scheduler of this process has not run enqueueBootstrap
    faults       \* faults injected so far

rows == <<status, leaseOwner, leaseLive, acked, srcStatus>>
workers == <<pc, held, todo, cur, boot>>
vars == <<status, leaseOwner, leaseLive, acked, srcStatus,
          pc, held, todo, cur, boot, faults>>

------------------------------------------------------------------------------
(* Statuses.                                                               *)

Done == {"succeeded", "truncated"}                \* skipped by the next run
Finished == Done \union {"failed"}
SourceStatus == Finished \union {"queued", "running"}
Terminal == {"succeeded", "partial", "failed"}
JobStatus == Terminal \union {"queued", "running"}

\* The CASE of FinishJob: errors = 0, then successes = 0, then the rest.
Aggregate(src) ==
    IF \A t \in Targets : src[t] # "failed" THEN "succeeded"
    ELSE IF \A t \in Targets : src[t] \notin Done THEN "failed"
    ELSE "partial"

\* The call a worker is in never returns: the whole worker waits for it, with a
\* job whose lease its goroutine goes on renewing, or without.
Hung(w) == pc[w] \in {"hung", "deaf"}

Busy(w) == pc[w] \in {"claimed", "next", "source", "hung"}
Holds(w, j) == Busy(w) /\ held[w] = j

TypeOK ==
    /\ status \in [Jobs -> JobStatus \union {"absent"}]
    /\ leaseOwner \in [Jobs -> Owners \union {NoOwner}]
    /\ leaseLive \in [Jobs -> BOOLEAN]
    /\ acked \in [Jobs -> BOOLEAN]
    /\ srcStatus \in [Jobs -> [Targets -> SourceStatus \union {"absent"}]]
    /\ pc \in [Workers -> {"idle", "claimed", "next", "source", "hung", "deaf", "down"}]
    /\ held \in [Workers -> Jobs \union {NoJob}]
    /\ todo \in [Workers -> SUBSET Targets]
    /\ cur \in [Workers -> Targets \union {NoTarget}]
    /\ boot \in [Workers -> BOOLEAN]
    /\ faults \in 0..MaxFaults
    /\ \A w \in Workers : Busy(w) <=> held[w] # NoJob
    /\ \A w \in Workers : pc[w] = "source" <=> cur[w] # NoTarget
    /\ \A w \in Workers : todo[w] # {} => pc[w] \in {"next", "source"}

Init ==
    /\ status = [j \in Jobs |-> "absent"]
    /\ leaseOwner = [j \in Jobs |-> NoOwner]
    /\ leaseLive = [j \in Jobs |-> FALSE]
    /\ acked = [j \in Jobs |-> FALSE]
    /\ srcStatus = [j \in Jobs |-> [t \in Targets |-> "absent"]]
    /\ pc = [w \in Workers |-> "idle"]
    /\ held = [w \in Workers |-> NoJob]
    /\ todo = [w \in Workers |-> {}]
    /\ cur = [w \in Workers |-> NoTarget]
    /\ boot = [w \in Workers |-> TRUE]
    /\ faults = 0

------------------------------------------------------------------------------
(* Enqueueing: the admin API, the cron callback and the start of a process. *)

\* Store.create: the job row and its source rows, in one transaction.
Insert(j, T) ==
    /\ status[j] = "absent"
    /\ status' = [status EXCEPT ![j] = "queued"]
    /\ srcStatus' = [srcStatus EXCEPT
           ![j] = [t \in Targets |-> IF t \in T THEN "queued" ELSE "absent"]]
    /\ UNCHANGED <<leaseOwner, leaseLive, acked>>

\* CreateManual, and CreateScheduled called by the cron callback.
Create(j, T) ==
    /\ TriggerOf[j] # "bootstrap"
    /\ Insert(j, T)
    /\ UNCHANGED <<workers, faults>>

\* Mutant of RequeueFailed: requeues whatever has ended.
RequeueEnded(j) ==
    /\ status[j] \in Terminal
    /\ status' = [status EXCEPT ![j] = "queued"]
    /\ srcStatus' = [srcStatus EXCEPT ![j] =
           [t \in Targets |-> IF @[t] = "failed" THEN "queued" ELSE @[t]]]
    /\ UNCHANGED <<leaseOwner, leaseLive, acked>>

\* RequeueFailed: the failed sources, then the job, provided it has failed.
RequeueFailed(j) ==
    /\ status[j] = "failed"
    /\ status' = [status EXCEPT ![j] = "queued"]
    /\ leaseOwner' = [leaseOwner EXCEPT ![j] = NoOwner]
    /\ leaseLive' = [leaseLive EXCEPT ![j] = FALSE]
    /\ srcStatus' = [srcStatus EXCEPT ![j] =
           [t \in Targets |-> IF @[t] = "failed" THEN "queued" ELSE @[t]]]
    /\ UNCHANGED acked

\* enqueueBootstrap, once per process start: create the job of the channels
\* without a checkpoint, or requeue it when it is found failed.
EnqueueBootstrap(w, j, T) ==
    /\ pc[w] # "down" /\ boot[w]
    /\ TriggerOf[j] = "bootstrap"
    /\ Insert(j, T) \/ RequeueFailed(j)
    /\ boot' = [boot EXCEPT ![w] = FALSE]
    /\ UNCHANGED <<pc, held, todo, cur, faults>>

\* Mutant of Acknowledge: does not ask whether the job has ended.
AcknowledgeAny(j) ==
    /\ TriggerOf[j] = "manual" /\ status[j] # "absent"
    /\ acked' = [acked EXCEPT ![j] = TRUE]
    /\ UNCHANGED <<status, leaseOwner, leaseLive, srcStatus, workers, faults>>

\* Acknowledge: only the initiator, so only a manual job, and only terminal.
Acknowledge(j) ==
    /\ TriggerOf[j] = "manual" /\ status[j] \in Terminal
    /\ acked' = [acked EXCEPT ![j] = TRUE]
    /\ UNCHANGED <<status, leaseOwner, leaseLive, srcStatus, workers, faults>>

------------------------------------------------------------------------------
(* The worker: runNext.                                                    *)

Active(j) == status[j] = "running" /\ leaseLive[j]

\* Mutants of Claimable: any running job may be taken; a queued one beside
\* another that is active.
ClaimableAnyRunning(j) ==
    \/ status[j] = "running"
    \/ status[j] = "queued" /\ ~ \E a \in Jobs : Active(a)
ClaimableBeside(j) ==
    \/ status[j] = "running" /\ ~leaseLive[j]
    \/ status[j] = "queued"

Claimable(j) ==
    \/ status[j] = "running" /\ ~leaseLive[j]
    \/ status[j] = "queued" /\ ~ \E a \in Jobs : Active(a)

\* Claim, under the advisory lock.  SKIP LOCKED passes over a row that a
\* statement of its holder (RenewLease, FinishJob) has locked at that moment.
Claim(w) ==
    /\ pc[w] = "idle"
    /\ \E locked \in SUBSET {j \in Jobs : \E v \in Workers : Holds(v, j)} :
       \E j \in Jobs \ locked :
          /\ Claimable(j)
          /\ \A k \in Jobs \ locked : Claimable(k) => j <= k
          /\ status' = [status EXCEPT ![j] = "running"]
          /\ leaseOwner' = [leaseOwner EXCEPT ![j] = OwnerOf[w]]
          /\ leaseLive' = [leaseLive EXCEPT ![j] = TRUE]
          /\ held' = [held EXCEPT ![w] = j]
    /\ pc' = [pc EXCEPT ![w] = "claimed"]
    /\ UNCHANGED <<acked, srcStatus, todo, cur, boot, faults>>

\* Mutants of LoadJob: a source left running is not run again; a source that
\* was brought in is.
LoadQueuedOnly(w) ==
    /\ pc[w] = "claimed"
    /\ todo' = [todo EXCEPT ![w] =
           {t \in Targets : srcStatus[held[w]][t] = "queued"}]
    /\ pc' = [pc EXCEPT ![w] = "next"]
    /\ UNCHANGED <<rows, held, cur, boot, faults>>
LoadEverySource(w) ==
    /\ pc[w] = "claimed"
    /\ todo' = [todo EXCEPT ![w] =
           {t \in Targets : srcStatus[held[w]][t] # "absent"}]
    /\ pc' = [pc EXCEPT ![w] = "next"]
    /\ UNCHANGED <<rows, held, cur, boot, faults>>

\* The Get that ends Claim reads the sources after the claim has committed;
\* runNext skips those a previous run has brought in.
LoadJob(w) ==
    /\ pc[w] = "claimed"
    /\ todo' = [todo EXCEPT ![w] =
           {t \in Targets : srcStatus[held[w]][t] \notin Done \union {"absent"}}]
    /\ pc' = [pc EXCEPT ![w] = "next"]
    /\ UNCHANGED <<rows, held, cur, boot, faults>>

StartSource(w, t) ==
    /\ pc[w] = "next" /\ t \in todo[w]
    /\ srcStatus' = [srcStatus EXCEPT ![held[w]][t] = "running"]
    /\ todo' = [todo EXCEPT ![w] = @ \ {t}]
    /\ cur' = [cur EXCEPT ![w] = t]
    /\ pc' = [pc EXCEPT ![w] = "source"]
    /\ UNCHANGED <<status, leaseOwner, leaseLive, acked, held, boot, faults>>

\* processSource has returned a result; FinishSource writes it.
FinishSource(w, result) ==
    /\ pc[w] = "source"
    /\ srcStatus' = [srcStatus EXCEPT ![held[w]][cur[w]] = result]
    /\ cur' = [cur EXCEPT ![w] = NoTarget]
    /\ pc' = [pc EXCEPT ![w] = "next"]
    /\ UNCHANGED <<status, leaseOwner, leaseLive, acked, held, todo, boot, faults>>

\* The worker lets go of its job: runNext returns, or its process is gone.
Drop(w, to) ==
    /\ pc' = [pc EXCEPT ![w] = to]
    /\ held' = [held EXCEPT ![w] = NoJob]
    /\ todo' = [todo EXCEPT ![w] = {}]
    /\ cur' = [cur EXCEPT ![w] = NoTarget]

\* Mutants of FinishJob: called after the first source; leaves the lease; puts
\* a failed job back in the queue.
FinishJobEarly(w) ==
    /\ pc[w] = "next"
    /\ status' = [status EXCEPT ![held[w]] = Aggregate(srcStatus[held[w]])]
    /\ leaseOwner' = [leaseOwner EXCEPT ![held[w]] = NoOwner]
    /\ leaseLive' = [leaseLive EXCEPT ![held[w]] = FALSE]
    /\ Drop(w, "idle")
    /\ UNCHANGED <<acked, srcStatus, boot, faults>>
FinishJobKeepsLease(w) ==
    /\ pc[w] = "next" /\ todo[w] = {}
    /\ status' = [status EXCEPT ![held[w]] = Aggregate(srcStatus[held[w]])]
    /\ Drop(w, "idle")
    /\ UNCHANGED <<leaseOwner, leaseLive, acked, srcStatus, boot, faults>>

FinishJobRetries(w) ==
    LET outcome == Aggregate(srcStatus[held[w]])
    IN  /\ pc[w] = "next" /\ todo[w] = {}
        /\ status' = [status EXCEPT ![held[w]] =
               IF outcome = "failed" THEN "queued" ELSE outcome]
        /\ leaseOwner' = [leaseOwner EXCEPT ![held[w]] = NoOwner]
        /\ leaseLive' = [leaseLive EXCEPT ![held[w]] = FALSE]
        /\ Drop(w, "idle")
        /\ UNCHANGED <<acked, srcStatus, boot, faults>>

\* FinishJob names the job only: neither its status nor its owner is checked.
FinishJob(w) ==
    /\ pc[w] = "next" /\ todo[w] = {}
    /\ status' = [status EXCEPT ![held[w]] = Aggregate(srcStatus[held[w]])]
    /\ leaseOwner' = [leaseOwner EXCEPT ![held[w]] = NoOwner]
    /\ leaseLive' = [leaseLive EXCEPT ![held[w]] = FALSE]
    /\ Drop(w, "idle")
    /\ UNCHANGED <<acked, srcStatus, boot, faults>>

\* A tick of the renewing goroutine.  When the row is no longer running under
\* this owner the call fails, which is logged and changes nothing.
RenewLease(w) ==
    /\ pc[w] \in {"next", "source", "hung"}
    /\ status[held[w]] = "running" /\ leaseOwner[held[w]] = OwnerOf[w]
    /\ leaseLive' = [leaseLive EXCEPT ![held[w]] = TRUE]
    /\ UNCHANGED <<status, leaseOwner, acked, srcStatus, workers, faults>>

------------------------------------------------------------------------------
(* The environment.                                                        *)

Fault(kind) ==
    /\ kind \in FaultKinds /\ faults < MaxFaults
    /\ faults' = faults + 1

\* A call on the store fails and runNext returns its error.  Had the statement
\* taken effect before the error, its own action would have come first.
StoreError(w) ==
    /\ Fault("store")
    /\ Busy(w) /\ ~Hung(w)
    /\ Drop(w, "idle")
    /\ UNCHANGED <<rows, boot>>

\* The process dies between two statements.
Crash(w) ==
    /\ Fault("crash")
    /\ pc[w] # "down"
    /\ Drop(w, "down")
    /\ boot' = [boot EXCEPT ![w] = FALSE]
    /\ UNCHANGED rows

\* ReadRange or a call on the store never returns: the context of the worker
\* has no deadline.  The goroutine renews the lease for as long as that lasts.
CallHangs(w) ==
    /\ Fault("hang")
    /\ pc[w] \in {"next", "source"}
    /\ pc' = [pc EXCEPT ![w] = "hung"]
    /\ todo' = [todo EXCEPT ![w] = {}]
    /\ cur' = [cur EXCEPT ![w] = NoTarget]
    /\ UNCHANGED <<rows, held, boot>>

\* The same of Claim, before or after its commit: nothing renews a lease yet.
\* Whether its advisory lock is kept meanwhile, so that no one can claim, is left
\* open; while a worker is deaf EveryJobEnds expects nothing of the others.
ClaimHangs(w) ==
    /\ Fault("hang")
    /\ pc[w] \in {"idle", "claimed"}
    /\ Drop(w, "deaf")
    /\ UNCHANGED <<rows, boot>>

\* Run's context is cancelled: the call in progress, or the next on the store,
\* fails with it, runNext returns and Run, having nothing to wait for, does too.
Shutdown(w) ==
    /\ Fault("shutdown")
    /\ pc[w] # "down"
    /\ Drop(w, "down")
    /\ boot' = [boot EXCEPT ![w] = FALSE]
    /\ UNCHANGED rows

Restart(w) ==
    /\ pc[w] = "down"
    /\ pc' = [pc EXCEPT ![w] = "idle"]
    /\ boot' = [boot EXCEPT ![w] = TRUE]
    /\ UNCHANGED <<rows, held, todo, cur, faults>>

\* lease_expires_at falls behind now() for a job that nobody executes.
LeaseExpires(j) ==
    /\ Active(j) /\ \A w \in Workers : ~Holds(w, j)
    /\ leaseLive' = [leaseLive EXCEPT ![j] = FALSE]
    /\ UNCHANGED <<status, leaseOwner, acked, srcStatus, workers, faults>>

\* The same under the feet of its worker, whose renewals fail or come late;
\* renewLease logs that and the worker goes on.
LeaseLapses(j) ==
    /\ Fault("lapse")
    /\ Active(j) /\ \E w \in Workers : Holds(w, j)
    /\ leaseLive' = [leaseLive EXCEPT ![j] = FALSE]
    /\ UNCHANGED <<status, leaseOwner, acked, srcStatus, workers>>

------------------------------------------------------------------------------

WorkerStep(w) ==
    \/ Claim(w)
    \/ LoadJob(w)
    \/ \E t \in Targets : StartSource(w, t)
    \/ \E result \in Finished : FinishSource(w, result)
    \/ FinishJob(w)

Enqueue ==
    \E j \in Jobs, T \in (SUBSET Targets) \ {{}} :
        \/ Create(j, T)
        \/ \E w \in Workers : EnqueueBootstrap(w, j, T)

Next ==
    \/ Enqueue
    \/ \E j \in Jobs : Acknowledge(j) \/ LeaseExpires(j) \/ LeaseLapses(j)
    \/ \E w \in Workers :
          \/ WorkerStep(w)
          \/ RenewLease(w)
          \/ StoreError(w)
          \/ CallHangs(w)
          \/ ClaimHangs(w)
          \/ Crash(w)
          \/ Shutdown(w)
          \/ Restart(w)

Spec == Init /\ [][Next]_vars

\* Run polls until its context is cancelled, time passes, and a stopped replica
\* is started again.  A call of a worker returns unless it hangs for ever, which
\* CallHangs and ClaimHangs are there for: no deadline ends it.
Fairness ==
    /\ \A w \in Workers : WF_vars(WorkerStep(w)) /\ WF_vars(Restart(w))
    /\ \A j \in Jobs : WF_vars(LeaseExpires(j))

FairSpec == Spec /\ Fairness

------------------------------------------------------------------------------
(* Properties.                                                             *)

\* A replica whose renewals all arrive in time is the only executor of its
\* job, and the row says so (worker.go: renewLease, store.go: Claim).
OneWorkerPerJob ==
    \A w \in Workers : Busy(w) =>
        /\ status[held[w]] = "running"
        /\ leaseOwner[held[w]] = OwnerOf[w]
        /\ leaseLive[held[w]]
        /\ \A v \in Workers : Holds(v, held[w]) => v = w

\* As long as nothing has failed, the replicas work one after the other, for a
\* queued job waits until no lease is live (Claim).  Only a failure lets two of
\* them be busy, with two jobs of one channel, it may be: this is Overlap of
\* ChannelCollection.
AloneUntilFault ==
    faults = 0 => \A v, w \in Workers : Busy(v) /\ Busy(w) => v = w

\* A job is reported finished only with every source finished, and its status
\* is what its sources say (FinishJob), whoever ran which source and however
\* often the job was interrupted.
TerminalMatchesSources ==
    \A j \in Jobs : status[j] \in Terminal =>
        /\ \A t \in Targets : srcStatus[j][t] \in Finished \union {"absent"}
        /\ status[j] = Aggregate(srcStatus[j])

\* A row carries a lease exactly while it is running, whatever was lost,
\* duplicated or done by a worker that no longer owns the job.
LeasedIffRunning ==
    \A j \in Jobs :
        /\ leaseOwner[j] # NoOwner <=> status[j] = "running"
        /\ leaseLive[j] => status[j] = "running"

\* A notification that was read belongs to a job that has ended: no later
\* step puts the job back in the queue.
AckedIsTerminal ==
    \A j \in Jobs : acked[j] => status[j] \in Terminal

\* What a run has brought in is never run again, across reclaims and requeues
\* (the skip in runNext).
DoneIsKept ==
    [][\A j \in Jobs, t \in Targets :
          srcStatus[j][t] \in Done => srcStatus'[j][t] = srcStatus[j][t]]_vars

\* The outcome of a job is final, except that a failed bootstrap may be put
\* back in the queue.
OutcomeIsFinal ==
    [][\A j \in Jobs : status[j] \in Terminal =>
          \/ status'[j] = status[j]
          \/ TriggerOf[j] = "bootstrap" /\ status[j] = "failed" /\ status'[j] = "queued"]_vars

\* Every job in the queue ends, through crashes, store errors and restarts,
\* when a lease lapses under its worker, and after a call that hung until its
\* process went down.  Only a call that hangs for ever keeps a job from its end:
\* renewLease holds its lease, and Claim takes nothing queued meanwhile.
EveryJobEnds ==
    \A j \in Jobs :
        status[j] \in {"queued", "running"}
            ~> (status[j] \in Terminal \/ [](\E w \in Workers : Hung(w)))
==============================================================================
